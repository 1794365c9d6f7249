--------------------------- MODULE RestartProofs ----------------------------
(***************************************************************************)
(* What holds of Restart for any number of trades, ends of the process and *)
(* attempts.                                                               *)
(***************************************************************************)
EXTENDS Restart, FiniteSetTheorems, SequenceTheorems, WellFoundedInduction, TLAPS

-----------------------------------------------------------------------------
(* Rounds and unfinished records, by recursion over the records *)

\* Every set of numbers has a least one: the cases left by a property of all
\* numbers cannot descend for ever.
LEMMA LeastElement ==
    ASSUME NEW T, T \subseteq Nat, T # {}
    PROVE  \E x \in T : \A y \in T : x <= y
<1> DEFINE U == {0..x : x \in T}
<1>1. U \subseteq FiniteSubsetsOf(Nat)
  <2> SUFFICES ASSUME NEW x \in T PROVE 0..x \in FiniteSubsetsOf(Nat)
    OBVIOUS
  <2>1. x \in Int /\ 0 \in Int /\ 0..x \subseteq Nat
    OBVIOUS
  <2>2. IsFiniteSet(0..x)
    BY <2>1, FS_Interval
  <2>3. QED
    BY <2>1, <2>2 DEF FiniteSubsetsOf
<1>2. \E I \in U : \A J \in U : <<J, I>> \notin StrictSubsetOrdering(Nat)
  <2>1. IsWellFoundedOn(StrictSubsetOrdering(Nat), FiniteSubsetsOf(Nat))
    BY FS_StrictSubsetOrderingWellFounded
  <2>2. U # {}
    OBVIOUS
  <2>3. QED
    BY <1>1, <2>1, <2>2, WFMin
<1>3. PICK x \in T : \A y \in T : <<0..y, 0..x>> \notin StrictSubsetOrdering(Nat)
  BY <1>2
<1>4. ASSUME NEW y \in T, y < x
      PROVE  <<0..y, 0..x>> \in StrictSubsetOrdering(Nat)
  <2>1. 0..y \subseteq 0..x /\ x \in 0..x /\ x \notin 0..y /\ 0..x \subseteq Nat
    BY <1>4
  <2>2. 0..y # 0..x
    BY <2>1
  <2>3. QED
    BY <2>1, <2>2 DEF StrictSubsetOrdering
<1>5. \A y \in T : ~(y < x)
  BY <1>3, <1>4
<1>6. x \in Nat /\ \A y \in T : y \in Nat
  OBVIOUS
<1>7. QED
  BY <1>5, <1>6

\* The open record is defined after each of the records ...
LEMMA OpensExist ==
    ASSUME NEW records, NEW n \in Nat
    PROVE  \E f : f = [i \in 0..n |-> IF i = 0 THEN 0 ELSE NextOpen(records, f[i - 1], i)]
<1> DEFINE Step(f, i) == IF i = 0 THEN 0 ELSE NextOpen(records, f[i - 1], i)
           Run(f, m) == f = [i \in 0..m |-> Step(f, i)]
           T == {m \in Nat : ~ \E f : Run(f, m)}
<1> SUFFICES ASSUME T # {} PROVE FALSE
  OBVIOUS
<1>1. PICK m \in T : \A y \in T : m <= y
  <2>1. T \subseteq Nat /\ T # {}
    OBVIOUS
  <2> HIDE DEF T
  <2>2. QED
    BY <2>1, LeastElement
<1>2. m # 0
  <2>1. Run([i \in 0..0 |-> 0], 0)
    OBVIOUS
  <2>2. QED
    BY <2>1
<1>3. m - 1 \in Nat /\ m - 1 \notin T
  <2> HIDE DEF Run, Step
  <2> QED
    BY <1>1, <1>2
<1>4. PICK f : Run(f, m - 1)
  BY <1>3
<1> DEFINE g == [i \in 0..m |-> Step(f, i)]
<1>5. \A i \in 0..(m - 1) : f[i] = Step(f, i)
  BY <1>4
<1>6. \A i \in 0..(m - 1) : g[i] = f[i]
  BY <1>3, <1>5
<1>7. \A i \in 0..m : i # 0 => g[i - 1] = f[i - 1]
  <2>1. \A i \in 0..m : i # 0 => i - 1 \in 0..(m - 1)
    BY <1>3
  <2> HIDE DEF g, T
  <2>2. QED
    BY <1>6, <2>1
<1>8. Run(g, m)
  <2>1. \A i \in 0..m : g[i] = Step(g, i)
    BY <1>7
  <2> HIDE DEF g
  <2>2. g = [i \in 0..m |-> g[i]]
    BY DEF g
  <2>3. QED
    BY <2>1, <2>2
<1>9. QED
  <2> HIDE DEF g, Run
  <2> QED
    BY <1>8

LEMMA OpenAfterIs ==
    ASSUME NEW records, Len(records) \in Nat
    PROVE  OpenAfter(records) = [i \in 0..Len(records) |->
                IF i = 0 THEN 0 ELSE NextOpen(records, OpenAfter(records)[i - 1], i)]
<1> DEFINE Open(f) == f = [i \in 0..Len(records) |->
                              IF i = 0 THEN 0 ELSE NextOpen(records, f[i - 1], i)]
<1>1. \E f : Open(f)
  BY OpensExist
<1>2. OpenAfter(records) = CHOOSE f : Open(f)
  BY DEF OpenAfter
<1>3. QED
  <2> HIDE DEF Open
  <2>1. Open(OpenAfter(records))
    BY <1>1, <1>2
  <2>2. QED
    BY <2>1 DEF Open

\* ... step by step, and is one of the records so far that are priced.
LEMMA OpenSteps ==
    ASSUME NEW records, Len(records) \in Nat
    PROVE  /\ OpenAfter(records)[0] = 0
           /\ \A i \in 1..Len(records) :
                OpenAfter(records)[i] = NextOpen(records, OpenAfter(records)[i - 1], i)
<1>1. 0 \in 0..Len(records) /\ \A i \in 1..Len(records) : i \in 0..Len(records) /\ i # 0
  OBVIOUS
<1> DEFINE f == OpenAfter(records)
<1>2. f = [i \in 0..Len(records) |-> IF i = 0 THEN 0 ELSE NextOpen(records, f[i - 1], i)]
  BY OpenAfterIs
<1> HIDE DEF f
<1>3. f[0] = 0 /\ \A i \in 1..Len(records) : f[i] = NextOpen(records, f[i - 1], i)
  BY <1>1, <1>2
<1> QED
  BY <1>3 DEF f

LEMMA OpenIsRecord ==
    ASSUME NEW records, Len(records) \in Nat, NEW n \in 0..Len(records)
    PROVE  /\ OpenAfter(records)[n] \in 0..n
           /\ OpenAfter(records)[n] # 0 => Priced(records[OpenAfter(records)[n]])
<1> DEFINE f == OpenAfter(records)
           T == {k \in 0..Len(records) : ~(f[k] \in 0..k /\ (f[k] # 0 => Priced(records[f[k]])))}
<1>1. CASE T # {}
  <2>1. PICK x \in T : \A y \in T : x <= y
    <3>1. T \subseteq Nat /\ T # {}
      BY <1>1
    <3> HIDE DEF T
    <3>2. QED
      BY <3>1, LeastElement
  <2>2. f[0] = 0 /\ \A i \in 1..Len(records) : f[i] = NextOpen(records, f[i - 1], i)
    BY OpenSteps
  <2>3. x # 0
    BY <2>1, <2>2
  <2>4. x \in 1..Len(records) /\ x - 1 \in 0..Len(records) /\ x - 1 \notin T
    BY <2>1, <2>3
  <2>5. f[x - 1] \in 0..(x - 1) /\ (f[x - 1] # 0 => Priced(records[f[x - 1]]))
    BY <2>4
  <2>6. f[x] = NextOpen(records, f[x - 1], x)
    BY <2>2, <2>4
  <2>7. \/ f[x] = f[x - 1]
        \/ f[x] = 0
        \/ f[x] = x /\ Priced(records[x])
    BY <2>6 DEF NextOpen
  <2>8. QED
    BY <2>1, <2>4, <2>5, <2>7
<1>2. QED
  BY <1>1

\* Records of the same kinds, priced alike, have the same open ones.
LEMMA OpensAgree ==
    ASSUME NEW p, NEW q, Len(p) \in Nat, Len(q) \in Nat,
           NEW n \in Nat, n <= Len(p), n <= Len(q),
           \A i \in 1..n : p[i].kind = q[i].kind /\ (Priced(p[i]) <=> Priced(q[i]))
    PROVE  \A k \in 0..n : OpenAfter(p)[k] = OpenAfter(q)[k]
<1> DEFINE f == OpenAfter(p)
           g == OpenAfter(q)
           T == {k \in 0..n : f[k] # g[k]}
<1> SUFFICES ASSUME T # {} PROVE FALSE
  OBVIOUS
<1>1. PICK x \in T : \A y \in T : x <= y
  <2>1. T \subseteq Nat /\ T # {}
    OBVIOUS
  <2> HIDE DEF T
  <2>2. QED
    BY <2>1, LeastElement
<1>2. f[0] = 0 /\ \A i \in 1..Len(p) : f[i] = NextOpen(p, f[i - 1], i)
  BY OpenSteps
<1>3. g[0] = 0 /\ \A i \in 1..Len(q) : g[i] = NextOpen(q, g[i - 1], i)
  BY OpenSteps
<1>4. x # 0
  BY <1>1, <1>2, <1>3
<1>5. x \in 1..n /\ x - 1 \in 0..n /\ x \in 1..Len(p) /\ x \in 1..Len(q) /\ x - 1 \in 0..Len(p)
  BY <1>1, <1>4
<1>6. f[x - 1] = g[x - 1] /\ f[x - 1] \in 0..(x - 1)
  BY <1>1, <1>5, OpenIsRecord
<1>7. f[x - 1] # 0 => f[x - 1] \in 1..n
  BY <1>5, <1>6
<1> HIDE DEF T, f, g
<1>8. NextOpen(p, f[x - 1], x) = NextOpen(q, g[x - 1], x)
  BY <1>5, <1>6, <1>7 DEF NextOpen, Completes
<1>9. f[x] = g[x]
  BY <1>2, <1>3, <1>5, <1>8
<1> QED
  BY <1>1, <1>9 DEF T

\* Records that are not priced change nothing.
LEMMA OpenStays ==
    ASSUME NEW p, Len(p) \in Nat, NEW m \in 0..Len(p),
           \A i \in (m + 1)..Len(p) : ~Priced(p[i])
    PROVE  \A k \in m..Len(p) : OpenAfter(p)[k] = OpenAfter(p)[m]
<1> DEFINE f == OpenAfter(p)
           T == {k \in m..Len(p) : f[k] # f[m]}
<1> SUFFICES ASSUME T # {} PROVE FALSE
  OBVIOUS
<1>1. PICK x \in T : \A y \in T : x <= y
  <2>1. T \subseteq Nat /\ T # {}
    OBVIOUS
  <2> HIDE DEF T
  <2>2. QED
    BY <2>1, LeastElement
<1>2. f[0] = 0 /\ \A i \in 1..Len(p) : f[i] = NextOpen(p, f[i - 1], i)
  BY OpenSteps
<1>3. x \in (m + 1)..Len(p) /\ x \in 1..Len(p) /\ x - 1 \in m..Len(p)
  BY <1>1
<1>4. f[x] = f[x - 1]
  BY <1>2, <1>3 DEF NextOpen
<1>5. f[x - 1] = f[m]
  BY <1>1, <1>3
<1> QED
  BY <1>1, <1>4, <1>5

\* A record is added.
LEMMA OpenOfAppend ==
    ASSUME NEW S, NEW p \in Seq(S), NEW r \in S
    PROVE  /\ \A k \in 0..Len(p) : OpenAfter(Append(p, r))[k] = OpenAfter(p)[k]
           /\ CurrentOpen(Append(p, r)) = NextOpen(Append(p, r), CurrentOpen(p), Len(p) + 1)
<1> DEFINE q == Append(p, r)
<1>1. Len(q) = Len(p) + 1 /\ Len(p) \in Nat /\ \A i \in 1..Len(p) : q[i] = p[i]
  OBVIOUS
<1> HIDE DEF q
<1>2. \A k \in 0..Len(p) : OpenAfter(q)[k] = OpenAfter(p)[k]
  BY <1>1, OpensAgree
<1>3. Len(q) \in 1..Len(q) /\ Len(q) \in Nat /\ Len(q) - 1 = Len(p) /\ Len(p) \in 0..Len(p)
  BY <1>1
<1>4. OpenAfter(q)[Len(q)] = NextOpen(q, OpenAfter(q)[Len(q) - 1], Len(q))
  BY <1>3, OpenSteps
<1>5. CurrentOpen(q) = NextOpen(q, CurrentOpen(p), Len(p) + 1)
  BY <1>1, <1>2, <1>3, <1>4 DEF CurrentOpen
<1> QED
  BY <1>2, <1>5 DEF q

\* The records kept, likewise.
KeptRun(f, records, settled, n) ==
    f = [i \in 0..n |-> IF i = 0 THEN <<>>
                        ELSE IF i \in settled THEN f[i - 1] ELSE Append(f[i - 1], records[i])]

LEMMA KeptExist ==
    ASSUME NEW records, NEW settled, NEW n \in Nat
    PROVE  \E f : KeptRun(f, records, settled, n)
<1> DEFINE Step(f, i) == IF i = 0 THEN <<>>
                         ELSE IF i \in settled THEN f[i - 1] ELSE Append(f[i - 1], records[i])
           Run(f, m) == f = [i \in 0..m |-> Step(f, i)]
           T == {m \in Nat : ~ \E f : Run(f, m)}
<1> SUFFICES ASSUME T # {} PROVE FALSE
  BY DEF KeptRun
<1>1. PICK m \in T : \A y \in T : m <= y
  <2>1. T \subseteq Nat /\ T # {}
    OBVIOUS
  <2> HIDE DEF T
  <2>2. QED
    BY <2>1, LeastElement
<1>2. m # 0
  <2>1. Run([i \in 0..0 |-> <<>>], 0)
    OBVIOUS
  <2>2. QED
    BY <2>1
<1>3. m - 1 \in Nat /\ m - 1 \notin T
  <2> HIDE DEF Run, Step
  <2> QED
    BY <1>1, <1>2
<1>4. PICK f : Run(f, m - 1)
  BY <1>3
<1> DEFINE g == [i \in 0..m |-> Step(f, i)]
<1>5. \A i \in 0..(m - 1) : f[i] = Step(f, i)
  <2> HIDE DEF Step
  <2> QED
    BY <1>4
<1>6. \A i \in 0..(m - 1) : g[i] = f[i]
  <2> HIDE DEF Step
  <2> QED
    BY <1>3, <1>5
<1>7. \A i \in 0..m : i # 0 => g[i - 1] = f[i - 1]
  <2>1. \A i \in 0..m : i # 0 => i - 1 \in 0..(m - 1)
    BY <1>3
  <2> HIDE DEF g, T
  <2>2. QED
    BY <1>6, <2>1
<1>8. Run(g, m)
  <2>1. \A i \in 0..m : g[i] = Step(g, i)
    BY <1>7
  <2> HIDE DEF g, Step
  <2>2. g = [i \in 0..m |-> g[i]]
    BY DEF g
  <2>3. QED
    BY <2>1, <2>2
<1>9. QED
  <2> HIDE DEF g
  <2> QED
    BY <1>8

LEMMA KeptSteps ==
    ASSUME NEW records, NEW settled, Len(records) \in Nat
    PROVE  /\ KeptAfter(records, settled)[0] = <<>>
           /\ \A i \in 1..Len(records) :
                KeptAfter(records, settled)[i] =
                    IF i \in settled THEN KeptAfter(records, settled)[i - 1]
                    ELSE Append(KeptAfter(records, settled)[i - 1], records[i])
<1> DEFINE n == Len(records)
           f == KeptAfter(records, settled)
<1>1. \E g : KeptRun(g, records, settled, n)
  BY KeptExist
<1>2. f = CHOOSE g : KeptRun(g, records, settled, n)
  BY DEF KeptAfter, KeptRun
<1>3. KeptRun(f, records, settled, n)
  <2> HIDE DEF f, n
  <2> QED
    BY <1>1, <1>2
<1> HIDE DEF f
<1>4. 0 \in 0..Len(records) /\ \A i \in 1..Len(records) : i \in 0..Len(records) /\ i # 0
  OBVIOUS
<1>5. f[0] = <<>>
      /\ \A i \in 1..Len(records) : f[i] = IF i \in settled THEN f[i - 1]
                                           ELSE Append(f[i - 1], records[i])
  BY <1>3, <1>4 DEF KeptRun
<1> QED
  BY <1>5 DEF f

\* Each record that is kept has its place, in the order of the records, and nothing else has.
Places(K, records, settled, n) ==
    /\ \A m \in 1..n : Len(K[m]) <= Len(K[n])
    /\ \A m \in 1..n : m \notin settled =>
          Len(K[m]) \in 1..Len(K[n]) /\ K[n][Len(K[m])] = records[m] /\ Len(K[m - 1]) < Len(K[m])
    /\ \A k \in 1..Len(K[n]) : \E m \in 1..n : m \notin settled /\ k = Len(K[m])

LEMMA KeptPlaces ==
    ASSUME NEW R, NEW records \in Seq(R), NEW settled, NEW n \in 0..Len(records)
    PROVE  /\ KeptAfter(records, settled)[n] \in Seq(R)
           /\ Places(KeptAfter(records, settled), records, settled, n)
<1> DEFINE K == KeptAfter(records, settled)
           Good(k) == K[k] \in Seq(R) /\ Places(K, records, settled, k)
           T == {k \in 0..Len(records) : ~Good(k)}
<1> SUFFICES ASSUME T # {} PROVE FALSE
  OBVIOUS
<1>1. PICK x \in T : \A y \in T : x <= y
  <2>1. T \subseteq Nat /\ T # {}
    OBVIOUS
  <2> HIDE DEF T
  <2>2. QED
    BY <2>1, LeastElement
<1>2. K[0] = <<>> /\ \A i \in 1..Len(records) :
                        K[i] = IF i \in settled THEN K[i - 1] ELSE Append(K[i - 1], records[i])
  BY KeptSteps
<1> HIDE DEF K
<1>3. Good(0)
  BY <1>2 DEF Places
<1>4. x \in 1..Len(records) /\ x - 1 \in 0..Len(records) /\ x - 1 \notin T
  BY <1>1, <1>3
<1>5. Good(x - 1)
  BY <1>4
<1> HIDE DEF T
<1>6. K[x] = IF x \in settled THEN K[x - 1] ELSE Append(K[x - 1], records[x])
  BY <1>2, <1>4
<1>7. \A m \in 1..x : m \in 1..(x - 1) \/ m = x
  BY <1>4
<1>8. \A m \in 1..(x - 1) : m \in 1..x
  BY <1>4
<1>9. CASE x \in settled
  <2>1. K[x] = K[x - 1]
    BY <1>6, <1>9
  <2>2. Good(x)
    BY <1>5, <1>7, <1>8, <1>9, <2>1 DEF Places
  <2>3. QED
    BY <1>1, <2>2 DEF T
<1>10. CASE x \notin settled
  <2> DEFINE s == K[x - 1]
             t == K[x]
  <2>1. s \in Seq(R) /\ records[x] \in R /\ t = Append(s, records[x])
    BY <1>4, <1>5, <1>6, <1>10
  <2>2. t \in Seq(R) /\ Len(t) = Len(s) + 1 /\ t[Len(t)] = records[x] /\ Len(s) \in Nat
        /\ \A k \in 1..Len(s) : t[k] = s[k]
    BY <2>1
  <2>3. \A m \in 1..(x - 1) : Len(K[m]) <= Len(s)
    BY <1>5 DEF Places
  <2>4. \A m \in 1..(x - 1) : m \notin settled =>
          Len(K[m]) \in 1..Len(s) /\ s[Len(K[m])] = records[m] /\ Len(K[m - 1]) < Len(K[m])
    BY <1>5 DEF Places
  <2>5. \A k \in 1..Len(s) : \E m \in 1..(x - 1) : m \notin settled /\ k = Len(K[m])
    BY <1>5 DEF Places
  <2>6. \A m \in 1..x : Len(K[m]) <= Len(t)
    <3>1. \A m \in 1..(x - 1) : Len(K[m]) <= Len(t)
      <4> TAKE m \in 1..(x - 1)
      <4>1. Len(K[m]) <= Len(s)
        BY <2>3
      <4>2. m \in 0..Len(records) /\ m < x
        BY <1>4
      <4>3. m \notin T
        BY <1>1, <4>2 DEF T
      <4>4. K[m] \in Seq(R)
        BY <4>2, <4>3 DEF T
      <4>5. Len(K[m]) \in Nat
        BY <4>4
      <4>6. QED
        BY <2>2, <4>1, <4>5
    <3>2. QED
      BY <1>7, <2>2, <3>1
  <2>7. \A m \in 1..x : m \notin settled =>
          Len(K[m]) \in 1..Len(t) /\ t[Len(K[m])] = records[m] /\ Len(K[m - 1]) < Len(K[m])
    <3>1. \A m \in 1..(x - 1) : m \notin settled =>
            Len(K[m]) \in 1..Len(t) /\ t[Len(K[m])] = records[m] /\ Len(K[m - 1]) < Len(K[m])
      <4> HIDE DEF s, t
      <4> QED
        BY <2>2, <2>4
    <3>2. Len(K[x]) \in 1..Len(t) /\ t[Len(K[x])] = records[x] /\ Len(K[x - 1]) < Len(K[x])
      BY <2>2
    <3>3. QED
      BY <1>7, <3>1, <3>2
  <2>8. \A k \in 1..Len(t) : \E m \in 1..x : m \notin settled /\ k = Len(K[m])
    <3> TAKE k \in 1..Len(t)
    <3>1. k \in 1..Len(s) \/ k = Len(t)
      BY <2>2
    <3>2. QED
      BY <1>4, <1>8, <1>10, <2>5, <3>1
  <2>9. Good(x)
    BY <2>2, <2>6, <2>7, <2>8 DEF Places
  <2>10. QED
    BY <1>1, <2>9 DEF T
<1> QED
  BY <1>9, <1>10

\* What runtime_recovery_records returns: the records that are not settled, in their order.
LEMMA UnfinishedIs ==
    ASSUME NEW R, NEW records \in Seq(R)
    PROVE  /\ Unfinished(records) \in Seq(R)
           /\ \E at \in [DOMAIN Unfinished(records) -> DOMAIN records] :
                /\ \A k \in DOMAIN Unfinished(records) :
                      at[k] \notin Settled(records) /\ Unfinished(records)[k] = records[at[k]]
                /\ \A k, l \in DOMAIN Unfinished(records) : k < l => at[k] < at[l]
                /\ \A m \in DOMAIN records : m \notin Settled(records) =>
                      \E k \in DOMAIN Unfinished(records) : at[k] = m
<1> DEFINE S == Settled(records)
           K == KeptAfter(records, S)
           n == Len(records)
           U == K[n]
<1>1. Unfinished(records) = U
  BY DEF Unfinished
<1>2. n \in Nat /\ n \in 0..n /\ DOMAIN records = 1..n
  OBVIOUS
<1>3. \A m \in 0..n : K[m] \in Seq(R) /\ Places(K, records, S, m)
  BY KeptPlaces
<1> HIDE DEF K, S
<1>4. U \in Seq(R) /\ DOMAIN U = 1..Len(U) /\ Places(K, records, S, n)
  BY <1>2, <1>3
<1> DEFINE at == [k \in 1..Len(U) |-> CHOOSE m \in 1..n : m \notin S /\ k = Len(K[m])]
<1>5. \A k \in 1..Len(U) : at[k] \in 1..n /\ at[k] \notin S /\ k = Len(K[at[k]])
  BY <1>4 DEF Places
<1>6. at \in [DOMAIN U -> DOMAIN records]
  BY <1>2, <1>4, <1>5
<1> HIDE DEF at
<1>7. \A k \in 1..Len(U) : U[k] = records[at[k]]
  BY <1>4, <1>5 DEF Places
<1>8. \A m \in 0..n : Len(K[m]) \in Nat
  BY <1>3
<1>9. \A k, l \in 1..Len(U) : k < l => at[k] < at[l]
  <2> SUFFICES ASSUME NEW k \in 1..Len(U), NEW l \in 1..Len(U), k < l, ~(at[k] < at[l])
               PROVE  FALSE
    OBVIOUS
  <2>1. at[l] \in 1..at[k] /\ at[k] \in 0..n /\ at[l] \in 0..n
    BY <1>2, <1>5
  <2>2. Len(K[at[l]]) <= Len(K[at[k]])
    BY <1>3, <2>1 DEF Places
  <2>3. QED
    BY <1>5, <2>2
<1>10. \A m \in 1..n : m \notin S => \E k \in 1..Len(U) : at[k] = m
  <2> SUFFICES ASSUME NEW m \in 1..n, m \notin S PROVE \E k \in 1..Len(U) : at[k] = m
    OBVIOUS
  <2>1. Len(K[m]) \in 1..Len(U)
    BY <1>4 DEF Places
  <2> DEFINE k == Len(K[m])
  <2>2. at[k] \in 1..n /\ at[k] \notin S /\ Len(K[at[k]]) = Len(K[m])
    BY <1>5, <2>1
  <2>3. CASE at[k] < m
    <3>1. at[k] \in 1..(m - 1) /\ m - 1 \in 0..n /\ m \in 0..n
      BY <1>2, <2>2, <2>3
    <3>2. Len(K[at[k]]) <= Len(K[m - 1])
      BY <1>3, <3>1 DEF Places
    <3>3. Len(K[m - 1]) < Len(K[m])
      BY <1>4 DEF Places
    <3> HIDE DEF k
    <3>4. QED
      BY <1>2, <1>8, <2>2, <3>1, <3>2, <3>3
  <2>4. CASE m < at[k]
    <3>1. m \in 1..(at[k] - 1) /\ at[k] - 1 \in 0..n
      BY <1>2, <2>2, <2>4
    <3>2. Len(K[m]) <= Len(K[at[k] - 1])
      BY <1>3, <3>1 DEF Places
    <3>3. Len(K[at[k] - 1]) < Len(K[at[k]])
      BY <1>4, <2>2 DEF Places
    <3>4. m \in 0..n
      BY <1>2
    <3> HIDE DEF k
    <3>5. QED
      BY <1>8, <2>2, <3>1, <3>2, <3>3, <3>4
  <2>5. QED
    BY <2>1, <2>2, <2>3, <2>4
<1>11. QED
  <2> DEFINE Embeds(a) ==
               /\ \A k \in DOMAIN U : a[k] \notin S /\ U[k] = records[a[k]]
               /\ \A k, l \in DOMAIN U : k < l => a[k] < a[l]
               /\ \A m \in DOMAIN records : m \notin S => \E k \in DOMAIN U : a[k] = m
  <2>1. Embeds(at)
    BY <1>2, <1>4, <1>5, <1>7, <1>9, <1>10
  <2>2. \E a \in [DOMAIN U -> DOMAIN records] : Embeds(a)
    BY <1>6, <2>1
  <2>3. QED
    BY <1>1, <1>4, <2>2 DEF S

-----------------------------------------------------------------------------
(* The types, and the control they rest on *)

Hedge == {"none", "waiting", "queued", "submitting", "submitted", "was",
          "retrying", "filled", "error", "check", "required", "skipped"}
Source == {"commit", "event", "portfolio", "unconfirmed", "undo"}
Pause == {"-", "recon", "lacks", "other"}

\* A record of the order that trade n is hedged by, or of the undoing of that hedge.
OrderOf(r, n) == r.n = n /\ r.kind # "undo"

\* Of an intent whose Commit was accepted, by this process or by an earlier one.
Accepted(t) == t.state \in {"committed", "restored"}

\* In memory and on disk: a provisional intent has its record, and no record has more ids than
\* there were attempts.
Provided(s) ==
    s.intent # <<>> /\ (s.intent.provisional \/ Accepted(s.intent))
        => \E i \in DOMAIN s.records : OrderOf(s.records[i], s.intent.n) /\ s.records[i].src = "commit"
Numbered(s, last) ==
    /\ \A i \in DOMAIN s.records : s.records[i].n \in 1..last
    /\ s.intent # <<>> => s.intent.n \in 1..last
Attempted(s, limit) == \A i \in DOMAIN s.records : Len(s.records[i].ids) <= limit
Fits(s, last, limit) == s \in State /\ Provided(s) /\ Numbered(s, last) /\ Attempted(s, limit)

Limit == MaxTries + crashes
OnDisk == IF start = "down" THEN Limit - 1 ELSE Limit
StatesFit ==
    /\ Fits(mem, Len(trades), Limit) /\ Fits(file, Len(trades), OnDisk)
    /\ \A w \in writes : Fits(w.state, Len(trades), OnDisk)

\* Who is about to send a new id may do so.
Sends == {"none", "was", "check", "waiting", "queued", "retrying"}
MaySend ==
    /\ \A i \in DOMAIN mem.records :
          mem.records[i].hedge \in Sends => Len(mem.records[i].ids) < Limit
    /\ retry # 0 => mem.records[retry].hedge = "retrying"
    /\ start = "inspect" =>
          /\ retry = 0
          /\ \A i \in DOMAIN mem.records : /\ mem.records[i].hedge \notin {"queued", "submitting"}
                                          /\ Len(mem.records[i].ids) < Limit

WorldTyped ==
    /\ trades \in Seq(Trade) /\ Len(trades) <= MaxTrades /\ events \subseteq DOMAIN trades
    /\ lighter \in [Ids -> {"none", "sent", "filled", "dead"}] /\ refilled \in BOOLEAN
    /\ ready \in BOOLEAN /\ order \in {"idle", "marked", "prepared", "sent"}
    /\ start \in {"down", "inspect", "prepare", "probe", "finish", "reconcile", "up"}
    /\ crashes \in 0..MaxCrashes
PlacesTyped ==
    /\ follow \in 0 .. Len(mem.records) /\ retry \in 0 .. Len(mem.records)
    /\ waiting \subseteq Savers

\* One write at a time, for someone who waits for it.
OneWrite == (\A w, x \in writes : w = x) /\ \A w \in writes : w.by \in waiting

\* A process that is down holds nothing.
DownHolds ==
    start = "down" =>
        /\ mem = Empty /\ ~ready /\ order = "idle" /\ follow = 0 /\ retry = 0
        /\ events = {} /\ waiting = {} /\ writes = {}
\* A start has no order of its own, and what was sent before has settled.
StartHolds ==
    start \notin {"up", "down"} =>
        /\ order = "idle" /\ follow = 0 /\ events = {} /\ ~ready
        /\ \A n \in DOMAIN trades : trades[n].state \in {"executed", "void"}

\* The coroutine's order is the last one, its intent is pending, and a fill that has been
\* bound to it waits with its record.
OrderHolds ==
    order # "idle" =>
        /\ start = "up" /\ ready /\ Len(trades) > 0 /\ trades[Len(trades)].auto
        /\ mem.intent # <<>> /\ mem.intent.n = Len(trades) /\ ~mem.intent.provisional
        /\ mem.intent.state = (IF order = "marked" THEN "quoting"
                               ELSE IF order = "prepared" THEN "prepared" ELSE "committing")
        /\ trades[Len(trades)].state \in (IF order = "sent" THEN {"sent", "executed", "void"}
                                          ELSE {"quoted"})
        /\ IF mem.intent.confirmed
           THEN /\ order = "sent" /\ trades[Len(trades)].state = "executed"
                /\ \E i \in DOMAIN mem.records :
                      /\ OrderOf(mem.records[i], Len(trades))
                      /\ mem.records[i].hedge = "waiting" /\ mem.records[i].ids = <<>>
                      /\ \A j \in DOMAIN mem.records : mem.records[j].n = Len(trades) => j = i
           ELSE \A i \in DOMAIN mem.records : mem.records[i].n # Len(trades)
IdleHolds == order = "idle" /\ mem.intent # <<>> => mem.intent.state # "committing"

Owns(n) == mem.intent # <<>> /\ mem.intent.n = n
\* Only the last trade may still be executed, and while it may its intent is pending.
TradeHolds ==
    \A n \in DOMAIN trades :
        /\ n # Len(trades) => trades[n].state \in {"executed", "void"}
        /\ trades[n].state = "quoted" => order \in {"marked", "prepared"}
        /\ trades[n].state \in {"sent", "accepted"} =>
              trades[n].auto /\ (start = "down" \/ (Owns(n) /\ ~mem.intent.confirmed))
        /\ trades[n].state = "accepted" => start = "down" \/ mem.intent.provisional
\* A fill that is not entered is one of the last trade's, and has no record of its own.
EventHolds ==
    \A n \in events :
        /\ n = Len(trades) /\ trades[n].state = "executed" /\ start = "up"
        /\ trades[n].auto => Owns(n) /\ ~mem.intent.confirmed
        /\ ~trades[n].auto => /\ mem.intent = <<>> /\ mem.paused # "-"
                              /\ \A i \in DOMAIN mem.records : mem.records[i].n # n

Typed == WorldTyped /\ PlacesTyped /\ OneWrite /\ StatesFit /\ MaySend
Control == DownHolds /\ StartHolds /\ OrderHolds /\ IdleHolds /\ TradeHolds /\ EventHolds
TypeInv == Typed /\ Control
-----------------------------------------------------------------------------
(* Records and states, edited *)

LEMMA ConstantsAre ==
    MaxTrades \in Nat /\ MaxCrashes \in Nat /\ MaxTries \in Nat /\ MaxTries >= 1
BY ConstantsAssumption

LEMMA LimitIs ==
    ASSUME WorldTyped
    PROVE  Limit \in Nat /\ Limit >= 1 /\ Limit <= MaxTries + MaxCrashes
           /\ (start = "down" => OnDisk = Limit - 1) /\ (start # "down" => OnDisk = Limit)
BY ConstantsAssumption DEF WorldTyped, Limit, OnDisk

LEMMA RecordFields ==
    ASSUME NEW r \in Record
    PROVE  /\ r.n \in Numbers /\ r.kind \in {"open", "close", "undo"} /\ r.auto \in BOOLEAN
           /\ r.src \in Source /\ r.hedge \in Hedge /\ r.ids \in Seq(Ids)
           /\ r.reserved \in BOOLEAN /\ r.final \in SUBSET Ids /\ r.filled \in BOOLEAN
BY DEF Record, Source, Hedge

LEMMA RecordIs ==
    ASSUME NEW n \in Numbers, NEW kind \in {"open", "close", "undo"}, NEW auto \in BOOLEAN,
           NEW src \in Source, NEW hedge \in Hedge, NEW ids \in Seq(Ids),
           NEW reserved \in BOOLEAN, NEW final \in SUBSET Ids, NEW filled \in BOOLEAN
    PROVE  [n |-> n, kind |-> kind, auto |-> auto, src |-> src, hedge |-> hedge, ids |-> ids,
            reserved |-> reserved, final |-> final, filled |-> filled] \in Record
BY DEF Record, Source, Hedge

LEMMA SetHedge ==
    ASSUME NEW r \in Record, NEW h \in Hedge
    PROVE  /\ [r EXCEPT !.hedge = h] \in Record
           /\ LET q == [r EXCEPT !.hedge = h]
              IN  /\ q.n = r.n /\ q.kind = r.kind /\ q.auto = r.auto /\ q.src = r.src /\ q.hedge = h
                  /\ q.ids = r.ids /\ q.reserved = r.reserved /\ q.final = r.final
                  /\ q.filled = r.filled
BY DEF Record, Hedge

LEMMA SetSource ==
    ASSUME NEW r \in Record, NEW v \in Source
    PROVE  /\ [r EXCEPT !.src = v] \in Record
           /\ LET q == [r EXCEPT !.src = v]
              IN  /\ q.n = r.n /\ q.kind = r.kind /\ q.auto = r.auto /\ q.src = v
                  /\ q.hedge = r.hedge /\ q.ids = r.ids /\ q.reserved = r.reserved
                  /\ q.final = r.final /\ q.filled = r.filled
BY DEF Record, Source

LEMMA StateFields ==
    ASSUME NEW s \in State
    PROVE  /\ s.records \in Seq(Record) /\ s.intent \in Intent \cup {<<>>} /\ s.paused \in Pause
           /\ Len(s.records) \in Nat /\ DOMAIN s.records = 1..Len(s.records)
           /\ \A i \in DOMAIN s.records : s.records[i] \in Record
BY DEF State, Pause

LEMMA IntentFields ==
    ASSUME NEW t \in Intent
    PROVE  /\ t.n \in Numbers /\ t.provisional \in BOOLEAN /\ t.confirmed \in BOOLEAN
           /\ t.state \in {"quoting", "prepared", "committing", "ambiguous",
                          "committed", "restored"}
           /\ t # <<>>
<1>1. DOMAIN t = {"n", "state", "provisional", "confirmed"}
  BY DEF Intent
<1>2. t # <<>>
  <2>1. DOMAIN <<>> = {}
    OBVIOUS
  <2>2. QED
    BY <1>1, <2>1
<1>3. QED
  BY <1>2 DEF Intent

LEMMA NewState ==
    ASSUME NEW records \in Seq(Record), NEW intent \in Intent \cup {<<>>}, NEW paused \in Pause
    PROVE  [records |-> records, intent |-> intent, paused |-> paused] \in State
BY DEF State, Pause

LEMMA Replaced ==
    ASSUME NEW rs \in Seq(Record), NEW i \in DOMAIN rs, NEW r \in Record
    PROVE  /\ [rs EXCEPT ![i] = r] \in Seq(Record) /\ Len([rs EXCEPT ![i] = r]) = Len(rs)
           /\ DOMAIN [rs EXCEPT ![i] = r] = DOMAIN rs
           /\ [rs EXCEPT ![i] = r][i] = r
           /\ \A j \in DOMAIN rs : j # i => [rs EXCEPT ![i] = r][j] = rs[j]
OBVIOUS

LEMMA Added ==
    ASSUME NEW rs \in Seq(Record), NEW r \in Record
    PROVE  /\ Append(rs, r) \in Seq(Record) /\ Len(Append(rs, r)) = Len(rs) + 1
           /\ DOMAIN Append(rs, r) = DOMAIN rs \cup {Len(rs) + 1}
           /\ Append(rs, r)[Len(rs) + 1] = r
           /\ \A i \in DOMAIN rs : Append(rs, r)[i] = rs[i]
           /\ rs \o <<r>> = Append(rs, r)
OBVIOUS

LEMMA RecordOfIs ==
    ASSUME NEW rs \in Seq(Record), NEW n
    PROVE  /\ RecordOf(rs, n) \in 0..Len(rs)
           /\ RecordOf(rs, n) # 0 =>
                 /\ RecordOf(rs, n) \in DOMAIN rs /\ OrderOf(rs[RecordOf(rs, n)], n)
                 /\ \A i \in DOMAIN rs : OrderOf(rs[i], n) => RecordOf(rs, n) <= i
           /\ RecordOf(rs, n) = 0 => \A i \in DOMAIN rs : ~OrderOf(rs[i], n)
<1> DEFINE Mine == {i \in DOMAIN rs : rs[i].n = n /\ rs[i].kind # "undo"}
<1>1. CASE Mine = {}
  BY <1>1 DEF RecordOf, OrderOf
<1>2. CASE Mine # {}
  <2>1. \E i \in Mine : \A j \in Mine : i <= j
    <3>1. Mine \subseteq Nat
      OBVIOUS
    <3> HIDE DEF Mine
    <3>2. QED
      BY <1>2, <3>1, LeastElement
  <2>2. RecordOf(rs, n) = CHOOSE i \in Mine : \A j \in Mine : i <= j
    BY <1>2 DEF RecordOf
  <2>3. RecordOf(rs, n) \in Mine /\ \A j \in Mine : RecordOf(rs, n) <= j
    <3> HIDE DEF Mine
    <3> QED
      BY <2>1, <2>2
  <2>4. QED
    BY <2>3 DEF OrderOf
<1> QED
  BY <1>1, <1>2

-----------------------------------------------------------------------------
(* What fits still fits *)

\* Records that are the same but for the state of their hedge, and an intent that is cleared or
\* went on without becoming provisional.
SameRecords(p, q) ==
    Len(q) = Len(p) /\ \A i \in DOMAIN p : q[i].n = p[i].n /\ q[i].kind = p[i].kind
Intended(s, m) ==
    m.intent = <<>> \/
        /\ s.intent # <<>> /\ m.intent.n = s.intent.n
        /\ m.intent.provisional \/ Accepted(m.intent)
              => s.intent.provisional \/ Accepted(s.intent)
        /\ \A i \in DOMAIN s.records : m.records[i].src = s.records[i].src

LEMMA FitsEdited ==
    ASSUME NEW last, NEW limit, NEW s, Fits(s, last, limit), NEW m \in State,
           SameRecords(s.records, m.records), Attempted(m, limit), Intended(s, m)
    PROVE  Fits(m, last, limit)
<1>1. s \in State /\ Provided(s) /\ Numbered(s, last)
  BY DEF Fits
<1>2. DOMAIN m.records = DOMAIN s.records
  BY <1>1, StateFields DEF SameRecords
<1>3. Numbered(m, last)
  BY <1>1, <1>2 DEF Numbered, SameRecords, Intended
<1>4. Provided(m)
  BY <1>1, <1>2 DEF Provided, SameRecords, Intended, OrderOf
<1> QED
  BY <1>3, <1>4 DEF Fits

LEMMA FitsAdded ==
    ASSUME NEW last, NEW limit, NEW s, Fits(s, last, limit), NEW m \in State,
           NEW r \in Record, m.records = Append(s.records, r),
           r.n \in 1..last, Len(r.ids) <= limit, Intended(s, m)
    PROVE  Fits(m, last, limit)
<1>1. s \in State /\ Provided(s) /\ Numbered(s, last) /\ Attempted(s, limit)
  BY DEF Fits
<1>2. s.records \in Seq(Record)
  BY <1>1, StateFields
<1>3. /\ DOMAIN m.records = DOMAIN s.records \cup {Len(s.records) + 1}
      /\ m.records[Len(s.records) + 1] = r
      /\ \A i \in DOMAIN s.records : m.records[i] = s.records[i]
  BY <1>2, Added
<1>4. Numbered(m, last)
  BY <1>1, <1>3 DEF Numbered, Intended
<1>5. Provided(m)
  BY <1>1, <1>3 DEF Provided, Intended
<1>6. Attempted(m, limit)
  BY <1>1, <1>3 DEF Attempted
<1> QED
  BY <1>4, <1>5, <1>6 DEF Fits

LEMMA FitsGrows ==
    ASSUME NEW last \in Nat, NEW limit \in Int, NEW last2 \in Nat, NEW limit2 \in Int, NEW s,
           Fits(s, last, limit), last <= last2, limit <= limit2
    PROVE  Fits(s, last2, limit2)
<1>1. s \in State /\ Provided(s) /\ Numbered(s, last) /\ Attempted(s, limit)
  BY DEF Fits
<1>2. 1..last \subseteq 1..last2
  OBVIOUS
<1>3. Numbered(s, last2)
  BY <1>1, <1>2 DEF Numbered
<1>4. \A i \in DOMAIN s.records : Len(s.records[i].ids) \in Nat
  BY <1>1, StateFields, RecordFields
<1>5. Attempted(s, limit2)
  BY <1>1, <1>4 DEF Attempted
<1> QED
  BY <1>1, <1>3, <1>5 DEF Fits

\* A record that is settled is complete, hence not a provisional one.
LEMMA SettledIsComplete ==
    ASSUME NEW rs \in Seq(Record), NEW i, i \in Settled(rs)
    PROVE  i \in DOMAIN rs /\ Complete(rs[i])
<1>1. PICK p \in Rounds(rs) : /\ Complete(rs[p[1]]) /\ Complete(rs[p[2]])
                              /\ i \in {p[1], p[2]}
  BY DEF Settled
<1>2. PICK j \in DOMAIN rs : /\ p = <<OpenAfter(rs)[j - 1], j>>
                             /\ Completes(rs, OpenAfter(rs)[j - 1], j)
  BY <1>1 DEF Rounds
<1>3. j - 1 \in 0..Len(rs) /\ Len(rs) \in Nat
  BY <1>2
<1>4. OpenAfter(rs)[j - 1] \in 0..(j - 1) /\ OpenAfter(rs)[j - 1] # 0
  BY <1>2, <1>3, OpenIsRecord DEF Completes
<1>5. p[1] \in DOMAIN rs /\ p[2] \in DOMAIN rs
  BY <1>2, <1>3, <1>4
<1> QED
  BY <1>1, <1>5

LEMMA FitsUnfinished ==
    ASSUME NEW last, NEW limit, NEW s, Fits(s, last, limit), NEW m \in State,
           m.records = Unfinished(s.records), m.intent = s.intent
    PROVE  Fits(m, last, limit)
<1>1. s \in State /\ Provided(s) /\ Numbered(s, last) /\ Attempted(s, limit)
  BY DEF Fits
<1>2. s.records \in Seq(Record)
  BY <1>1, StateFields
<1>3. PICK at \in [DOMAIN m.records -> DOMAIN s.records] :
        /\ \A k \in DOMAIN m.records :
              at[k] \notin Settled(s.records) /\ m.records[k] = s.records[at[k]]
        /\ \A i \in DOMAIN s.records : i \notin Settled(s.records) =>
              \E k \in DOMAIN m.records : at[k] = i
  BY <1>2, UnfinishedIs
<1>4. Numbered(m, last) /\ Attempted(m, limit)
  BY <1>1, <1>3 DEF Numbered, Attempted
<1>5. \A i \in DOMAIN s.records : s.records[i].src = "commit" =>
        \E k \in DOMAIN m.records : m.records[k] = s.records[i]
  BY <1>2, <1>3, SettledIsComplete DEF Complete
<1>6. Provided(m)
  BY <1>1, <1>5 DEF Provided
<1> QED
  BY <1>4, <1>6 DEF Fits

\* What is written is what is in memory, less what is settled.
LEMMA SnapshotFits ==
    ASSUME NEW last, NEW limit, Fits(mem, last, limit)
    PROVE  /\ Snapshot \in State /\ Fits(Snapshot, last, limit)
           /\ Snapshot.records = Unfinished(mem.records)
           /\ Snapshot.intent = mem.intent /\ Snapshot.paused = mem.paused
<1>1. mem \in State
  BY DEF Fits
<1>2. Unfinished(mem.records) \in Seq(Record)
  BY <1>1, StateFields, UnfinishedIs
<1>3. /\ Snapshot \in State /\ Snapshot.records = Unfinished(mem.records)
      /\ Snapshot.intent = mem.intent /\ Snapshot.paused = mem.paused
  BY <1>1, <1>2 DEF Snapshot, State
<1> QED
  BY <1>3, FitsUnfinished

-----------------------------------------------------------------------------
(* Every step keeps the types and the control *)

LEMMA TypeInvParts ==
    ASSUME TypeInv
    PROVE  /\ WorldTyped /\ PlacesTyped /\ OneWrite /\ StatesFit /\ MaySend
           /\ DownHolds /\ StartHolds /\ OrderHolds /\ IdleHolds /\ TradeHolds /\ EventHolds
           /\ mem \in State /\ Fits(mem, Len(trades), Limit) /\ Len(trades) \in Nat
           /\ Limit \in Nat /\ Limit >= 1 /\ MaxTrades \in Nat /\ trades \in Seq(Trade)
BY LimitIs, ConstantsAre DEF TypeInv, Typed, Control, StatesFit, Fits, WorldTyped

LEMMA TradeFields ==
    ASSUME NEW ts \in Seq(Trade), NEW n \in DOMAIN ts
    PROVE  /\ ts[n].kind \in {"open", "close"} /\ ts[n].auto \in BOOLEAN
           /\ ts[n].state \in {"quoted", "sent", "accepted", "executed", "void"}
<1>1. ts[n] \in Trade
  OBVIOUS
<1> QED
  BY <1>1 DEF Trade

\* Nothing is under way at Variational when no intent is pending.
LEMMA NothingSent ==
    ASSUME TypeInv, mem.intent = <<>>, start = "up"
    PROVE  /\ order = "idle" /\ \A n \in DOMAIN trades : trades[n].state \in {"executed", "void"}
<1> USE TypeInvParts
<1>1. order = "idle"
  BY DEF OrderHolds
<1>2. ASSUME NEW n \in DOMAIN trades PROVE trades[n].state \in {"executed", "void"}
  <2>1. trades[n].state \in {"quoted", "sent", "accepted", "executed", "void"}
    BY TradeFields
  <2>2. trades[n].state \notin {"quoted", "sent", "accepted"}
    BY <1>1 DEF TradeHolds, Owns
  <2>3. QED
    BY <2>1, <2>2
<1> QED
  BY <1>1, <1>2

LEMMA InitTyped == Init => TypeInv
<1> SUFFICES ASSUME Init PROVE TypeInv
  OBVIOUS
<1>1. trades = <<>> /\ mem = Empty /\ file = Empty /\ writes = {} /\ waiting = {} /\ events = {}
      /\ order = "idle" /\ start = "up" /\ follow = 0 /\ retry = 0 /\ crashes = 0
  BY DEF Init
<1>2. Empty \in State /\ Empty.records = <<>> /\ Empty.intent = <<>>
  BY DEF Empty, State
<1>3. WorldTyped
  <2>1. trades \in Seq(Trade) /\ Len(trades) <= MaxTrades /\ events \subseteq DOMAIN trades
    BY <1>1, ConstantsAre
  <2>2. crashes \in 0..MaxCrashes
    BY <1>1, ConstantsAre
  <2>3. QED
    BY <2>1, <2>2 DEF Init, WorldTyped
<1>4. PlacesTyped /\ OneWrite
  BY <1>1, <1>2 DEF PlacesTyped, OneWrite, Empty
<1>5. StatesFit /\ MaySend
  BY <1>1, <1>2 DEF StatesFit, MaySend, Fits, Provided, Numbered, Attempted
<1>6. Control
  BY <1>1, <1>2 DEF Control, DownHolds, StartHolds, OrderHolds, IdleHolds, TradeHolds, EventHolds
<1> QED
  BY <1>3, <1>4, <1>5, <1>6 DEF TypeInv, Typed

\* A step that writes nothing and takes no snapshot.
LEMMA DiskFits ==
    ASSUME WorldTyped, WorldTyped', StatesFit, file' = file, writes' \subseteq writes,
           Len(trades) <= Len(trades'), OnDisk <= OnDisk', Fits(mem, Len(trades), Limit)'
    PROVE  StatesFit'
<1>1. OnDisk \in Int /\ OnDisk' \in Int
  BY ConstantsAssumption DEF WorldTyped, OnDisk, Limit
<1>2. Len(trades) \in Nat /\ Len(trades') \in Nat
  BY DEF WorldTyped
<1>3. Fits(file, Len(trades), OnDisk) /\ \A w \in writes : Fits(w.state, Len(trades), OnDisk)
  BY DEF StatesFit
<1>4. Fits(file, Len(trades'), OnDisk')
  BY <1>1, <1>2, <1>3, FitsGrows
<1>5. \A w \in writes : Fits(w.state, Len(trades'), OnDisk')
  BY <1>1, <1>2, <1>3, FitsGrows
<1> QED
  BY <1>4, <1>5 DEF StatesFit

LEMMA MarkIntentTyped == TypeInv /\ MarkIntent => TypeInv'
<1> SUFFICES ASSUME TypeInv, MarkIntent PROVE TypeInv'
  OBVIOUS
<1> USE TypeInvParts
<1> DEFINE t == [kind |-> IF CurrentOpen(mem.records) = 0 THEN "open" ELSE "close",
                 auto |-> TRUE, state |-> "quoted"]
           new == [n |-> Len(trades'), state |-> "quoting", provisional |-> FALSE,
                   confirmed |-> FALSE]
<1>1. /\ trades' = Append(trades, t) /\ mem' = [mem EXCEPT !.intent = new]
      /\ Len(trades) < MaxTrades /\ start = "up" /\ ready /\ mem.paused = "-"
      /\ mem.intent = <<>> /\ order = "idle" /\ order' = "marked"
      /\ waiting' = waiting \cup {<<"order", 0>>}
      /\ UNCHANGED <<events, lighter, refilled, ready, follow, retry, start, crashes, writes, file>>
  BY DEF MarkIntent, Persist, process, TransitionInProgress, OrderInflight
<1>2. t \in Trade /\ t.auto /\ t.state = "quoted"
  BY DEF Trade
<1> HIDE DEF t
<1>3. /\ trades' \in Seq(Trade) /\ Len(trades') = Len(trades) + 1 /\ trades'[Len(trades')] = t
      /\ \A n \in DOMAIN trades : trades'[n] = trades[n]
      /\ DOMAIN trades' = DOMAIN trades \cup {Len(trades')}
  BY <1>1, <1>2
<1>21. Len(trades') \in Numbers /\ Len(trades') <= MaxTrades
  BY <1>1, <1>3 DEF Numbers
<1>4. new \in Intent
  BY <1>21 DEF Intent
<1>5. mem' \in State /\ mem'.records = mem.records /\ mem'.intent = new /\ mem'.paused = mem.paused
  BY <1>1, <1>4 DEF State
<1>6. WorldTyped' /\ PlacesTyped' /\ OneWrite'
  <2>1. WorldTyped'
    BY <1>1, <1>3, <1>21 DEF WorldTyped
  <2>2. PlacesTyped' /\ OneWrite'
    BY <1>1, <1>5 DEF PlacesTyped, OneWrite, Savers
  <2>3. QED
    BY <2>1, <2>2
<1>7. Limit' = Limit /\ OnDisk' = OnDisk
  BY <1>1 DEF Limit, OnDisk
<1>8. Fits(mem', Len(trades'), Limit')
  <2>1. Numbered(mem, Len(trades)) /\ Attempted(mem, Limit)
    BY DEF Fits
  <2>2. Numbered(mem', Len(trades')) /\ Attempted(mem', Limit') /\ Provided(mem')
    BY <1>3, <1>5, <1>7, <2>1 DEF Numbered, Attempted, Provided, Accepted
  <2>3. QED
    BY <1>5, <2>2 DEF Fits
<1>9. StatesFit'
  BY <1>1, <1>3, <1>6, <1>7, <1>8, DiskFits, LimitIs
<1>10. MaySend'
  BY <1>1, <1>5, <1>7 DEF MaySend
<1>11. events = {}
  BY <1>1 DEF EventHolds, Owns, WorldTyped
<1>12. \A i \in DOMAIN mem.records : mem.records[i].n # Len(trades')
  BY <1>3 DEF Fits, Numbered
<1>13. DownHolds' /\ StartHolds' /\ OrderHolds' /\ IdleHolds'
  BY <1>1, <1>2, <1>3, <1>5, <1>12, IntentFields, <1>4 DEF DownHolds, StartHolds, OrderHolds, IdleHolds
<1>14. EventHolds'
  BY <1>1, <1>11 DEF EventHolds
<1>15. TradeHolds'
  <2>1. \A n \in DOMAIN trades : trades[n].state \in {"executed", "void"}
    BY <1>1, NothingSent
  <2>2. \A n \in DOMAIN trades' : n # Len(trades') => trades'[n].state \in {"executed", "void"}
    BY <1>3, <2>1
  <2>3. QED
    BY <1>1, <1>2, <1>3, <2>2 DEF TradeHolds
<1> QED
  BY <1>6, <1>9, <1>10, <1>13, <1>14, <1>15 DEF TypeInv, Typed, Control

\* The coroutine's order, seen from its steps.
LEMMA OrderIs ==
    ASSUME TypeInv, order # "idle"
    PROVE  /\ start = "up" /\ ready /\ Len(trades) > 0 /\ Len(trades) \in DOMAIN trades
           /\ trades[Len(trades)] \in Trade /\ trades[Len(trades)].auto
           /\ CurrentIntent /\ mem.intent \in Intent /\ mem.intent.n = Len(trades)
           /\ ~mem.intent.provisional /\ Len(trades) \in Numbers
           /\ \A n \in DOMAIN trades : n # Len(trades) => trades[n].state \in {"executed", "void"}
           /\ trades[Len(trades)].state \in (IF order = "sent" THEN {"sent", "executed", "void"}
                                             ELSE {"quoted"})
<1> USE TypeInvParts
<1>1. /\ start = "up" /\ ready /\ Len(trades) > 0 /\ trades[Len(trades)].auto
      /\ mem.intent # <<>> /\ mem.intent.n = Len(trades) /\ ~mem.intent.provisional
      /\ trades[Len(trades)].state \in (IF order = "sent" THEN {"sent", "executed", "void"}
                                        ELSE {"quoted"})
  BY DEF OrderHolds
<1>2. mem.intent \in Intent
  BY <1>1, StateFields
<1>3. Len(trades) \in DOMAIN trades /\ trades[Len(trades)] \in Trade
  BY <1>1
<1>4. Len(trades) \in Numbers
  BY <1>1, <1>2, IntentFields
<1>5. \A n \in DOMAIN trades : n # Len(trades) => trades[n].state \in {"executed", "void"}
  BY DEF TradeHolds
<1> QED
  BY <1>1, <1>2, <1>3, <1>4, <1>5 DEF CurrentIntent

LEMMA SetIntentState ==
    ASSUME NEW t \in Intent,
           NEW v \in {"quoting", "prepared", "committing", "ambiguous", "committed", "restored"}
    PROVE  /\ [t EXCEPT !.state = v] \in Intent
           /\ LET u == [t EXCEPT !.state = v]
              IN  /\ u.n = t.n /\ u.state = v /\ u.provisional = t.provisional
                  /\ u.confirmed = t.confirmed /\ u # <<>>
<1>1. [t EXCEPT !.state = v] \in Intent
  BY DEF Intent
<1>2. [t EXCEPT !.state = v] # <<>>
  BY <1>1, IntentFields
<1> QED
  BY <1>1, <1>2 DEF Intent

LEMMA TradeSet ==
    ASSUME NEW ts \in Seq(Trade), NEW n \in DOMAIN ts,
           NEW v \in {"quoted", "sent", "accepted", "executed", "void"},
           NEW us, us = [ts EXCEPT ![n].state = v]
    PROVE  /\ us \in Seq(Trade) /\ Len(us) = Len(ts) /\ DOMAIN us = DOMAIN ts
           /\ us[n].state = v /\ us[n].kind = ts[n].kind /\ us[n].auto = ts[n].auto
           /\ \A k \in DOMAIN ts : k # n => us[k] = ts[k]
<1> DEFINE q == [ts[n] EXCEPT !.state = v]
<1>1. ts[n] \in Trade
  OBVIOUS
<1>2. q \in Trade /\ q.state = v /\ q.kind = ts[n].kind /\ q.auto = ts[n].auto
  BY <1>1 DEF Trade
<1>3. us = [ts EXCEPT ![n] = q]
  OBVIOUS
<1> HIDE DEF q
<1> QED
  BY <1>2, <1>3

\* A step that leaves the records alone.
LEMMA IntentStep ==
    ASSUME TypeInv, mem' \in State, mem'.records = mem.records, Intended(mem, mem'),
           Len(trades') = Len(trades), UNCHANGED <<retry, start, crashes>>
    PROVE  Fits(mem, Len(trades), Limit)' /\ MaySend' /\ Limit' = Limit /\ OnDisk' = OnDisk
<1> USE TypeInvParts
<1>1. Limit' = Limit /\ OnDisk' = OnDisk
  BY DEF Limit, OnDisk
<1>2. Attempted(mem', Limit)
  BY DEF Fits, Attempted
<1>3. Fits(mem', Len(trades), Limit)
  BY <1>2, FitsEdited DEF SameRecords
<1>4. MaySend'
  BY <1>1 DEF MaySend
<1> QED
  BY <1>1, <1>3, <1>4

LEMMA PrepareIntentTyped == TypeInv /\ PrepareIntent => TypeInv'
<1> SUFFICES ASSUME TypeInv, PrepareIntent PROVE TypeInv'
  OBVIOUS
<1> USE TypeInvParts
<1>1. /\ order = "marked" /\ order' = "prepared" /\ mem' = [mem EXCEPT !.intent.state = "prepared"]
      /\ waiting' = waiting \cup {<<"order", 0>>}
      /\ UNCHANGED <<trades, events, lighter, refilled, ready, follow, retry, start, crashes,
                     writes, file>>
  BY DEF PrepareIntent, Persist, process, truth
<1> USE OrderIs
<1>2. mem.intent \in Intent /\ start = "up"
  BY <1>1
<1> DEFINE new == [mem.intent EXCEPT !.state = "prepared"]
<1>3. new \in Intent /\ new.n = mem.intent.n /\ new.state = "prepared"
      /\ new.provisional = mem.intent.provisional /\ new.confirmed = mem.intent.confirmed
      /\ new # <<>>
  BY <1>2, SetIntentState
<1>4. mem' = [mem EXCEPT !.intent = new]
  BY <1>1
<1> HIDE DEF new
<1>5. mem' \in State /\ mem'.records = mem.records /\ mem'.intent = new /\ mem'.paused = mem.paused
  BY <1>3, <1>4 DEF State
<1>6. Intended(mem, mem')
  BY <1>1, <1>2, <1>3, <1>5, IntentFields DEF Intended, Accepted
<1>7. Fits(mem, Len(trades), Limit)' /\ MaySend' /\ Limit' = Limit /\ OnDisk' = OnDisk
  BY <1>1, <1>5, <1>6, IntentStep
<1>8. WorldTyped'
  BY <1>1 DEF WorldTyped
<1>9. PlacesTyped' /\ OneWrite'
  BY <1>1, <1>5 DEF PlacesTyped, OneWrite, Savers
<1>10. StatesFit'
  BY <1>1, <1>7, <1>8, DiskFits, LimitIs
<1>11. DownHolds' /\ StartHolds' /\ OrderHolds' /\ IdleHolds'
  BY <1>1, <1>2, <1>3, <1>5, ZenonT(40) DEF DownHolds, StartHolds, OrderHolds, IdleHolds
<1>12. TradeHolds' /\ EventHolds'
  BY <1>1, <1>2, <1>3, <1>5 DEF TradeHolds, EventHolds, Owns
<1> QED
  BY <1>7, <1>8, <1>9, <1>10, <1>11, <1>12 DEF TypeInv, Typed, Control

\* No fill of an order that is not executed is waiting.
LEMMA NoEvents ==
    ASSUME TypeInv, trades[Len(trades)].state # "executed"
    PROVE  events = {}
BY TypeInvParts DEF EventHolds

\* The intent is cleared when its order has ended unexecuted, or has not been sent.
LEMMA ClearedTyped ==
    ASSUME TypeInv, order # "idle", ~mem.intent.confirmed,
           mem' = [mem EXCEPT !.intent = <<>>], order' = "idle",
           trades' \in Seq(Trade), Len(trades') = Len(trades),
           \A n \in DOMAIN trades : n # Len(trades) => trades'[n] = trades[n],
           trades'[Len(trades)].state = "void", trades[Len(trades)].state # "executed",
           waiting' = waiting \cup {<<"order", 0>>},
           UNCHANGED <<events, lighter, refilled, ready, follow, retry, start, crashes,
                       writes, file>>
    PROVE  TypeInv'
<1> USE TypeInvParts, OrderIs
<1>1. mem' \in State /\ mem'.records = mem.records /\ mem'.intent = <<>> /\ mem'.paused = mem.paused
  BY DEF State
<1>2. Intended(mem, mem')
  BY <1>1 DEF Intended
<1>3. Fits(mem, Len(trades), Limit)' /\ MaySend' /\ Limit' = Limit /\ OnDisk' = OnDisk
  BY <1>1, <1>2, IntentStep
<1>4. DOMAIN trades' = DOMAIN trades /\ events = {}
  BY NoEvents
<1>5. WorldTyped'
  BY <1>4 DEF WorldTyped
<1>6. PlacesTyped' /\ OneWrite'
  BY <1>1 DEF PlacesTyped, OneWrite, Savers
<1>7. StatesFit'
  BY <1>3, <1>5, DiskFits, LimitIs
<1>8. DownHolds' /\ StartHolds' /\ OrderHolds' /\ IdleHolds'
  BY <1>1, <1>4 DEF DownHolds, StartHolds, OrderHolds, IdleHolds
<1>9. TradeHolds' /\ EventHolds'
  BY <1>1, <1>4 DEF TradeHolds, EventHolds
<1> QED
  BY <1>3, <1>5, <1>6, <1>7, <1>8, <1>9 DEF TypeInv, Typed, Control

LEMMA GiveUpTyped == TypeInv /\ GiveUp => TypeInv'
<1> SUFFICES ASSUME TypeInv, GiveUp PROVE TypeInv'
  OBVIOUS
<1> USE TypeInvParts, OrderIs
<1>1. /\ order \in {"marked", "prepared"} /\ mem' = [mem EXCEPT !.intent = <<>>]
      /\ trades' = [trades EXCEPT ![Len(trades)].state = "void"] /\ order' = "idle"
      /\ waiting' = waiting \cup {<<"order", 0>>}
      /\ UNCHANGED <<events, lighter, refilled, ready, follow, retry, start, crashes, writes, file>>
  BY DEF GiveUp, Persist, process
<1>2. trades' \in Seq(Trade) /\ Len(trades') = Len(trades)
      /\ (\A n \in DOMAIN trades : n # Len(trades) => trades'[n] = trades[n])
      /\ trades'[Len(trades)].state = "void"
  <2>1. Len(trades) \in DOMAIN trades /\ trades \in Seq(Trade)
    BY <1>1
  <2> HIDE TypeInvParts, OrderIs
  <2>2. QED
    BY <1>1, <2>1, TradeSet
<1>3. ~mem.intent.confirmed /\ trades[Len(trades)].state # "executed"
  BY <1>1 DEF OrderHolds
<1> QED
  BY <1>1, <1>2, <1>3, ClearedTyped

LEMMA RefusedTyped == TypeInv /\ Refused => TypeInv'
<1> SUFFICES ASSUME TypeInv, Refused PROVE TypeInv'
  OBVIOUS
<1> USE TypeInvParts, OrderIs
<1>1. /\ order = "sent" /\ order' = "idle" /\ mem' = [mem EXCEPT !.intent = <<>>]
      /\ trades[Len(trades)].state = "void" /\ waiting' = waiting \cup {<<"order", 0>>}
      /\ UNCHANGED <<trades, events, lighter, refilled, ready, follow, retry, start, crashes,
                     writes, file>>
  BY DEF Refused, Answered, Persist, process, truth
<1>2. ~mem.intent.confirmed
  BY <1>1 DEF OrderHolds
<1> QED
  BY <1>1, <1>2, ClearedTyped

LEMMA SendCommitTyped == TypeInv /\ SendCommit => TypeInv'
<1> SUFFICES ASSUME TypeInv, SendCommit PROVE TypeInv'
  OBVIOUS
<1> USE TypeInvParts, OrderIs
<1>1. /\ order = "prepared" /\ order' = "sent"
      /\ mem' = [mem EXCEPT !.intent.state = "committing"]
      /\ trades' = [trades EXCEPT ![Len(trades)].state = "sent"]
      /\ UNCHANGED <<events, lighter, refilled, ready, follow, retry, start, crashes,
                     waiting, writes, file>>
  BY DEF SendCommit, NoSave, saving, process
<1>2. mem.intent \in Intent /\ start = "up" /\ ~mem.intent.confirmed
      /\ trades[Len(trades)].state = "quoted"
  BY <1>1 DEF OrderHolds
<1> DEFINE new == [mem.intent EXCEPT !.state = "committing"]
<1>3. new \in Intent /\ new.n = mem.intent.n /\ new.state = "committing"
      /\ new.provisional = mem.intent.provisional /\ new.confirmed = mem.intent.confirmed
      /\ new # <<>>
  BY <1>2, SetIntentState
<1>4. mem' = [mem EXCEPT !.intent = new]
  BY <1>1
<1> HIDE DEF new
<1>5. mem' \in State /\ mem'.records = mem.records /\ mem'.intent = new /\ mem'.paused = mem.paused
  BY <1>3, <1>4 DEF State
<1>6. Intended(mem, mem')
  BY <1>1, <1>2, <1>3, <1>5, IntentFields DEF Intended, Accepted
<1>7. trades' \in Seq(Trade) /\ Len(trades') = Len(trades) /\ DOMAIN trades' = DOMAIN trades
      /\ (\A n \in DOMAIN trades : n # Len(trades) => trades'[n] = trades[n])
      /\ trades'[Len(trades)].state = "sent" /\ trades'[Len(trades)].auto
  <2>1. /\ Len(trades) \in DOMAIN trades /\ trades[Len(trades)].auto /\ trades \in Seq(Trade)
        /\ trades' = [trades EXCEPT ![Len(trades)].state = "sent"]
    BY <1>1
  <2> HIDE TypeInvParts, OrderIs
  <2>2. QED
    BY <2>1, TradeSet
<1>8. Fits(mem, Len(trades), Limit)' /\ MaySend' /\ Limit' = Limit /\ OnDisk' = OnDisk
  BY <1>1, <1>5, <1>6, <1>7, IntentStep
<1>9. WorldTyped'
  BY <1>1, <1>7 DEF WorldTyped
<1>10. PlacesTyped' /\ OneWrite'
  BY <1>1, <1>5 DEF PlacesTyped, OneWrite
<1>11. StatesFit'
  BY <1>1, <1>7, <1>8, <1>9, DiskFits, LimitIs
<1>12. events = {} /\ \A n \in DOMAIN trades : n # Len(trades) => trades[n].state \in {"executed", "void"}
  BY <1>1, <1>2, NoEvents
<1>13. DownHolds' /\ StartHolds' /\ IdleHolds'
  BY <1>1, <1>2, <1>3, <1>5 DEF DownHolds, StartHolds, IdleHolds
<1>15. OrderHolds'
  <2>1. \A i \in DOMAIN mem.records : mem.records[i].n # Len(trades)
    BY <1>1, <1>2 DEF OrderHolds
  <2>2. start' = "up" /\ ready' /\ Len(trades') > 0 /\ ~new.provisional /\ ~new.confirmed
        /\ new.n = Len(trades)
    BY <1>1, <1>2, <1>3, <1>7
  <2>3. trades'[Len(trades')].state = "sent" /\ trades'[Len(trades')].auto
    BY <1>7
  <2>4. \A i \in DOMAIN mem'.records : mem'.records[i].n # Len(trades')
    BY <1>5, <1>7, <2>1
  <2>5. mem'.intent # <<>> /\ mem'.intent.n = Len(trades') /\ ~mem'.intent.provisional
        /\ mem'.intent.state = "committing" /\ ~mem'.intent.confirmed /\ order' = "sent"
    BY <1>1, <1>3, <1>5, <1>7, <2>2
  <2> HIDE TypeInvParts, OrderIs
  <2>6. QED
    BY <2>2, <2>3, <2>4, <2>5 DEF OrderHolds
<1>14. TradeHolds' /\ EventHolds'
  BY <1>1, <1>2, <1>3, <1>5, <1>7, <1>12, ZenonT(40) DEF TradeHolds, EventHolds, Owns
<1> QED
  BY <1>8, <1>9, <1>10, <1>11, <1>13, <1>14, <1>15 DEF TypeInv, Typed, Control

\* A record whose hedge changes its state, and perhaps its ids.
LEMMA RecordStep ==
    ASSUME TypeInv, NEW i \in DOMAIN mem.records, NEW r \in Record,
           r.n = mem.records[i].n, r.kind = mem.records[i].kind, r.src = mem.records[i].src,
           Len(r.ids) <= Limit, r.hedge \in Sends => Len(r.ids) < Limit,
           mem' \in State, mem'.records = [mem.records EXCEPT ![i] = r],
           \/ mem'.intent = <<>>
           \/ /\ mem.intent # <<>> /\ mem'.intent.n = mem.intent.n
              /\ mem'.intent.provisional \/ Accepted(mem'.intent)
                    => mem.intent.provisional \/ Accepted(mem.intent),
           Len(trades') = Len(trades), UNCHANGED <<start, crashes>>, start # "inspect",
           retry' # 0 => mem'.records[retry'].hedge = "retrying"
    PROVE  /\ Fits(mem, Len(trades), Limit)' /\ MaySend' /\ Limit' = Limit /\ OnDisk' = OnDisk
           /\ Len(mem'.records) = Len(mem.records) /\ mem'.records[i] = r
           /\ \A j \in DOMAIN mem.records : j # i => mem'.records[j] = mem.records[j]
           /\ DOMAIN mem'.records = DOMAIN mem.records
<1> USE TypeInvParts
<1>1. Limit' = Limit /\ OnDisk' = OnDisk
  BY DEF Limit, OnDisk
<1>2. mem.records \in Seq(Record)
  BY StateFields
<1>3. /\ Len(mem'.records) = Len(mem.records) /\ mem'.records[i] = r
      /\ DOMAIN mem'.records = DOMAIN mem.records
      /\ \A j \in DOMAIN mem.records : j # i => mem'.records[j] = mem.records[j]
  BY <1>2, Replaced
<1>4. SameRecords(mem.records, mem'.records) /\ Intended(mem, mem')
  BY <1>3 DEF SameRecords, Intended
<1>5. Attempted(mem', Limit)
  BY <1>3 DEF Fits, Attempted
<1>6. Fits(mem', Len(trades), Limit)
  BY <1>4, <1>5, FitsEdited
<1>7. MaySend'
  BY <1>1, <1>3 DEF MaySend
<1> QED
  BY <1>1, <1>3, <1>6, <1>7

\* Records of which some changed and some were added.
Grown(p, q) == Len(p) <= Len(q) /\ \A i \in DOMAIN p : q[i].n = p[i].n /\ q[i].kind = p[i].kind

LEMMA FitsStep ==
    ASSUME NEW last, NEW limit, NEW s, Fits(s, last, limit), NEW m \in State,
           Grown(s.records, m.records), Attempted(m, limit), Intended(s, m),
           \A i \in DOMAIN m.records \ DOMAIN s.records : m.records[i].n \in 1..last
    PROVE  Fits(m, last, limit)
<1>1. s \in State /\ Provided(s) /\ Numbered(s, last)
  BY DEF Fits
<1>2. DOMAIN s.records \subseteq DOMAIN m.records
  BY <1>1, StateFields DEF Grown
<1>3. Numbered(m, last)
  BY <1>1, <1>2 DEF Numbered, Grown, Intended
<1>4. Provided(m)
  BY <1>1, <1>2 DEF Provided, Grown, Intended, OrderOf
<1> QED
  BY <1>3, <1>4 DEF Fits

\* A hedge goes on: one record changes its state and perhaps its ids, and the undoing of a
\* record may be added.
LEMMA EditStep ==
    ASSUME TypeInv, NEW i \in DOMAIN mem.records, NEW r \in Record,
           r.n = mem.records[i].n, r.kind = mem.records[i].kind, r.src = mem.records[i].src,
           Len(r.ids) <= Limit, r.hedge \in Sends => Len(r.ids) < Limit,
           mem' \in State, Len(mem.records) <= Len(mem'.records), mem'.records[i] = r,
           \A j \in DOMAIN mem.records : j # i => mem'.records[j] = mem.records[j],
           \A j \in DOMAIN mem'.records \ DOMAIN mem.records :
              mem'.records[j].n = r.n /\ mem'.records[j].ids = <<>>,
           mem'.intent = mem.intent, mem.paused # "-" => mem'.paused # "-",
           mem.records[i].hedge # "waiting" \/ mem.records[i].ids # <<>>,
           start \notin {"down", "inspect"},
           lighter' \in [Ids -> {"none", "sent", "filled", "dead"}], refilled' \in BOOLEAN,
           waiting \subseteq waiting', waiting' \subseteq Savers,
           follow' \in {0, follow}, retry' \in 0 .. Len(mem.records),
           retry' # 0 => mem'.records[retry'].hedge = "retrying",
           UNCHANGED <<trades, events, ready, order, start, crashes, writes, file>>
    PROVE  TypeInv'
<1> USE TypeInvParts
<1>1. Limit' = Limit /\ OnDisk' = OnDisk
  BY DEF Limit, OnDisk
<1>2. DOMAIN mem.records \subseteq DOMAIN mem'.records /\ DOMAIN mem.records = 1..Len(mem.records)
      /\ DOMAIN mem'.records = 1..Len(mem'.records) /\ Len(mem.records) \in Nat /\ Len(mem'.records) \in Nat
  BY StateFields
<1>3. Grown(mem.records, mem'.records) /\ Intended(mem, mem')
  BY <1>2 DEF Grown, Intended
<1>4. \A j \in DOMAIN mem'.records :
         \/ j \in DOMAIN mem.records /\ j # i /\ mem'.records[j] = mem.records[j]
         \/ mem'.records[j].n = r.n /\ (mem'.records[j] = r \/ mem'.records[j].ids = <<>>)
  BY <1>2
<1>41. Len(<<>>) = 0 /\ Limit \in Nat /\ Limit >= 1 /\ Len(r.ids) <= Limit
  OBVIOUS
<1>42. \A j \in DOMAIN mem.records : Len(mem.records[j].ids) <= Limit
  BY DEF Fits, Attempted
<1>43. \A j \in DOMAIN mem.records : mem.records[j].hedge \in Sends => Len(mem.records[j].ids) < Limit
  BY DEF MaySend
<1>5. Attempted(mem', Limit)
  BY ONLY <1>4, <1>41, <1>42 DEF Attempted
<1>6. \A j \in DOMAIN mem'.records : mem'.records[j].n \in 1..Len(trades)
  BY <1>4 DEF Fits, Numbered
<1>7. Fits(mem', Len(trades), Limit)
  BY <1>3, <1>5, <1>6, FitsStep
<1>8. MaySend'
  <2>1. \A j \in DOMAIN mem'.records :
          mem'.records[j].hedge \in Sends => Len(mem'.records[j].ids) < Limit
    <3>1. r.hedge \in Sends => Len(r.ids) < Limit
      OBVIOUS
    <3>2. QED
      BY ONLY <1>4, <1>41, <1>43, <3>1
  <2>2. QED
    BY <1>1, <2>1 DEF MaySend
<1>9. WorldTyped'
  BY DEF WorldTyped
<1>10. PlacesTyped' /\ OneWrite'
  <2>1. follow \in 0..Len(mem'.records) /\ 0 \in 0..Len(mem'.records)
    BY <1>2 DEF PlacesTyped
  <2>2. PlacesTyped'
    BY <1>2, <2>1 DEF PlacesTyped
  <2>3. OneWrite'
    BY DEF OneWrite
  <2>4. QED
    BY <2>2, <2>3
<1>11. StatesFit'
  BY <1>1, <1>7, <1>9, DiskFits, LimitIs
<1>12. DownHolds' /\ StartHolds' /\ IdleHolds' /\ TradeHolds'
  BY DEF DownHolds, StartHolds, IdleHolds, TradeHolds, Owns
<1>13. EventHolds'
  <2>1. \A n \in events : (\A j \in DOMAIN mem.records : mem.records[j].n # n)
                          => \A j \in DOMAIN mem'.records : mem'.records[j].n # n
    <3>1. mem.records[i].n = r.n /\ i \in DOMAIN mem.records
      OBVIOUS
    <3>2. QED
      BY ONLY <1>4, <3>1
  <2>2. mem'.intent = mem.intent /\ (mem.paused # "-" => mem'.paused # "-")
        /\ UNCHANGED <<trades, events, start>> /\ EventHolds
    OBVIOUS
  <2>3. QED
    BY ONLY <2>1, <2>2 DEF EventHolds, Owns
<1>14. OrderHolds'
  <2>0. mem'.intent = mem.intent /\ UNCHANGED <<trades, ready, order, start>> /\ OrderHolds
    OBVIOUS
  <2> SUFFICES ASSUME order # "idle" PROVE OrderHolds'
    BY DEF OrderHolds
  <2>1. CASE mem.intent.confirmed
    <3>1. PICK k \in DOMAIN mem.records :
             /\ OrderOf(mem.records[k], Len(trades))
             /\ mem.records[k].hedge = "waiting" /\ mem.records[k].ids = <<>>
             /\ \A j \in DOMAIN mem.records : mem.records[j].n = Len(trades) => j = k
      BY <2>1 DEF OrderHolds
    <3>2. k # i /\ mem.records[i].n # Len(trades)
      BY <3>1
    <3>3. k \in DOMAIN mem'.records /\ mem'.records[k] = mem.records[k]
          /\ \A j \in DOMAIN mem'.records : mem'.records[j].n = Len(trades) => j = k
      BY <1>2, <1>4, <3>1, <3>2
    <3>4. QED
      BY ONLY order # "idle", <2>0, <2>1, <3>1, <3>3 DEF OrderHolds
  <2>2. CASE ~mem.intent.confirmed
    <3>1. \A j \in DOMAIN mem.records : mem.records[j].n # Len(trades)
      BY ONLY order # "idle", <2>0, <2>2 DEF OrderHolds
    <3>2. \A j \in DOMAIN mem'.records : mem'.records[j].n # Len(trades)
      <4>1. mem.records[i].n = r.n /\ i \in DOMAIN mem.records
        OBVIOUS
      <4>2. QED
        BY ONLY <1>4, <3>1, <4>1
    <3>3. QED
      BY ONLY order # "idle", <2>0, <2>2, <3>2 DEF OrderHolds
  <2>3. QED
    BY <2>1, <2>2
<1> QED
  BY <1>7, <1>8, <1>9, <1>10, <1>11, <1>12, <1>13, <1>14 DEF TypeInv, Typed, Control

\* A state of which one record changes.
Edited(s, i, r, p) == [s EXCEPT !.records = [s.records EXCEPT ![i] = r], !.paused = p]

LEMMA EditedIs ==
    ASSUME NEW s \in State, NEW i \in DOMAIN s.records, NEW r \in Record, NEW p \in Pause
    PROVE  /\ Edited(s, i, r, p) \in State
           /\ Edited(s, i, r, p).intent = s.intent /\ Edited(s, i, r, p).paused = p
           /\ Len(Edited(s, i, r, p).records) = Len(s.records)
           /\ DOMAIN Edited(s, i, r, p).records = DOMAIN s.records
           /\ Edited(s, i, r, p).records[i] = r
           /\ \A j \in DOMAIN s.records : j # i => Edited(s, i, r, p).records[j] = s.records[j]
<1> DEFINE rs == [s.records EXCEPT ![i] = r]
           m == Edited(s, i, r, p)
<1>1. s.records \in Seq(Record)
  BY StateFields
<1>2. /\ rs \in Seq(Record) /\ Len(rs) = Len(s.records) /\ DOMAIN rs = DOMAIN s.records
      /\ rs[i] = r /\ \A j \in DOMAIN s.records : j # i => rs[j] = s.records[j]
  BY <1>1, Replaced
<1>3. m = [s EXCEPT !.records = rs, !.paused = p]
  BY DEF Edited
<1> HIDE DEF rs, m
<1>4. m \in State /\ m.intent = s.intent /\ m.paused = p /\ m.records = rs
  BY <1>2, <1>3 DEF State, Pause
<1> QED
  BY <1>2, <1>4 DEF m

LEMMA PauseIs == ASSUME TypeInv, NEW reason \in {"recon", "lacks", "other"}
                 PROVE  PauseFor(reason) \in Pause /\ PauseFor(reason) # "-"
BY DEF PauseFor, Pause

\* A record whose hedge only changes its state.
LEMMA HedgeStep ==
    ASSUME TypeInv, NEW i \in DOMAIN mem.records, NEW h \in Hedge, NEW p \in Pause,
           mem' = [mem EXCEPT !.records[i].hedge = h, !.paused = p],
           h \in Sends => Len(mem.records[i].ids) < Limit,
           mem.paused # "-" => p # "-",
           mem.records[i].hedge # "waiting" \/ mem.records[i].ids # <<>>,
           start \notin {"down", "inspect"},
           lighter' \in [Ids -> {"none", "sent", "filled", "dead"}], refilled' \in BOOLEAN,
           waiting \subseteq waiting', waiting' \subseteq Savers,
           follow' \in {0, follow}, retry' \in {0, retry},
           retry' # i \/ h = "retrying",
           UNCHANGED <<trades, events, ready, order, start, crashes, writes, file>>
    PROVE  TypeInv'
<1> DEFINE r == [mem.records[i] EXCEPT !.hedge = h]
<1>1. mem \in State /\ Len(mem.records) \in Nat /\ DOMAIN mem.records = 1..Len(mem.records)
      /\ mem.records[i] \in Record /\ i \in DOMAIN mem.records /\ p \in Pause
  BY TypeInvParts, StateFields
<1>2. /\ r \in Record /\ r.n = mem.records[i].n /\ r.kind = mem.records[i].kind
      /\ r.src = mem.records[i].src /\ r.ids = mem.records[i].ids /\ r.hedge = h
  BY <1>1, SetHedge
<1>3. mem' = Edited(mem, i, r, p)
  BY DEF Edited
<1> HIDE DEF r
<1>4. /\ mem' \in State /\ mem'.intent = mem.intent /\ mem'.paused = p
      /\ Len(mem'.records) = Len(mem.records) /\ DOMAIN mem'.records = DOMAIN mem.records
      /\ mem'.records[i] = r
      /\ \A j \in DOMAIN mem.records : j # i => mem'.records[j] = mem.records[j]
  BY ONLY <1>1, <1>2, <1>3, EditedIs
<1>5. Len(r.ids) <= Limit
  BY <1>2, TypeInvParts DEF Fits, Attempted
<1>6. retry' \in 0..Len(mem.records)
  BY <1>1, TypeInvParts DEF PlacesTyped
<1>7. retry' # 0 => mem'.records[retry'].hedge = "retrying"
  <2>1. ASSUME retry' # 0, retry' # i PROVE mem'.records[retry'].hedge = "retrying"
    <3>1. retry' = retry /\ retry' \in DOMAIN mem.records
      BY <1>1, <1>6, <2>1
    <3>2. mem.records[retry].hedge = "retrying"
      BY <2>1, <3>1, TypeInvParts DEF MaySend
    <3>3. QED
      BY <1>4, <2>1, <3>1, <3>2
  <2>2. QED
    BY <1>2, <1>4, <2>1
<1> QED
  BY <1>1, <1>2, <1>4, <1>5, <1>6, <1>7, EditStep

\* A process that has records, and a hedge that is queued or being sent, is past the inspection.
LEMMA Hedging1 ==
    ASSUME TypeInv, NEW i \in DOMAIN mem.records, mem.records[i].hedge \in {"queued", "submitting"}
    PROVE  start \notin {"down", "inspect"}
BY TypeInvParts DEF DownHolds, MaySend, Empty

LEMMA TaskWaits == ASSUME TypeInv, NEW i \in DOMAIN mem.records
                   PROVE  waiting \cup {<<"task", i>>} \subseteq Savers
<1>1. i \in Nat \ {0}
  BY TypeInvParts, StateFields
<1>2. QED
  BY <1>1, TypeInvParts DEF PlacesTyped, Savers

LEMMA ReachTyped ==
    ASSUME TypeInv, NEW id, Reach(id)
    PROVE  lighter' \in [Ids -> {"none", "sent", "filled", "dead"}] /\ refilled' \in BOOLEAN
BY TypeInvParts DEF Reach, WorldTyped

LEMMA SendTyped == ASSUME TypeInv, NEW i \in DOMAIN mem.records, Send(i) PROVE TypeInv'
<1>1. /\ mem.records[i].hedge = "submitting" /\ Reach(Last(mem.records[i].ids))
      /\ mem' = [mem EXCEPT !.records[i].hedge = "submitted"]
      /\ waiting' = waiting \cup {<<"task", i>>}
      /\ UNCHANGED <<trades, events, ready, order, follow, retry, start, crashes, writes, file>>
  BY DEF Send, PersistHedge, runtime, process
<1>2. mem \in State /\ mem.paused \in Pause
  BY TypeInvParts, StateFields
<1>3. mem' = [mem EXCEPT !.records[i].hedge = "submitted", !.paused = mem.paused]
  BY <1>1, <1>2 DEF State
<1>4. retry # i
  BY <1>1, TypeInvParts, StateFields DEF MaySend
<1>5. "submitted" \in Hedge /\ "submitted" \notin Sends
  BY DEF Hedge, Sends
<1> QED
  BY <1>1, <1>2, <1>3, <1>4, <1>5, Hedging1, TaskWaits, ReachTyped, HedgeStep

LEMMA RequeueTyped == TypeInv /\ Requeue => TypeInv'
<1> SUFFICES ASSUME TypeInv, Requeue PROVE TypeInv'
  OBVIOUS
<1>1. /\ retry # 0 /\ retry' = 0
      /\ UNCHANGED <<trades, lighter, refilled, events, ready, order, follow, start, crashes,
                     waiting, writes, file>>
  BY DEF Requeue, NoSave, saving, truth, process
<1>2. /\ retry \in DOMAIN mem.records /\ mem.records[retry].hedge = "retrying"
      /\ mem \in State /\ mem.paused \in Pause
  BY <1>1, TypeInvParts, StateFields DEF MaySend, PlacesTyped
<1>3. mem' = [mem EXCEPT !.records[retry].hedge = "queued"]
  BY <1>2 DEF Requeue
<1>4. mem' = [mem EXCEPT !.records[retry].hedge = "queued", !.paused = mem.paused]
  BY <1>2, <1>3 DEF State
<1>5. Len(mem.records[retry].ids) < Limit
  BY <1>2, TypeInvParts DEF MaySend, Sends
<1>6. start \notin {"down", "inspect"}
  BY <1>1, TypeInvParts DEF DownHolds, MaySend
<1>7. "queued" \in Hedge
  BY DEF Hedge
<1>8. waiting \subseteq Savers /\ lighter \in [Ids -> {"none", "sent", "filled", "dead"}]
      /\ refilled \in BOOLEAN
  BY TypeInvParts DEF PlacesTyped, WorldTyped
<1> QED
  BY <1>1, <1>2, <1>4, <1>5, <1>6, <1>7, <1>8, HedgeStep

LEMMA FeedFollowsTyped == TypeInv /\ FeedFollows => TypeInv'
<1> SUFFICES ASSUME TypeInv, FeedFollows PROVE TypeInv'
  OBVIOUS
<1>1. /\ follow # 0 /\ follow' = 0
      /\ UNCHANGED <<trades, lighter, refilled, events, ready, order, retry, start, crashes,
                     writes, file>>
      /\ waiting \subseteq waiting' /\ waiting' \subseteq waiting \cup {<<"feed", 0>>}
  BY DEF FeedFollows, NoSave, Persist, saving, truth, process
<1>2. waiting' \subseteq Savers
  BY <1>1, TypeInvParts DEF PlacesTyped, Savers
<1>3. /\ follow \in DOMAIN mem.records /\ mem \in State /\ mem.paused \in Pause
      /\ mem.records[follow] \in Record
  BY <1>1, TypeInvParts, StateFields DEF PlacesTyped
<1>4. start \notin {"down", "inspect"}
  BY <1>1, TypeInvParts DEF DownHolds, StartHolds
<1>5. lighter \in [Ids -> {"none", "sent", "filled", "dead"}] /\ refilled \in BOOLEAN
  BY TypeInvParts DEF WorldTyped
<1>6. CASE mem.records[follow].hedge # "none"
  <2>1. mem' = mem
    BY <1>6 DEF FeedFollows
  <2>2. Fits(mem, Len(trades), Limit)' /\ MaySend' /\ Limit' = Limit /\ OnDisk' = OnDisk
    BY <1>1, <2>1, TypeInvParts, IntentStep DEF Intended
  <2>3. WorldTyped'
    BY <1>1, TypeInvParts DEF WorldTyped
  <2>4. PlacesTyped' /\ OneWrite'
    BY <1>1, <1>2, <2>1, TypeInvParts DEF PlacesTyped, OneWrite
  <2>5. StatesFit'
    BY <1>1, <2>2, <2>3, TypeInvParts, DiskFits, LimitIs
  <2>6. Control'
    BY <1>1, <1>4, <2>1, TypeInvParts
    DEF Control, DownHolds, StartHolds, OrderHolds, IdleHolds, TradeHolds, EventHolds, Owns
  <2>7. QED
    BY <2>2, <2>3, <2>4, <2>5, <2>6 DEF TypeInv, Typed
<1>7. CASE mem.records[follow].hedge = "none"
  <2>1. PICK h \in {"queued", "skipped"}, p \in Pause :
          /\ mem' = [mem EXCEPT !.records[follow].hedge = h, !.paused = p]
          /\ mem.paused # "-" => p # "-"
    <3>1. \/ mem' = [mem EXCEPT !.records[follow].hedge = "queued"]
          \/ mem' = [mem EXCEPT !.records[follow].hedge = "skipped", !.paused = PauseFor("recon")]
      BY <1>7 DEF FeedFollows
    <3>2. CASE mem' = [mem EXCEPT !.records[follow].hedge = "queued"]
      <4>1. mem' = [mem EXCEPT !.records[follow].hedge = "queued", !.paused = mem.paused]
        BY <1>3, <3>2 DEF State
      <4>2. QED
        BY <1>3, <4>1
    <3>3. CASE mem' = [mem EXCEPT !.records[follow].hedge = "skipped", !.paused = PauseFor("recon")]
      BY <3>3, PauseIs
    <3>4. QED
      BY <3>1, <3>2, <3>3
  <2>2. h \in Hedge /\ Len(mem.records[follow].ids) < Limit
    BY <1>3, <1>7, TypeInvParts DEF Hedge, MaySend, Sends
  <2>3. retry # follow /\ 0 # follow
    BY <1>1, <1>7, TypeInvParts DEF MaySend
  <2>4. QED
    BY <1>1, <1>2, <1>3, <1>4, <1>5, <1>7, <2>1, <2>2, <2>3, HedgeStep
<1> QED
  BY <1>6, <1>7

LEMMA NextIdTyped ==
    ASSUME TypeInv, NEW r \in Record, Len(r.ids) <= Limit
    PROVE  NextId(r) \in Ids
<1>1. r.n \in Numbers /\ Len(r.ids) \in Nat
  BY RecordFields
<1>2. 0 \in 0..(MaxTries + MaxCrashes) /\ Len(r.ids) \in 0..(MaxTries + MaxCrashes)
  BY <1>1, TypeInvParts, LimitIs, ConstantsAre
<1> QED
  BY <1>1, <1>2 DEF NextId, ReservedId, Role, Ids

\* A record of which an attempt is under way.
Tried(r, h, id) == [r EXCEPT !.hedge = h, !.ids = Append(@, id)]

LEMMA TriedIs ==
    ASSUME NEW r \in Record, NEW h \in Hedge, NEW id \in Ids
    PROVE  /\ Tried(r, h, id) \in Record
           /\ Tried(r, h, id).n = r.n /\ Tried(r, h, id).kind = r.kind
           /\ Tried(r, h, id).auto = r.auto /\ Tried(r, h, id).src = r.src
           /\ Tried(r, h, id).hedge = h /\ Tried(r, h, id).ids = Append(r.ids, id)
           /\ Tried(r, h, id).reserved = r.reserved /\ Tried(r, h, id).final = r.final
           /\ Tried(r, h, id).filled = r.filled
<1>1. r.ids \in Seq(Ids)
  BY RecordFields
<1> DEFINE new == Append(r.ids, id)
<1>2. new \in Seq(Ids)
  BY <1>1
<1>3. Tried(r, h, id) = [r EXCEPT !.hedge = h, !.ids = new]
  BY DEF Tried
<1> HIDE DEF new
<1>4. /\ Tried(r, h, id) \in Record
      /\ Tried(r, h, id).n = r.n /\ Tried(r, h, id).kind = r.kind
      /\ Tried(r, h, id).auto = r.auto /\ Tried(r, h, id).src = r.src
      /\ Tried(r, h, id).hedge = h /\ Tried(r, h, id).ids = new
      /\ Tried(r, h, id).reserved = r.reserved /\ Tried(r, h, id).final = r.final
      /\ Tried(r, h, id).filled = r.filled
  BY <1>2, <1>3 DEF Record, Hedge
<1> QED
  BY <1>4 DEF new

LEMMA AllocateTyped == ASSUME TypeInv, NEW i \in DOMAIN mem.records, Allocate(i) PROVE TypeInv'
<1> DEFINE r == mem.records[i]
           new == Tried(r, IF PreparedPrimary(r) THEN "submitted" ELSE "submitting", NextId(r))
<1>1. /\ r.hedge = "queued"
      /\ \/ mem' = [mem EXCEPT !.records[i].hedge = "filled"]
         \/ mem' = [mem EXCEPT !.records[i].hedge = "error", !.paused = PauseFor("recon")]
         \/ mem' = [mem EXCEPT
                      !.records[i].hedge = IF PreparedPrimary(r) THEN "submitted" ELSE "submitting",
                      !.records[i].ids = Append(@, NextId(r))]
      /\ Reach(NextId(r)) \/ UNCHANGED <<lighter, refilled>>
      /\ UNCHANGED <<trades, events, ready, order, follow, retry, start, crashes, writes, file>>
      /\ waiting \subseteq waiting' /\ waiting' \subseteq waiting \cup {<<"task", i>>}
  BY DEF Allocate, PersistHedge, NoSave, saving, runtime, process
<1>2. mem \in State /\ mem.paused \in Pause /\ r \in Record /\ Len(mem.records) \in Nat
      /\ DOMAIN mem.records = 1..Len(mem.records)
  BY TypeInvParts, StateFields
<1>3. Len(r.ids) < Limit /\ Limit \in Nat /\ Len(r.ids) \in Nat
  BY <1>1, <1>2, TypeInvParts, RecordFields DEF MaySend, Sends
<1>4. retry # i
  BY <1>1, <1>2, TypeInvParts DEF MaySend
<1>5. start \notin {"down", "inspect"}
  BY <1>1, Hedging1
<1>6. lighter' \in [Ids -> {"none", "sent", "filled", "dead"}] /\ refilled' \in BOOLEAN
  BY <1>1, ReachTyped, TypeInvParts DEF WorldTyped
<1>7. waiting' \subseteq Savers
  BY <1>1, TaskWaits
<1>8. CASE mem' = [mem EXCEPT !.records[i].hedge = "filled"]
  <2>1. mem' = [mem EXCEPT !.records[i].hedge = "filled", !.paused = mem.paused]
    BY <1>2, <1>8 DEF State
  <2>2. "filled" \in Hedge /\ "filled" \notin Sends
    BY DEF Hedge, Sends
  <2>3. QED
    BY <1>1, <1>2, <1>4, <1>5, <1>6, <1>7, <2>1, <2>2, HedgeStep
<1>9. CASE mem' = [mem EXCEPT !.records[i].hedge = "error", !.paused = PauseFor("recon")]
  <2>1. "error" \in Hedge /\ "error" \notin Sends
    BY DEF Hedge, Sends
  <2>2. PauseFor("recon") \in Pause /\ PauseFor("recon") # "-"
    BY PauseIs
  <2>3. QED
    BY <1>1, <1>2, <1>4, <1>5, <1>6, <1>7, <1>9, <2>1, <2>2, HedgeStep
<1>10. CASE mem' = [mem EXCEPT
                      !.records[i].hedge = IF PreparedPrimary(r) THEN "submitted" ELSE "submitting",
                      !.records[i].ids = Append(@, NextId(r))]
  <2>1. mem' = Edited(mem, i, new, mem.paused)
    BY <1>2, <1>10 DEF Edited, State, Tried
  <2>2. (IF PreparedPrimary(r) THEN "submitted" ELSE "submitting") \in Hedge \ Sends
    BY DEF Hedge, Sends
  <2>3. NextId(r) \in Ids
    BY <1>2, <1>3, NextIdTyped
  <2>4. /\ new \in Record /\ new.n = r.n /\ new.kind = r.kind /\ new.src = r.src
        /\ new.hedge \notin Sends /\ new.ids = Append(r.ids, NextId(r))
    BY <1>2, <2>2, <2>3, TriedIs, SMTT(30)
  <2>5. r.ids \in Seq(Ids)
    BY <1>2, RecordFields
  <2>6. Len(new.ids) <= Limit
    BY <1>3, <2>3, <2>4, <2>5
  <2> HIDE DEF new
  <2>7. i \in DOMAIN mem.records
    OBVIOUS
  <2>8. /\ mem' \in State /\ mem'.intent = mem.intent /\ mem'.paused = mem.paused
        /\ Len(mem'.records) = Len(mem.records) /\ DOMAIN mem'.records = DOMAIN mem.records
        /\ mem'.records[i] = new
        /\ \A j \in DOMAIN mem.records : j # i => mem'.records[j] = mem.records[j]
    BY ONLY <1>2, <2>1, <2>4, <2>7, EditedIs
  <2>9. /\ retry' \in 0..Len(mem.records) /\ follow' \in {0, follow}
        /\ retry' # 0 => mem'.records[retry'].hedge = "retrying"
    BY <1>1, <1>2, <1>4, <2>8, TypeInvParts DEF MaySend, PlacesTyped
  <2>10. QED
    BY <1>1, <1>2, <1>5, <1>6, <1>7, <2>4, <2>6, <2>8, <2>9, EditStep, SMTT(30)
<1> QED
  BY <1>1, <1>8, <1>9, <1>10

LEMMA ConcernedId ==
    ASSUME NEW r \in Record, NEW id, Concerns(r, id)
    PROVE  /\ id \in Ids /\ lighter[id] \in {"filled", "dead"} /\ id \notin r.final
           /\ id \in Range(r.ids) \/ (r.hedge = "check" /\ r.ids = <<>> /\ id = ReservedId(r.n))
<1>1. /\ r.n \in Numbers /\ r.ids \in Seq(Ids)
  BY RecordFields
<1>2. \A k \in Range(r.ids) : k \in Ids
  BY <1>1 DEF Range
<1>3. ReservedId(r.n) \in Ids
  BY <1>1, ConstantsAre DEF ReservedId, Ids
<1> QED
  BY <1>2, <1>3 DEF Concerns

\* What a report makes of a record.
LEMMA UpdatedIs ==
    ASSUME NEW r \in Record, NEW id \in Ids
    PROVE  /\ Updated(r, id) \in Record
           /\ Updated(r, id).n = r.n /\ Updated(r, id).kind = r.kind
           /\ Updated(r, id).auto = r.auto /\ Updated(r, id).src = r.src
           /\ Updated(r, id).ids = (IF id \in Range(r.ids) THEN r.ids ELSE Append(r.ids, id))
           /\ Updated(r, id).reserved = r.reserved /\ Updated(r, id).final = r.final \cup {id}
           /\ Updated(r, id).filled = (r.filled \/ lighter[id] = "filled")
           /\ Updated(r, id).hedge \in {"filled", "submitting", "submitted", "retrying", "error"}
           /\ Updated(r, id).hedge = "filled" <=> Updated(r, id).filled
           /\ Updated(r, id).hedge = "submitting" => r.hedge = "submitting"
           /\ Updated(r, id).hedge = "retrying" =>
                 /\ Len(Updated(r, id).ids) < MaxTries
                 /\ Range(Updated(r, id).ids) \subseteq Updated(r, id).final
<1> DEFINE ids == IF id \in Range(r.ids) THEN r.ids ELSE Append(r.ids, id)
           final == r.final \cup {id}
           filled == (r.filled \/ lighter[id] = "filled")
           known == [r EXCEPT !.ids = ids, !.final = final, !.filled = filled]
           h == IF known.filled THEN "filled"
                ELSE IF r.hedge = "submitting" THEN r.hedge
                ELSE IF ~(Range(known.ids) \subseteq known.final) THEN "submitted"
                ELSE IF MayRetry(known) THEN "retrying" ELSE "error"
<1>1. r.ids \in Seq(Ids) /\ r.final \in SUBSET Ids /\ r.filled \in BOOLEAN
  BY RecordFields
<1>2. ids \in Seq(Ids) /\ final \in SUBSET Ids /\ filled \in BOOLEAN
  BY <1>1
<1>3. Updated(r, id) = [known EXCEPT !.hedge = h]
  <2>1. known = [r EXCEPT !.ids = IF id \in Range(@) THEN @ ELSE Append(@, id),
                          !.final = @ \cup {id}, !.filled = @ \/ lighter[id] = "filled"]
    OBVIOUS
  <2>2. known.hedge = r.hedge
    BY DEF Record
  <2> HIDE DEF known
  <2>3. QED
    BY <2>1, <2>2 DEF Updated
<1> HIDE DEF ids, final, filled
<1>4. /\ known \in Record /\ known.ids = ids /\ known.final = final /\ known.filled = filled
      /\ known.n = r.n /\ known.kind = r.kind /\ known.auto = r.auto /\ known.src = r.src
      /\ known.reserved = r.reserved
  BY <1>2 DEF Record
<1> HIDE DEF known
<1>5. h \in {"filled", "submitting", "submitted", "retrying", "error"}
      /\ (h = "filled" <=> known.filled) /\ (h = "submitting" => r.hedge = "submitting")
      /\ (h = "retrying" => Len(known.ids) < MaxTries /\ Range(known.ids) \subseteq known.final)
  BY <1>2, <1>4 DEF MayRetry
<1> HIDE DEF h
<1>6. h \in Hedge
  BY <1>5 DEF Hedge
<1> DEFINE u == [known EXCEPT !.hedge = h]
<1>7. /\ u \in Record /\ u.n = known.n /\ u.kind = known.kind /\ u.auto = known.auto
      /\ u.src = known.src /\ u.hedge = h /\ u.ids = known.ids /\ u.reserved = known.reserved
      /\ u.final = known.final /\ u.filled = known.filled
  BY <1>4, <1>6, SetHedge
<1>8. Updated(r, id) = u
  BY <1>3
<1> HIDE DEF u
<1>9. /\ Updated(r, id).ids = (IF id \in Range(r.ids) THEN r.ids ELSE Append(r.ids, id))
      /\ Updated(r, id).final = r.final \cup {id}
      /\ Updated(r, id).filled = (r.filled \/ lighter[id] = "filled")
  BY <1>4, <1>7, <1>8 DEF ids, final, filled
<1>10. /\ Updated(r, id).hedge = "filled" <=> Updated(r, id).filled
       /\ Updated(r, id).hedge = "submitting" => r.hedge = "submitting"
       /\ Updated(r, id).hedge = "retrying" =>
                 /\ Len(Updated(r, id).ids) < MaxTries
                 /\ Range(Updated(r, id).ids) \subseteq Updated(r, id).final
       /\ Updated(r, id).hedge \in {"filled", "submitting", "submitted", "retrying", "error"}
  BY <1>5, <1>7, <1>8
<1> QED
  BY <1>4, <1>7, <1>8, <1>9, <1>10

LEMMA UndoIs ==
    ASSUME NEW r \in Record
    PROVE  /\ Undo(r) \in Record /\ Undo(r).n = r.n /\ Undo(r).kind = "undo" /\ Undo(r).src = "undo"
           /\ Undo(r).hedge = "queued" /\ Undo(r).ids = <<>> /\ ~Undo(r).reserved
           /\ Undo(r).final = {} /\ ~Undo(r).filled /\ ~Undo(r).auto
<1>1. <<>> \in Seq(Ids)
  OBVIOUS
<1> QED
  BY <1>1 DEF Undo, Record

\* A state of which one record changes, to which others may be added.
Changed(s, i, r, extra, intent, p) ==
    [records |-> [s.records EXCEPT ![i] = r] \o extra, intent |-> intent, paused |-> p]

Changes(s, i, r, extra, intent, p) ==
    /\ s \in State /\ i \in DOMAIN s.records /\ r \in Record /\ extra \in Seq(Record)
    /\ intent \in Intent \cup {<<>>} /\ p \in Pause

LEMMA ChangedIs ==
    ASSUME NEW s, NEW i, NEW r, NEW extra, NEW intent, NEW p, Changes(s, i, r, extra, intent, p)
    PROVE  /\ Changed(s, i, r, extra, intent, p) \in State
           /\ Changed(s, i, r, extra, intent, p).intent = intent
           /\ Changed(s, i, r, extra, intent, p).paused = p
           /\ Len(Changed(s, i, r, extra, intent, p).records) = Len(s.records) + Len(extra)
           /\ Changed(s, i, r, extra, intent, p).records[i] = r
           /\ \A j \in DOMAIN s.records :
                 j # i => Changed(s, i, r, extra, intent, p).records[j] = s.records[j]
           /\ \A j \in 1..Len(extra) :
                 Changed(s, i, r, extra, intent, p).records[Len(s.records) + j] = extra[j]
<1> DEFINE rs == [s.records EXCEPT ![i] = r]
           all == rs \o extra
<1>0. /\ s \in State /\ i \in DOMAIN s.records /\ r \in Record /\ extra \in Seq(Record)
      /\ intent \in Intent \cup {<<>>} /\ p \in Pause
  BY DEF Changes
<1>1. s.records \in Seq(Record) /\ Len(s.records) \in Nat /\ DOMAIN s.records = 1..Len(s.records)
  BY <1>0, StateFields
<1>2. /\ rs \in Seq(Record) /\ Len(rs) = Len(s.records) /\ DOMAIN rs = DOMAIN s.records
      /\ rs[i] = r /\ \A j \in DOMAIN s.records : j # i => rs[j] = s.records[j]
  BY <1>0, <1>1, Replaced
<1> HIDE DEF rs
<1>3. /\ all \in Seq(Record) /\ Len(all) = Len(rs) + Len(extra)
      /\ \A j \in DOMAIN rs : all[j] = rs[j]
      /\ \A j \in 1..Len(extra) : all[Len(rs) + j] = extra[j]
  <2>1. /\ all \in Seq(Record) /\ Len(all) = Len(rs) + Len(extra)
        /\ \A j \in 1..(Len(rs) + Len(extra)) :
              all[j] = IF j <= Len(rs) THEN rs[j] ELSE extra[j - Len(rs)]
    BY <1>0, <1>2, ConcatProperties
  <2>2. Len(rs) \in Nat /\ DOMAIN rs = 1..Len(rs) /\ Len(extra) \in Nat
    BY <1>0, <1>2
  <2> HIDE DEF all
  <2>3. \A j \in 1..Len(rs) : j \in 1..(Len(rs) + Len(extra)) /\ j <= Len(rs)
    BY ONLY <2>2
  <2>4. \A j \in 1..Len(rs) : all[j] = rs[j]
    BY ONLY <2>1, <2>3
  <2>5. \A j \in 1..Len(extra) : /\ Len(rs) + j \in 1..(Len(rs) + Len(extra))
                                 /\ ~(Len(rs) + j <= Len(rs)) /\ (Len(rs) + j) - Len(rs) = j
    BY ONLY <2>2
  <2>6. \A j \in 1..Len(extra) : all[Len(rs) + j] = extra[j]
    <3> TAKE j \in 1..Len(extra)
    <3>1. all[Len(rs) + j] = extra[(Len(rs) + j) - Len(rs)]
      BY ONLY <2>1, <2>5
    <3>2. QED
      BY ONLY <2>5, <3>1
  <2>7. QED
    BY <2>1, <2>2, <2>4, <2>6
<1>4. Changed(s, i, r, extra, intent, p) = [records |-> all, intent |-> intent, paused |-> p]
  BY DEF Changed, rs
<1> HIDE DEF all
<1>5. /\ Changed(s, i, r, extra, intent, p) \in State
      /\ Changed(s, i, r, extra, intent, p).intent = intent
      /\ Changed(s, i, r, extra, intent, p).paused = p
      /\ Changed(s, i, r, extra, intent, p).records = all
  BY <1>0, <1>3, <1>4, NewState
<1>6. /\ Len(all) = Len(s.records) + Len(extra) /\ all[i] = r
      /\ \A j \in DOMAIN s.records : j # i => all[j] = s.records[j]
      /\ \A j \in 1..Len(extra) : all[Len(s.records) + j] = extra[j]
  BY ONLY <1>0, <1>2, <1>3
<1> DEFINE m == Changed(s, i, r, extra, intent, p)
<1> HIDE DEF m
<1>7. m \in State /\ m.intent = intent /\ m.paused = p /\ m.records = all
  BY <1>5 DEF m
<1>8. /\ m \in State /\ m.intent = intent /\ m.paused = p
      /\ Len(m.records) = Len(s.records) + Len(extra) /\ m.records[i] = r
      /\ \A j \in DOMAIN s.records : j # i => m.records[j] = s.records[j]
      /\ \A j \in 1..Len(extra) : m.records[Len(s.records) + j] = extra[j]
  BY ONLY <1>6, <1>7
<1> QED
  BY ONLY <1>8 DEF m

LEMMA ReportsTyped ==
    ASSUME TypeInv, NEW i \in DOMAIN mem.records, NEW id, Reports(i, id), start \in {"up", "probe"}
    PROVE  TypeInv'
<1> DEFINE r == mem.records[i]
           new == Updated(r, id)
           undo == new.src = "unconfirmed" /\ new.filled /\ ~Undone(mem.records, new)
           extra == IF undo THEN <<Undo(new)>> ELSE <<>>
           p == IF new.hedge = "error" THEN PauseFor("recon") ELSE mem.paused
<1>1. /\ Concerns(r, id) /\ retry = 0
      /\ mem' = [mem EXCEPT !.records = [@ EXCEPT ![i] = new] \o extra,
                            !.paused = IF new.hedge = "error" THEN PauseFor("recon") ELSE @]
      /\ retry' = IF new.hedge = "retrying" /\ new.src # "unconfirmed" THEN i ELSE 0
      /\ waiting' = waiting \cup {<<"report", 0>>}
      /\ UNCHANGED <<trades, lighter, refilled, events, ready, order, follow, start, crashes,
                     writes, file>>
  BY DEF Reports, Persist, truth, process
<1>2. mem \in State /\ mem.paused \in Pause /\ r \in Record /\ mem.intent \in Intent \cup {<<>>}
      /\ Len(mem.records) \in Nat /\ DOMAIN mem.records = 1..Len(mem.records)
  BY TypeInvParts, StateFields
<1>3. /\ id \in Ids
      /\ id \in Range(r.ids) \/ (r.hedge = "check" /\ r.ids = <<>>)
  BY <1>1, <1>2, ConcernedId
<1>4. /\ new \in Record /\ new.n = r.n /\ new.kind = r.kind /\ new.src = r.src
      /\ new.ids = (IF id \in Range(r.ids) THEN r.ids ELSE Append(r.ids, id))
      /\ new.hedge \in {"filled", "submitting", "submitted", "retrying", "error"}
      /\ new.hedge = "retrying" => Len(new.ids) < MaxTries
  <2>1. r \in Record /\ id \in Ids
    BY <1>2, <1>3
  <2> HIDE DEF r
  <2> DEFINE u == Updated(r, id)
  <2>2. /\ u \in Record /\ u.n = r.n /\ u.kind = r.kind /\ u.src = r.src
        /\ u.ids = (IF id \in Range(r.ids) THEN r.ids ELSE Append(r.ids, id))
        /\ u.hedge \in {"filled", "submitting", "submitted", "retrying", "error"}
        /\ u.hedge = "retrying" => Len(u.ids) < MaxTries
    BY ONLY <2>1, UpdatedIs
  <2>3. QED
    BY ONLY <2>2
<1> HIDE DEF new
<1>5. extra \in Seq(Record) /\ Len(extra) \in {0, 1}
      /\ \A j \in 1..Len(extra) : extra[j].n = r.n /\ extra[j].ids = <<>>
  <2>1. CASE undo
    <3>1. extra = <<Undo(new)>>
      BY <2>1
    <3>2. Undo(new) \in Record /\ Undo(new).n = r.n /\ Undo(new).ids = <<>>
      BY <1>4, UndoIs
    <3> HIDE DEF extra
    <3>3. QED
      BY <3>1, <3>2
  <2>2. CASE ~undo
    BY <2>2
  <2>3. QED
    BY <2>1, <2>2
<1>6. p \in Pause /\ (mem.paused # "-" => p # "-")
  BY <1>2, PauseIs
<1>7. mem' = Changed(mem, i, new, extra, mem.intent, p)
  BY <1>1, <1>2 DEF Changed, State
<1> HIDE DEF extra, p
<1>8. i \in DOMAIN mem.records /\ mem \in State /\ new \in Record /\ extra \in Seq(Record)
      /\ p \in Pause /\ mem.intent \in Intent \cup {<<>>}
  BY <1>2, <1>4, <1>5, <1>6
<1>9. /\ mem' \in State /\ mem'.intent = mem.intent /\ mem'.paused = p
      /\ Len(mem'.records) = Len(mem.records) + Len(extra) /\ mem'.records[i] = new
      /\ \A j \in DOMAIN mem.records : j # i => mem'.records[j] = mem.records[j]
      /\ \A j \in 1..Len(extra) : mem'.records[Len(mem.records) + j] = extra[j]
  <2> DEFINE m == Changed(mem, i, new, extra, mem.intent, p)
  <2>1. /\ m \in State /\ m.intent = mem.intent /\ m.paused = p
        /\ Len(m.records) = Len(mem.records) + Len(extra) /\ m.records[i] = new
        /\ \A j \in DOMAIN mem.records : j # i => m.records[j] = mem.records[j]
        /\ \A j \in 1..Len(extra) : m.records[Len(mem.records) + j] = extra[j]
    <3>1. Changes(mem, i, new, extra, mem.intent, p)
      BY <1>8 DEF Changes
    <3>2. QED
      BY ONLY <3>1, ChangedIs
  <2>2. mem' = m
    BY <1>7
  <2> HIDE DEF m
  <2>3. QED
    BY ONLY <2>1, <2>2
<1>10. \A j \in DOMAIN mem'.records \ DOMAIN mem.records :
          mem'.records[j].n = new.n /\ mem'.records[j].ids = <<>>
  <2>1. DOMAIN mem'.records = 1..(Len(mem.records) + Len(extra))
    BY <1>9, StateFields
  <2>2. \A j \in DOMAIN mem'.records \ DOMAIN mem.records : j = Len(mem.records) + 1 /\ Len(extra) = 1
    BY <1>2, <1>5, <2>1
  <2>3. QED
    BY <1>4, <1>5, <1>9, <2>2
<1>11. Limit \in Nat /\ Limit >= MaxTries /\ Limit >= 1
  BY TypeInvParts, ConstantsAre DEF Limit, WorldTyped
<1>12. Len(new.ids) <= Limit
  <2>1. Len(r.ids) <= Limit
    BY TypeInvParts DEF Fits, Attempted
  <2>2. CASE id \in Range(r.ids)
    BY <1>4, <2>1, <2>2
  <2>3. CASE id \notin Range(r.ids)
    <3>1. new.ids = Append(<<>>, id)
      BY <1>3, <1>4, <2>3
    <3>2. Len(new.ids) = 1
      BY <3>1
    <3>3. QED
      BY <1>11, <3>2
  <2>4. QED
    BY <2>2, <2>3
<1>13. new.hedge \in Sends => Len(new.ids) < Limit
  <2>1. Len(new.ids) \in Nat
    BY <1>4, RecordFields
  <2>2. QED
    BY <1>4, <1>11, <2>1, ConstantsAre DEF Sends
<1>14. r.hedge # "waiting" \/ r.ids # <<>>
  <2>1. Range(<<>>) = {}
    BY DEF Range
  <2>2. QED
    BY <1>3, <2>1
<1>15. Len(mem.records) <= Len(mem'.records)
  BY <1>2, <1>5, <1>9
<1>16. waiting' \subseteq Savers /\ lighter \in [Ids -> {"none", "sent", "filled", "dead"}]
       /\ refilled \in BOOLEAN /\ retry' \in 0..Len(mem.records)
       /\ (retry' # 0 => mem'.records[retry'].hedge = "retrying")
  BY <1>1, <1>2, <1>9, TypeInvParts DEF PlacesTyped, WorldTyped, Savers
<1> HIDE DEF r, undo
<1>17. QED
  BY <1>1, <1>4, <1>6, <1>9, <1>10, <1>12, <1>13, <1>14, <1>15, <1>16, EditStep DEF r

\* A step that clears the intent, when nothing is under way at Variational.
LEMMA ClearStep ==
    ASSUME TypeInv, mem' \in State, mem'.intent = <<>>, Grown(mem.records, mem'.records),
           \A i \in DOMAIN mem'.records :
              /\ mem'.records[i].n \in 1..Len(trades) /\ Len(mem'.records[i].ids) <= Limit
              /\ mem'.records[i].hedge \in Sends => Len(mem'.records[i].ids) < Limit,
           \A n \in DOMAIN trades : trades[n].state \in {"executed", "void"},
           start # "down", start' \in {"prepare", "probe", "finish", "reconcile", "up"},
           start' # "up" => follow' = 0 /\ ~ready',
           order' = "idle", events' = {}, ready' \in BOOLEAN,
           waiting \subseteq waiting', waiting' \subseteq Savers,
           follow' \in 0 .. Len(mem'.records),
           retry' = retry, retry # 0 => mem'.records[retry].hedge = "retrying",
           UNCHANGED <<trades, lighter, refilled, crashes, writes, file>>
    PROVE  TypeInv'
<1> USE TypeInvParts
<1>1. Limit' = Limit /\ OnDisk' = OnDisk
  BY DEF Limit, OnDisk
<1>2. Attempted(mem', Limit) /\ Intended(mem, mem')
  BY DEF Attempted, Intended
<1>3. Fits(mem', Len(trades), Limit)
  BY <1>2, FitsStep
<1>4. MaySend'
  BY <1>1 DEF MaySend
<1>5. WorldTyped'
  BY DEF WorldTyped
<1>6. PlacesTyped' /\ OneWrite'
  <2>1. retry' \in 0..Len(mem'.records)
    BY StateFields DEF PlacesTyped, Grown
  <2>2. QED
    BY <2>1 DEF PlacesTyped, OneWrite
<1>7. StatesFit'
  BY <1>1, <1>3, <1>5, DiskFits, LimitIs
<1>8. DownHolds' /\ StartHolds' /\ OrderHolds' /\ IdleHolds' /\ EventHolds'
  BY DEF DownHolds, StartHolds, OrderHolds, IdleHolds, EventHolds
<1>9. TradeHolds'
  BY DEF TradeHolds
<1> QED
  BY <1>4, <1>5, <1>6, <1>7, <1>8, <1>9 DEF TypeInv, Typed, Control

\* A step of the start that changes the state of hedges only.
LEMMA StageStep ==
    ASSUME TypeInv, mem' \in State, mem'.intent = mem.intent,
           SameRecords(mem.records, mem'.records),
           \A i \in DOMAIN mem.records :
              /\ mem'.records[i].src = mem.records[i].src
              /\ mem'.records[i].ids = mem.records[i].ids
              /\ mem'.records[i].hedge \in Sends => Len(mem.records[i].ids) < Limit,
           start \notin {"up", "down"}, start' \in {"prepare", "probe", "finish", "reconcile"},
           waiting \subseteq waiting', waiting' \subseteq Savers,
           retry # 0 => mem'.records[retry].hedge = "retrying",
           UNCHANGED <<trades, events, lighter, refilled, ready, order, follow, retry, crashes,
                       writes, file>>
    PROVE  TypeInv'
<1> USE TypeInvParts
<1>1. Limit' = Limit /\ OnDisk' = OnDisk
  BY DEF Limit, OnDisk
<1>2. Len(mem'.records) = Len(mem.records) /\ DOMAIN mem'.records = DOMAIN mem.records
  BY StateFields DEF SameRecords
<1>3. Attempted(mem', Limit) /\ Intended(mem, mem')
  BY <1>2 DEF Fits, Attempted, Intended
<1>4. Fits(mem', Len(trades), Limit)
  BY <1>3, FitsEdited
<1>5. MaySend'
  BY <1>1, <1>2 DEF MaySend
<1>6. WorldTyped'
  BY DEF WorldTyped
<1>7. PlacesTyped' /\ OneWrite'
  BY <1>2 DEF PlacesTyped, OneWrite
<1>8. StatesFit'
  BY <1>1, <1>4, <1>6, DiskFits, LimitIs
<1>9. DownHolds' /\ StartHolds' /\ OrderHolds' /\ IdleHolds' /\ EventHolds'
  BY DEF DownHolds, StartHolds, OrderHolds, IdleHolds, EventHolds
<1>10. TradeHolds'
  BY DEF TradeHolds, Owns
<1> QED
  BY <1>5, <1>6, <1>7, <1>8, <1>9, <1>10 DEF TypeInv, Typed, Control

\* A step that only pauses, or sets what waits to be written.
LEMMA PauseStep ==
    ASSUME TypeInv, mem' \in State, mem'.records = mem.records, mem'.intent = mem.intent,
           mem.paused # "-" => mem'.paused # "-",
           start # "down", start' \in {start, "up"}, ready' \in BOOLEAN,
           ready' = ready \/ order = "idle", start' = "up" \/ ~ready',
           waiting \subseteq waiting', waiting' \subseteq Savers,
           start' = "up" \/ start' # "inspect" \/ start = "inspect",
           UNCHANGED <<trades, events, lighter, refilled, order, follow, retry, crashes, writes, file>>
    PROVE  TypeInv'
<1> USE TypeInvParts
<1>1. Limit' = Limit /\ OnDisk' = OnDisk
  BY DEF Limit, OnDisk
<1>2. Attempted(mem', Limit) /\ Intended(mem, mem') /\ SameRecords(mem.records, mem'.records)
  BY DEF Fits, Attempted, Intended, SameRecords
<1>3. Fits(mem', Len(trades), Limit)
  BY <1>2, FitsEdited
<1>4. MaySend'
  BY <1>1 DEF MaySend
<1>5. WorldTyped'
  BY DEF WorldTyped
<1>6. PlacesTyped' /\ OneWrite'
  BY DEF PlacesTyped, OneWrite
<1>7. StatesFit'
  BY <1>1, <1>3, <1>5, DiskFits, LimitIs
<1>8. DownHolds' /\ StartHolds' /\ OrderHolds' /\ IdleHolds'
  BY DEF DownHolds, StartHolds, OrderHolds, IdleHolds
<1>9. TradeHolds' /\ EventHolds'
  BY DEF TradeHolds, EventHolds, Owns, StartHolds
<1> QED
  BY <1>4, <1>5, <1>6, <1>7, <1>8, <1>9 DEF TypeInv, Typed, Control

\* What a reconciliation leaves: a match clears the intent, a mismatch pauses.
LEMMA ReconciledTyped ==
    ASSUME TypeInv, Reconciled, order = "idle", events = {}, follow = 0, start # "down",
           \A n \in DOMAIN trades : trades[n].state \in {"executed", "void"},
           start' = "up", waiting' = waiting \cup {<<"dog", 0>>},
           UNCHANGED <<trades, lighter, refilled, events, order, follow, retry, crashes, writes, file>>
    PROVE  TypeInv'
<1> USE TypeInvParts
<1>1. mem.paused \in Pause /\ waiting' \subseteq Savers
  BY StateFields DEF PlacesTyped, Savers
<1>2. CASE PositionsMatch
  <2>1. mem' = [mem EXCEPT !.intent = <<>>, !.paused = IF @ = "other" THEN @ ELSE "-"] /\ ready'
    BY <1>2 DEF Reconciled
  <2>2. mem' \in State /\ mem'.intent = <<>> /\ mem'.records = mem.records
    BY <1>1, <2>1 DEF State, Pause
  <2>3. Grown(mem.records, mem'.records)
    BY <2>2, StateFields DEF Grown
  <2>4. \A i \in DOMAIN mem'.records :
              /\ mem'.records[i].n \in 1..Len(trades) /\ Len(mem'.records[i].ids) <= Limit
              /\ mem'.records[i].hedge \in Sends => Len(mem'.records[i].ids) < Limit
    BY <2>2 DEF Fits, Numbered, Attempted, MaySend
  <2>5. retry # 0 => mem'.records[retry].hedge = "retrying"
    BY <2>2 DEF MaySend
  <2>6. 0 \in 0..Len(mem'.records) /\ ready' \in BOOLEAN
    BY <2>1, <2>2, StateFields, <1>2 DEF Reconciled
  <2>7. QED
    BY <1>1, <2>2, <2>3, <2>4, <2>5, <2>6, ClearStep
<1>3. CASE ~PositionsMatch
  <2>1. mem' = [mem EXCEPT !.paused = PauseFor("recon")] /\ ready' = FALSE
    BY <1>3 DEF Reconciled
  <2>2. mem' \in State /\ mem'.intent = mem.intent /\ mem'.records = mem.records
        /\ mem'.paused # "-"
    <3>1. PauseFor("recon") \in Pause /\ PauseFor("recon") # "-"
      BY PauseIs
    <3>2. QED
      BY <2>1, <3>1 DEF State, Pause
  <2>3. QED
    BY <1>1, <2>1, <2>2, PauseStep
<1> QED
  BY <1>2, <1>3

LEMMA ReconcileTyped == TypeInv /\ Reconcile => TypeInv'
<1> SUFFICES ASSUME TypeInv, Reconcile PROVE TypeInv'
  OBVIOUS
<1>1. /\ Reconciled /\ order = "idle" /\ events = {} /\ follow = 0 /\ start = "up" /\ start' = "up"
      /\ waiting' = waiting \cup {<<"dog", 0>>}
      /\ \A n \in DOMAIN trades : trades[n].state \notin {"sent", "accepted"}
      /\ UNCHANGED <<trades, lighter, refilled, events, order, follow, retry, crashes, writes, file>>
  BY DEF Reconcile, OrderInflight, Persist, truth, process
<1>2. ASSUME NEW n \in DOMAIN trades PROVE trades[n].state \in {"executed", "void"}
  <2>1. trades[n].state \in {"quoted", "sent", "accepted", "executed", "void"}
    BY TypeInvParts, TradeFields
  <2>2. trades[n].state # "quoted"
    BY <1>1, TypeInvParts DEF TradeHolds
  <2>3. QED
    BY <1>1, <2>1, <2>2
<1> QED
  BY <1>1, <1>2, ReconciledTyped

LEMMA ReconcileAtStartTyped == TypeInv /\ ReconcileAtStart => TypeInv'
<1> SUFFICES ASSUME TypeInv, ReconcileAtStart PROVE TypeInv'
  OBVIOUS
<1>1. /\ Reconciled /\ start = "reconcile" /\ start' = "up"
      /\ waiting' = waiting \cup {<<"dog", 0>>}
      /\ UNCHANGED <<trades, lighter, refilled, events, order, follow, retry, crashes, writes, file>>
  BY DEF ReconcileAtStart, Stage, Persist, truth
<1>2. /\ order = "idle" /\ events = {} /\ follow = 0
      /\ \A n \in DOMAIN trades : trades[n].state \in {"executed", "void"}
  BY <1>1, TypeInvParts DEF StartHolds
<1> QED
  BY <1>1, <1>2, ReconciledTyped

\* The intent of an order that is executed no more: it is the last one's.
LEMMA RollbackIs ==
    ASSUME TypeInv, start = "up", mem.intent # <<>>, mem.intent.provisional,
           trades[mem.intent.n].state = "void"
    PROVE  /\ order = "idle" /\ events = {}
           /\ \A n \in DOMAIN trades : trades[n].state \in {"executed", "void"}
<1> USE TypeInvParts
<1>1. order = "idle"
  BY DEF OrderHolds
<1>2. events = {}
  BY DEF EventHolds, Owns
<1>3. ASSUME NEW n \in DOMAIN trades PROVE trades[n].state \in {"executed", "void"}
  <2>1. trades[n].state \in {"quoted", "sent", "accepted", "executed", "void"}
    BY TradeFields
  <2>2. trades[n].state \notin {"quoted", "sent", "accepted"}
    BY <1>1 DEF TradeHolds, Owns
  <2>3. QED
    BY <2>1, <2>2
<1> QED
  BY <1>1, <1>2, <1>3

\* What a rollback makes of a state: the record of the Commit is unconfirmed, and undone when
\* it was hedged.
LEMMA RolledBackIs ==
    ASSUME NEW s \in State, s.intent # <<>>, NEW i \in DOMAIN s.records,
           i = RecordOf(s.records, s.intent.n)
    PROVE  /\ RolledBack(s) \in State /\ RolledBack(s).intent = <<>> /\ RolledBack(s).paused = "other"
           /\ Grown(s.records, RolledBack(s).records)
           /\ \A j \in DOMAIN s.records :
                 RolledBack(s).records[j] = IF j = i THEN [s.records[i] EXCEPT !.src = "unconfirmed"]
                                            ELSE s.records[j]
           /\ \A j \in DOMAIN RolledBack(s).records \ DOMAIN s.records :
                 /\ j = Len(s.records) + 1 /\ s.records[i].filled
                 /\ RolledBack(s).records[j] = Undo(s.records[i])
           /\ s.records[i].filled => Len(s.records) + 1 \in DOMAIN RolledBack(s).records
<1> DEFINE r == s.records[i]
           new == [r EXCEPT !.src = "unconfirmed"]
           extra == IF r.filled THEN <<Undo(r)>> ELSE <<>>
           m == Changed(s, i, new, extra, <<>>, "other")
<1>1. Len(s.records) \in Nat /\ DOMAIN s.records = 1..Len(s.records) /\ r \in Record
  BY StateFields
<1>2. new \in Record /\ new.n = r.n /\ new.kind = r.kind
  BY <1>1, SetSource DEF Source
<1>3. /\ extra \in Seq(Record)
      /\ r.filled => Len(extra) = 1 /\ extra[1] = Undo(r)
      /\ ~r.filled => Len(extra) = 0
      /\ Len(extra) \in {0, 1} /\ (Len(extra) = 1 => r.filled)
  <2>1. Undo(r) \in Record
    BY <1>1, UndoIs
  <2>2. QED
    BY <2>1
<1>4. RolledBack(s) = m
  <2>1. RolledBack(s) = [s EXCEPT !.intent = <<>>, !.paused = "other",
                                  !.records = [@ EXCEPT ![i].src = "unconfirmed"] \o extra]
    BY DEF RolledBack
  <2>2. [s.records EXCEPT ![i].src = "unconfirmed"] = [s.records EXCEPT ![i] = new]
    OBVIOUS
  <2> HIDE DEF extra, new
  <2>3. QED
    BY <2>1, <2>2 DEF Changed, State
<1> HIDE DEF extra
<1>5. Changes(s, i, new, extra, <<>>, "other")
  BY <1>2, <1>3 DEF Changes, Pause
<1> HIDE DEF new
<1>6. /\ m \in State /\ m.intent = <<>> /\ m.paused = "other"
      /\ Len(m.records) = Len(s.records) + Len(extra) /\ m.records[i] = new
      /\ \A j \in DOMAIN s.records : j # i => m.records[j] = s.records[j]
      /\ \A j \in 1..Len(extra) : m.records[Len(s.records) + j] = extra[j]
  BY ONLY <1>5, ChangedIs
<1> HIDE DEF m
<1>7. DOMAIN m.records = 1..(Len(s.records) + Len(extra))
  BY <1>6, StateFields
<1>8. Grown(s.records, m.records)
  <2>1. Len(s.records) <= Len(m.records)
    <3>1. Len(extra) \in {0, 1} /\ Len(s.records) \in Nat
      BY <1>1, <1>3
    <3>2. QED
      BY ONLY <1>6, <3>1
  <2>2. \A j \in DOMAIN s.records : m.records[j].n = s.records[j].n /\ m.records[j].kind = s.records[j].kind
    BY <1>2, <1>6
  <2>3. QED
    BY <2>1, <2>2 DEF Grown
<1>9. \A j \in DOMAIN m.records \ DOMAIN s.records :
         j = Len(s.records) + 1 /\ r.filled /\ m.records[j] = Undo(r)
  <2>1. \A j \in DOMAIN m.records \ DOMAIN s.records : j = Len(s.records) + 1 /\ Len(extra) = 1
    <3>1. Len(extra) \in {0, 1} /\ Len(s.records) \in Nat
      BY <1>1, <1>3
    <3>2. \A a, b \in Nat : b \in {0, 1} =>
             \A j \in 1..(a + b) : j \notin 1..a => j = a + 1 /\ b = 1
      OBVIOUS
    <3>4. \A j \in 1..(Len(s.records) + Len(extra)) : j \notin 1..Len(s.records) =>
             j = Len(s.records) + 1 /\ Len(extra) = 1
      <4>1. Len(extra) \in Nat
        BY <3>1
      <4>2. QED
        BY ONLY <3>1, <3>2, <4>1
    <3>3. QED
      BY ONLY <1>1, <1>7, <3>4
  <2>2. QED
    BY <1>3, <1>6, <2>1
<1>10. r.filled => Len(s.records) + 1 \in DOMAIN m.records
  <2>1. ASSUME Len(extra) = 1 PROVE Len(s.records) + 1 \in DOMAIN m.records
    BY ONLY <1>1, <1>7, <2>1
  <2>2. QED
    BY <1>3, <2>1
<1> QED
  BY <1>4, <1>6, <1>8, <1>9, <1>10 DEF new

LEMMA RollsBack ==
    ASSUME TypeInv, NEW s \in State, s.intent = mem.intent, mem.intent # <<>>,
           mem.intent.provisional \/ Accepted(mem.intent),
           SameRecords(mem.records, s.records),
           \A i \in DOMAIN s.records :
              /\ Len(s.records[i].ids) <= Limit
              /\ s.records[i].hedge \in Sends => Len(s.records[i].ids) < Limit,
           retry # 0 => s.records[retry].hedge = "retrying",
           mem' = RolledBack(s),
           \A n \in DOMAIN trades : trades[n].state \in {"executed", "void"},
           start # "down", start' \in {"reconcile", "up"}, start' # "up" => follow = 0 /\ ~ready,
           order = "idle", events = {},
           waiting \subseteq waiting', waiting' \subseteq Savers,
           UNCHANGED <<trades, events, lighter, refilled, ready, order, follow, retry, crashes,
                       writes, file>>
    PROVE  TypeInv'
<1> DEFINE i == RecordOf(s.records, s.intent.n)
<1>1. /\ Len(s.records) \in Nat /\ DOMAIN s.records = 1..Len(s.records)
      /\ \A j \in DOMAIN s.records : s.records[j] \in Record
      /\ Len(mem.records) = Len(s.records) /\ DOMAIN mem.records = DOMAIN s.records
      /\ s.records \in Seq(Record)
  BY TypeInvParts, StateFields DEF SameRecords
<1>2. \E j \in DOMAIN mem.records : OrderOf(mem.records[j], mem.intent.n)
  BY TypeInvParts DEF Fits, Provided
<1>3. \E j \in DOMAIN s.records : OrderOf(s.records[j], s.intent.n)
  BY <1>1, <1>2 DEF OrderOf, SameRecords
<1>4. i \in DOMAIN s.records
  BY <1>1, <1>3, RecordOfIs
<1> HIDE DEF i
<1>5. /\ mem' \in State /\ mem'.intent = <<>> /\ Grown(s.records, mem'.records)
      /\ \A j \in DOMAIN s.records :
            mem'.records[j] = IF j = i THEN [s.records[i] EXCEPT !.src = "unconfirmed"]
                              ELSE s.records[j]
      /\ \A j \in DOMAIN mem'.records \ DOMAIN s.records : mem'.records[j] = Undo(s.records[i])
  BY <1>4, RolledBackIs DEF i
<1>6. \A j \in DOMAIN s.records :
         /\ mem'.records[j].ids = s.records[j].ids /\ mem'.records[j].hedge = s.records[j].hedge
         /\ mem'.records[j].n = s.records[j].n
  <2> TAKE j \in DOMAIN s.records
  <2> DEFINE q == [s.records[i] EXCEPT !.src = "unconfirmed"]
  <2>1. q.ids = s.records[i].ids /\ q.hedge = s.records[i].hedge /\ q.n = s.records[i].n
    BY <1>1, <1>4, SetSource DEF Source
  <2>2. mem'.records[j] = IF j = i THEN q ELSE s.records[j]
    BY <1>5
  <2> HIDE DEF q
  <2>3. QED
    BY <2>1, <2>2
<1>7. Undo(s.records[i]).n = s.records[i].n /\ Undo(s.records[i]).ids = <<>>
  BY <1>1, <1>4, UndoIs
<1>8. \A j \in DOMAIN s.records : s.records[j].n \in 1..Len(trades)
  BY <1>1, TypeInvParts DEF SameRecords, Fits, Numbered
<1>9. \A j \in DOMAIN mem'.records :
              /\ mem'.records[j].n \in 1..Len(trades) /\ Len(mem'.records[j].ids) <= Limit
              /\ mem'.records[j].hedge \in Sends => Len(mem'.records[j].ids) < Limit
  <2> TAKE j \in DOMAIN mem'.records
  <2>1. CASE j \in DOMAIN s.records
    BY <1>6, <1>8, <2>1
  <2>2. CASE j \notin DOMAIN s.records
    <3>1. mem'.records[j] = Undo(s.records[i])
      BY <1>5, <2>2
    <3>2. Len(mem'.records[j].ids) = 0
      BY <1>7, <3>1
    <3>3. QED
      BY <1>4, <1>7, <1>8, <3>1, <3>2, TypeInvParts
  <2>3. QED
    BY <2>1, <2>2
<1>10. Grown(mem.records, mem'.records)
  BY <1>1, <1>5 DEF Grown, SameRecords
<1>11. follow \in 0..Len(mem.records) /\ retry \in 0..Len(mem.records) /\ ready \in BOOLEAN
  BY TypeInvParts DEF PlacesTyped, WorldTyped
<1>12. follow' \in 0..Len(mem'.records) /\ (retry # 0 => mem'.records[retry].hedge = "retrying")
  BY <1>1, <1>5, <1>6, <1>11, StateFields, SMTT(30) DEF Grown
<1> QED
  BY <1>5, <1>9, <1>10, <1>11, <1>12, ClearStep

LEMMA RollbackTyped == TypeInv /\ Rollback => TypeInv'
<1> SUFFICES ASSUME TypeInv, Rollback PROVE TypeInv'
  OBVIOUS
<1>1. /\ start = "up" /\ mem.intent # <<>> /\ mem.intent.provisional
      /\ trades[mem.intent.n].state = "void" /\ mem' = RolledBack(mem)
      /\ waiting' = waiting \cup {<<"dog", 0>>}
      /\ UNCHANGED <<trades, lighter, refilled, events, ready, order, follow, retry, start, crashes,
                     writes, file>>
  BY DEF Rollback, Persist, truth, runtime, process
<1>2. waiting' \subseteq Savers
  BY <1>1, TypeInvParts DEF PlacesTyped, Savers
<1>3. \A i \in DOMAIN mem.records :
              /\ Len(mem.records[i].ids) <= Limit
              /\ mem.records[i].hedge \in Sends => Len(mem.records[i].ids) < Limit
  BY TypeInvParts DEF Fits, Attempted, MaySend
<1>4. /\ retry # 0 => mem.records[retry].hedge = "retrying"
      /\ mem \in State /\ SameRecords(mem.records, mem.records)
  BY TypeInvParts DEF MaySend, SameRecords
<1>5. /\ order = "idle" /\ events = {}
      /\ \A n \in DOMAIN trades : trades[n].state \in {"executed", "void"}
  BY <1>1, RollbackIs
<1> QED
  BY <1>1, <1>2, <1>3, <1>4, <1>5, RollsBack

LEMMA StaysAmbiguousTyped == TypeInv /\ StaysAmbiguous => TypeInv'
<1> SUFFICES ASSUME TypeInv, StaysAmbiguous PROVE TypeInv'
  OBVIOUS
<1> DEFINE t == [mem.intent EXCEPT !.state = "ambiguous"]
           p == PauseFor("lacks")
<1>1. /\ start = "up" /\ mem.intent # <<>> /\ mem.intent.state = "committed"
      /\ mem' = [mem EXCEPT !.intent = t, !.paused = p]
      /\ waiting' = waiting \cup {<<"dog", 0>>}
      /\ UNCHANGED <<trades, lighter, refilled, events, ready, order, follow, retry, start, crashes,
                     writes, file>>
  BY DEF StaysAmbiguous, Persist, truth, runtime, process
<1>2. mem \in State /\ mem.intent \in Intent /\ p \in Pause /\ p # "-"
  BY <1>1, TypeInvParts, StateFields DEF PauseFor, Pause
<1>3. t \in Intent /\ t.n = mem.intent.n /\ t.state = "ambiguous"
      /\ t.provisional = mem.intent.provisional /\ t.confirmed = mem.intent.confirmed /\ t # <<>>
  BY <1>2, SetIntentState
<1> HIDE DEF t, p
<1>4. mem' \in State /\ mem'.records = mem.records /\ mem'.intent = t /\ mem'.paused = p
  BY <1>1, <1>2, <1>3 DEF State, Pause
<1>5. Intended(mem, mem')
  BY <1>1, <1>3, <1>4 DEF Intended, Accepted
<1>6. Fits(mem, Len(trades), Limit)' /\ MaySend' /\ Limit' = Limit /\ OnDisk' = OnDisk
  BY <1>1, <1>4, <1>5, IntentStep
<1>7. order = "idle"
  BY <1>1, TypeInvParts DEF OrderHolds
<1>8. WorldTyped' /\ PlacesTyped' /\ OneWrite'
  BY <1>1, <1>4, TypeInvParts DEF WorldTyped, PlacesTyped, OneWrite, Savers
<1>9. StatesFit'
  BY <1>1, <1>6, <1>8, TypeInvParts, DiskFits, LimitIs
<1>10. DownHolds' /\ StartHolds' /\ OrderHolds' /\ IdleHolds'
  BY <1>1, <1>3, <1>4, <1>7 DEF DownHolds, StartHolds, OrderHolds, IdleHolds
<1>11. TradeHolds'
  BY <1>1, <1>3, <1>4, TypeInvParts DEF TradeHolds, Owns
<1>12. EventHolds'
  BY <1>1, <1>2, <1>3, <1>4, TypeInvParts DEF EventHolds, Owns
<1> QED
  BY <1>6, <1>8, <1>9, <1>10, <1>11, <1>12 DEF TypeInv, Typed, Control

\* A state to which one record is added.
Extended(s, r, intent) == [records |-> Append(s.records, r), intent |-> intent, paused |-> s.paused]
Extends(s, r, intent) == s \in State /\ r \in Record /\ intent \in Intent \cup {<<>>}

LEMMA ExtendedIs ==
    ASSUME NEW s, NEW r, NEW intent, Extends(s, r, intent)
    PROVE  /\ Extended(s, r, intent) \in State /\ Extended(s, r, intent).intent = intent
           /\ Extended(s, r, intent).paused = s.paused
           /\ Extended(s, r, intent).records = Append(s.records, r)
           /\ Len(Extended(s, r, intent).records) = Len(s.records) + 1
           /\ DOMAIN Extended(s, r, intent).records = DOMAIN s.records \cup {Len(s.records) + 1}
           /\ Extended(s, r, intent).records[Len(s.records) + 1] = r
           /\ \A j \in DOMAIN s.records : Extended(s, r, intent).records[j] = s.records[j]
           /\ Grown(s.records, Extended(s, r, intent).records)
<1> DEFINE all == Append(s.records, r)
           m == Extended(s, r, intent)
<1>1. s \in State /\ r \in Record /\ intent \in Intent \cup {<<>>} /\ s.records \in Seq(Record)
      /\ Len(s.records) \in Nat /\ s.paused \in Pause
  BY StateFields DEF Extends
<1>2. /\ all \in Seq(Record) /\ Len(all) = Len(s.records) + 1
      /\ DOMAIN all = DOMAIN s.records \cup {Len(s.records) + 1}
      /\ all[Len(s.records) + 1] = r /\ \A i \in DOMAIN s.records : all[i] = s.records[i]
  BY <1>1, Added
<1>3. m = [records |-> all, intent |-> intent, paused |-> s.paused]
  BY DEF Extended
<1> HIDE DEF all, m
<1>4. m \in State /\ m.intent = intent /\ m.paused = s.paused /\ m.records = all
  BY <1>1, <1>2, <1>3, NewState
<1>5. Grown(s.records, m.records)
  BY <1>1, <1>2, <1>4 DEF Grown
<1>6. /\ m \in State /\ m.intent = intent /\ m.paused = s.paused /\ m.records = Append(s.records, r)
      /\ Len(m.records) = Len(s.records) + 1
      /\ DOMAIN m.records = DOMAIN s.records \cup {Len(s.records) + 1}
      /\ m.records[Len(s.records) + 1] = r
      /\ \A j \in DOMAIN s.records : m.records[j] = s.records[j]
      /\ Grown(s.records, m.records)
  BY <1>2, <1>4, <1>5 DEF all
<1> QED
  BY ONLY <1>6 DEF m

LEMMA NewRecordIs ==
    ASSUME trades \in Seq(Trade), NEW n \in DOMAIN trades, n \in Numbers, NEW src \in Source
    PROVE  /\ NewRecord(n, src) \in Record /\ NewRecord(n, src).n = n
           /\ NewRecord(n, src).kind = trades[n].kind /\ NewRecord(n, src).auto = trades[n].auto
           /\ NewRecord(n, src).src = src /\ NewRecord(n, src).hedge = "none"
           /\ NewRecord(n, src).ids = <<>> /\ NewRecord(n, src).reserved = trades[n].auto
           /\ NewRecord(n, src).final = {} /\ NewRecord(n, src).filled = FALSE
<1>1. trades[n].kind \in {"open", "close"} /\ trades[n].auto \in BOOLEAN
  BY TradeFields
<1>2. <<>> \in Seq(Ids)
  OBVIOUS
<1> QED
  BY <1>1, <1>2 DEF NewRecord, Record, Source

\* What a fill makes of a state: its record is confirmed, or added.
LEMMA EnteredIs ==
    ASSUME trades \in Seq(Trade), NEW s \in State, NEW n \in DOMAIN trades, n \in Numbers, NEW src
    PROVE  /\ Owned(s, n) /\ s.intent.provisional =>
                LET k == RecordOf(s.records, n)
                IN  Entered(s, n, src) =
                       Changed(s, k, [s.records[k] EXCEPT !.src = src], <<>>, <<>>, s.paused)
           /\ ~(Owned(s, n) /\ s.intent.provisional) /\ Early(s, n) =>
                Entered(s, n, src) = Extended(s, [NewRecord(n, src) EXCEPT !.hedge = "waiting"],
                                              [s.intent EXCEPT !.confirmed = TRUE])
           /\ ~(Owned(s, n) /\ s.intent.provisional) /\ ~Early(s, n) =>
                Entered(s, n, src) = Extended(s, NewRecord(n, src), <<>>)
<1>1. s.records \in Seq(Record)
  BY StateFields
<1>2. CASE Owned(s, n) /\ s.intent.provisional
  <2> DEFINE k == RecordOf(s.records, n)
             rs == [s.records EXCEPT ![k].src = src]
  <2>1. Entered(s, n, src) = [s EXCEPT !.intent = <<>>, !.records = rs]
    BY <1>2 DEF Entered
  <2>2. rs = [s.records EXCEPT ![k] = [s.records[k] EXCEPT !.src = src]]
    OBVIOUS
  <2>3. rs \o <<>> = rs
    <3> DEFINE q == [s.records[k] EXCEPT !.src = src]
               T == Record \cup {q}
    <3>1. s.records \in Seq(T) /\ q \in T
      BY <1>1
    <3>2. rs = [s.records EXCEPT ![k] = q]
      BY <2>2
    <3> HIDE DEF q, T, k, rs
    <3>5. rs = [j \in 1..Len(s.records) |-> IF j = k THEN q ELSE s.records[j]]
      BY ONLY <3>1, <3>2
    <3>6. Len(s.records) \in Nat /\ \A j \in 1..Len(s.records) : s.records[j] \in T
      BY ONLY <3>1
    <3>3. rs \in Seq(T)
      BY ONLY <3>1, <3>5, <3>6
    <3>4. QED
      BY <3>3, ConcatEmptySeq
  <2> HIDE DEF k, rs
  <2>4. QED
    BY <1>2, <2>1, <2>2, <2>3 DEF Changed, State, k
<1>3. CASE ~(Owned(s, n) /\ s.intent.provisional) /\ Early(s, n)
  BY <1>3 DEF Entered, Extended, State
<1>4. CASE ~(Owned(s, n) /\ s.intent.provisional) /\ ~Early(s, n)
  BY <1>4 DEF Entered, Extended, State
<1> QED
  BY <1>2, <1>3, <1>4

\* A fill that is not an early one clears the intent; its record is the one of the Commit, or new.
LEMMA EnteredClears ==
    ASSUME TypeInv, NEW s \in State, s.records = mem.records, NEW n \in DOMAIN trades,
           NEW src \in {"event", "portfolio"},
           Owned(s, n) /\ s.intent.provisional => Owned(mem, n) /\ mem.intent.provisional,
           ~Early(s, n) \/ (Owned(s, n) /\ s.intent.provisional)
    PROVE  LET m == Entered(s, n, src)
           IN  /\ m \in State /\ m.intent = <<>> /\ m.paused = s.paused
               /\ Grown(mem.records, m.records)
               /\ \A j \in DOMAIN mem.records :
                     m.records[j].ids = mem.records[j].ids /\ m.records[j].hedge = mem.records[j].hedge
               /\ \A j \in DOMAIN m.records \ DOMAIN mem.records :
                     m.records[j].ids = <<>> /\ m.records[j].n = n
               /\ Len(m.records) > 0
               /\ Owned(s, n) /\ s.intent.provisional => RecordOf(m.records, n) \in DOMAIN m.records
<1> DEFINE m == Entered(s, n, src)
           k == RecordOf(mem.records, n)
<1>1. /\ trades \in Seq(Trade) /\ n \in Numbers /\ src \in Source
      /\ s.records \in Seq(Record) /\ Len(mem.records) \in Nat /\ mem.records \in Seq(Record)
      /\ DOMAIN mem.records = 1..Len(mem.records) /\ s.paused \in Pause
      /\ \A j \in DOMAIN mem.records : mem.records[j] \in Record
  <2>1. n \in Numbers
    BY TypeInvParts DEF WorldTyped, Numbers
  <2>2. QED
    BY <2>1, TypeInvParts, StateFields DEF Source
<1>2. CASE Owned(s, n) /\ s.intent.provisional
  <2> DEFINE r == mem.records[k]
             new == [r EXCEPT !.src = src]
  <2>1. \E j \in DOMAIN mem.records : OrderOf(mem.records[j], n)
    BY <1>2, TypeInvParts DEF Fits, Provided, Owned
  <2>2. k \in DOMAIN mem.records /\ OrderOf(mem.records[k], n)
    BY <1>1, <2>1, RecordOfIs
  <2>3. m = Changed(s, k, new, <<>>, <<>>, s.paused)
    BY <1>1, <1>2, EnteredIs
  <2>4. /\ new \in Record /\ new.n = r.n /\ new.kind = r.kind /\ new.ids = r.ids /\ new.hedge = r.hedge
    BY <1>1, <2>2, SetSource
  <2> HIDE DEF k, new, m
  <2>5. Changes(s, k, new, <<>>, <<>>, s.paused)
    <3>1. <<>> \in Seq(Record)
      OBVIOUS
    <3>2. QED
      BY <1>1, <2>2, <2>4, <3>1 DEF Changes
  <2>6. /\ m \in State /\ m.intent = <<>> /\ m.paused = s.paused
        /\ Len(m.records) = Len(s.records) + Len(<<>>) /\ m.records[k] = new
        /\ \A j \in DOMAIN s.records : j # k => m.records[j] = s.records[j]
    BY ONLY <2>3, <2>5, ChangedIs
  <2>7. Len(m.records) = Len(mem.records) /\ DOMAIN m.records = DOMAIN mem.records
        /\ m.records \in Seq(Record)
    <3>1. Len(<<>>) = 0
      OBVIOUS
    <3>2. QED
      BY <1>1, <2>6, <3>1, StateFields
  <2>8. \A j \in DOMAIN mem.records :
           /\ m.records[j].ids = mem.records[j].ids /\ m.records[j].hedge = mem.records[j].hedge
           /\ m.records[j].n = mem.records[j].n /\ m.records[j].kind = mem.records[j].kind
    BY <2>4, <2>6
  <2>9. Grown(mem.records, m.records)
    BY <1>1, <2>7, <2>8 DEF Grown
  <2>10. RecordOf(m.records, n) \in DOMAIN m.records
    <3>1. OrderOf(m.records[k], n)
      BY <2>2, <2>8 DEF OrderOf
    <3>2. QED
      BY <2>2, <2>7, <3>1, RecordOfIs
  <2>11. Len(m.records) > 0
    BY <1>1, <2>2, <2>7
  <2>12. QED
    BY <2>6, <2>7, <2>8, <2>9, <2>10, <2>11 DEF m
<1>3. CASE ~(Owned(s, n) /\ s.intent.provisional)
  <2>1. m = Extended(s, NewRecord(n, src), <<>>)
    BY <1>1, <1>3, EnteredIs
  <2>2. Extends(s, NewRecord(n, src), <<>>) /\ NewRecord(n, src).ids = <<>> /\ NewRecord(n, src).n = n
    BY <1>1, NewRecordIs DEF Extends
  <2> DEFINE new == NewRecord(n, src)
  <2> HIDE DEF m, new
  <2>3. /\ m \in State /\ m.intent = <<>> /\ m.paused = s.paused
        /\ Len(m.records) = Len(s.records) + 1
        /\ DOMAIN m.records = DOMAIN s.records \cup {Len(s.records) + 1}
        /\ m.records[Len(s.records) + 1] = new
        /\ \A j \in DOMAIN s.records : m.records[j] = s.records[j]
        /\ Grown(s.records, m.records)
    BY ONLY <2>1, <2>2, ExtendedIs DEF new
  <2>4. \A j \in DOMAIN m.records \ DOMAIN mem.records : m.records[j] = new
    BY <2>3
  <2>5. Len(m.records) > 0
    BY <1>1, <2>3
  <2>6. QED
    BY <1>3, <2>2, <2>3, <2>4, <2>5 DEF m, new
<1> QED
  BY <1>2, <1>3

LEMMA FeedEntersTyped == ASSUME TypeInv, NEW n \in events, FeedEnters(n) PROVE TypeInv'
<1>1. /\ start = "up" /\ follow = 0 /\ events' = events \ {n}
      /\ mem' = Entered(mem, n, "event") /\ follow' = RecordOf(mem'.records, n)
      /\ waiting' = waiting \cup {<<"feed", 0>>}
      /\ UNCHANGED <<trades, lighter, refilled, ready, order, retry, start, crashes, writes, file>>
  BY DEF FeedEnters, Persist, truth, process
<1>2. /\ n = Len(trades) /\ trades[n].state = "executed" /\ n \in DOMAIN trades /\ events' = {}
      /\ Owns(n) => ~mem.intent.confirmed
      /\ mem \in State /\ Len(mem.records) \in Nat /\ DOMAIN mem.records = 1..Len(mem.records)
  <2>1. \A k \in events : k = Len(trades)
    BY TypeInvParts DEF EventHolds
  <2>2. n \in DOMAIN trades /\ trades[n].state = "executed"
    BY TypeInvParts DEF EventHolds, WorldTyped
  <2>3. Owns(n) => ~mem.intent.confirmed
    BY TypeInvParts DEF EventHolds, Owns
  <2>4. QED
    BY <1>1, <2>1, <2>2, <2>3, TypeInvParts, StateFields
<1>3. waiting' \subseteq Savers /\ ready' \in BOOLEAN
  BY <1>1, TypeInvParts DEF PlacesTyped, WorldTyped, Savers
<1>4. CASE Early(mem, n) /\ ~mem.intent.provisional
  <2> DEFINE r == [NewRecord(n, "event") EXCEPT !.hedge = "waiting"]
             t == [mem.intent EXCEPT !.confirmed = TRUE]
  <2>1. mem.intent # <<>> /\ mem.intent.n = n /\ mem.intent.state = "committing" /\ mem.intent \in Intent
        /\ ~mem.intent.confirmed /\ ~mem.intent.provisional
    BY <1>2, <1>4, StateFields DEF Early, Owned, Owns
  <2>2. order = "sent"
    <3>1. order \in {"idle", "marked", "prepared", "sent"} /\ order # "idle"
      BY <2>1, TypeInvParts DEF WorldTyped, IdleHolds
    <3>2. QED
      BY <2>1, <3>1, TypeInvParts DEF OrderHolds
  <2>3. mem' = Extended(mem, r, t)
    <3>1. n \in Numbers /\ trades \in Seq(Trade)
      BY <2>1, IntentFields, TypeInvParts
    <3>2. QED
      BY <1>1, <1>2, <1>4, <3>1, EnteredIs
  <2>4. /\ r \in Record /\ r.n = n /\ r.kind = trades[n].kind /\ r.ids = <<>> /\ r.hedge = "waiting"
    <3>1. n \in Numbers /\ trades \in Seq(Trade) /\ "event" \in Source /\ "waiting" \in Hedge
      BY <2>1, IntentFields, TypeInvParts DEF Source, Hedge
    <3> DEFINE q == NewRecord(n, "event")
    <3>2. q \in Record /\ q.n = n /\ q.kind = trades[n].kind /\ q.ids = <<>>
      BY <1>2, <3>1, NewRecordIs, ZenonT(40)
    <3> HIDE DEF q
    <3>3. [q EXCEPT !.hedge = "waiting"] \in Record /\ [q EXCEPT !.hedge = "waiting"].n = q.n
          /\ [q EXCEPT !.hedge = "waiting"].kind = q.kind /\ [q EXCEPT !.hedge = "waiting"].ids = q.ids
          /\ [q EXCEPT !.hedge = "waiting"].hedge = "waiting"
      BY <3>1, <3>2, SetHedge
    <3>4. QED
      BY <3>2, <3>3 DEF q
  <2>5. t \in Intent /\ t # <<>> /\ t.n = n /\ t.state = "committing" /\ ~t.provisional /\ t.confirmed
    <3>1. t \in Intent
      BY <2>1 DEF Intent
    <3>2. QED
      BY <2>1, <3>1, IntentFields DEF Intent
  <2> HIDE DEF r, t
  <2>6. Extends(mem, r, t)
    BY <1>2, <2>4, <2>5 DEF Extends
  <2>7. /\ mem' \in State /\ mem'.intent = t /\ mem'.paused = mem.paused
        /\ Len(mem'.records) = Len(mem.records) + 1
        /\ DOMAIN mem'.records = DOMAIN mem.records \cup {Len(mem.records) + 1}
        /\ mem'.records[Len(mem.records) + 1] = r
        /\ \A j \in DOMAIN mem.records : mem'.records[j] = mem.records[j]
        /\ mem'.records = Append(mem.records, r)
    BY ONLY <2>3, <2>6, ExtendedIs
  <2>8. Limit' = Limit /\ OnDisk' = OnDisk /\ Limit \in Nat /\ Limit >= 1 /\ Len(r.ids) = 0
    BY <1>1, <2>4, TypeInvParts DEF Limit, OnDisk
  <2>9. Fits(mem', Len(trades), Limit)
    <3>1. Intended(mem, mem')
      BY <2>1, <2>5, <2>7 DEF Intended, Accepted
    <3>2. r.n \in 1..Len(trades)
      BY <1>2, <2>4, TypeInvParts
    <3>3. QED
      BY <2>4, <2>7, <2>8, <3>1, <3>2, TypeInvParts, FitsAdded
  <2>10. MaySend'
    <3>1. \A j \in DOMAIN mem'.records :
             mem'.records[j].hedge \in Sends => Len(mem'.records[j].ids) < Limit
      <4> TAKE j \in DOMAIN mem'.records
      <4>1. CASE j \in DOMAIN mem.records
        BY <2>7, <4>1, TypeInvParts DEF MaySend
      <4>2. CASE j \notin DOMAIN mem.records
        BY <2>7, <2>8, <4>2
      <4>3. QED
        BY <4>1, <4>2
    <3>2. retry # 0 => mem'.records[retry].hedge = "retrying"
      BY <1>2, <2>7, TypeInvParts DEF MaySend, PlacesTyped
    <3>3. QED
      BY <1>1, <2>8, <3>1, <3>2 DEF MaySend
  <2>11. WorldTyped'
    BY <1>1, <1>2, TypeInvParts DEF WorldTyped
  <2>12. PlacesTyped' /\ OneWrite'
    <3>1. follow' \in 0..Len(mem'.records)
      <4>1. mem'.records \in Seq(Record)
        BY <2>7, StateFields
      <4>2. QED
        BY <1>1, <4>1, RecordOfIs
    <3>2. retry' \in 0..Len(mem'.records)
      BY <1>1, <1>2, <2>7, TypeInvParts DEF PlacesTyped
    <3>3. QED
      BY <1>1, <1>3, <3>1, <3>2, TypeInvParts DEF PlacesTyped, OneWrite
  <2>13. StatesFit'
    BY <1>1, <2>8, <2>9, <2>11, TypeInvParts, DiskFits, LimitIs
  <2>14. DownHolds' /\ StartHolds' /\ IdleHolds' /\ EventHolds'
    BY <1>1, <1>2, <2>2 DEF DownHolds, StartHolds, IdleHolds, EventHolds
  <2>15. OrderHolds'
    <3>1. \A j \in DOMAIN mem.records : mem.records[j].n # Len(trades)
      BY <2>1, <2>2, TypeInvParts DEF OrderHolds
    <3>2. /\ start = "up" /\ ready /\ Len(trades) > 0 /\ trades[Len(trades)].auto
      BY <2>2, TypeInvParts DEF OrderHolds
    <3>3. trades[n].kind # "undo"
      BY <1>2, TypeInvParts, TradeFields
    <3>4. Len(mem.records) + 1 \in DOMAIN mem'.records /\ OrderOf(r, Len(trades))
          /\ \A j \in DOMAIN mem'.records : mem'.records[j].n = Len(trades) => j = Len(mem.records) + 1
      BY <1>2, <2>4, <2>7, <3>1, <3>3 DEF OrderOf
    <3>5. QED
      BY <1>1, <1>2, <2>2, <2>4, <2>5, <2>7, <3>2, <3>4 DEF OrderHolds
  <2>16. TradeHolds'
    BY <1>1, <1>2, <2>5, <2>7, TypeInvParts DEF TradeHolds, Owns
  <2>17. QED
    BY <2>10, <2>11, <2>12, <2>13, <2>14, <2>15, <2>16 DEF TypeInv, Typed, Control
<1>5. CASE ~Early(mem, n) \/ (Owned(mem, n) /\ mem.intent.provisional)
  <2> DEFINE m == Entered(mem, n, "event")
  <2>1. /\ m \in State /\ m.intent = <<>> /\ m.paused = mem.paused
        /\ Grown(mem.records, m.records)
        /\ \A j \in DOMAIN mem.records :
              m.records[j].ids = mem.records[j].ids /\ m.records[j].hedge = mem.records[j].hedge
        /\ \A j \in DOMAIN m.records \ DOMAIN mem.records :
              m.records[j].ids = <<>> /\ m.records[j].n = n
    BY <1>2, <1>5, EnteredClears
  <2>2. mem' = m
    BY <1>1
  <2> HIDE DEF m
  <2>3. order = "idle"
    <3>1. SUFFICES ASSUME order # "idle" PROVE FALSE
      OBVIOUS
    <3>2. /\ mem.intent # <<>> /\ mem.intent.n = n /\ ~mem.intent.provisional
          /\ mem.intent.state = (IF order = "marked" THEN "quoting"
                               ELSE IF order = "prepared" THEN "prepared" ELSE "committing")
          /\ trades[n].state \in (IF order = "sent" THEN {"sent", "executed", "void"} ELSE {"quoted"})
      BY <1>2, <3>1, TypeInvParts DEF OrderHolds
    <3>3. order = "sent"
      BY <1>2, <3>2
    <3>4. mem.intent.state = "committing"
      BY <3>2, <3>3
    <3>5. QED
      BY <1>5, <3>2, <3>4 DEF Early, Owned
  <2>4. \A j \in DOMAIN trades : trades[j].state \in {"executed", "void"}
    BY <1>2, TypeInvParts DEF TradeHolds
  <2>5. \A j \in DOMAIN m.records :
              /\ m.records[j].n \in 1..Len(trades) /\ Len(m.records[j].ids) <= Limit
              /\ m.records[j].hedge \in Sends => Len(m.records[j].ids) < Limit
    <3> TAKE j \in DOMAIN m.records
    <3>1. CASE j \in DOMAIN mem.records
      BY <2>1, <3>1, TypeInvParts DEF Grown, Fits, Numbered, Attempted, MaySend
    <3>2. CASE j \notin DOMAIN mem.records
      <4>1. Len(m.records[j].ids) = 0 /\ m.records[j].n = n
        BY <2>1, <3>2
      <4>2. QED
        BY <1>2, <4>1, TypeInvParts
    <3>3. QED
      BY <3>1, <3>2
  <2>6. follow' \in 0..Len(m.records)
    <3>1. m.records \in Seq(Record)
      BY <2>1, StateFields
    <3>2. QED
      BY <1>1, <2>2, <3>1, RecordOfIs
  <2>7. retry # 0 => m.records[retry].hedge = "retrying"
    BY <1>2, <2>1, TypeInvParts DEF MaySend, PlacesTyped
  <2>8. QED
    BY <1>1, <1>2, <1>3, <2>1, <2>2, <2>3, <2>4, <2>5, <2>6, <2>7, ClearStep
<1> QED
  <2>1. Early(mem, n) => Owned(mem, n)
    BY DEF Early
  <2>2. QED
    BY <1>4, <1>5, <2>1

LEMMA InspectTyped == TypeInv /\ Inspect => TypeInv'
<1> SUFFICES ASSUME TypeInv, Inspect PROVE TypeInv'
  OBVIOUS
<1>1. /\ start = "inspect" /\ start' = "prepare"
      /\ \/ mem.intent # <<>> /\ mem' = RecoveredFill /\ waiting' = waiting \cup {<<"start", 0>>}
         \/ mem' = mem /\ waiting' = waiting
      /\ UNCHANGED <<trades, lighter, refilled, events, ready, order, follow, retry, crashes,
                     writes, file>>
  BY DEF Inspect, Stage, Persist, NoSave, saving, truth, runtime
<1>2. /\ mem \in State /\ Len(mem.records) \in Nat /\ DOMAIN mem.records = 1..Len(mem.records)
      /\ \A j \in DOMAIN mem.records : mem.records[j] \in Record
  BY TypeInvParts, StateFields
<1>3. /\ order = "idle" /\ events = {} /\ follow = 0 /\ ~ready /\ retry = 0
      /\ \A n \in DOMAIN trades : trades[n].state \in {"executed", "void"}
      /\ \A j \in DOMAIN mem.records : Len(mem.records[j].ids) < Limit
  BY <1>1, TypeInvParts DEF StartHolds, MaySend
<1>4. waiting \subseteq waiting' /\ waiting' \subseteq Savers
  BY <1>1, TypeInvParts DEF PlacesTyped, Savers
<1>5. CASE mem' = mem /\ waiting' = waiting
  <2>1. \A i \in DOMAIN mem.records :
              /\ mem'.records[i].src = mem.records[i].src
              /\ mem'.records[i].ids = mem.records[i].ids
              /\ mem'.records[i].hedge \in Sends => Len(mem.records[i].ids) < Limit
    BY <1>3, <1>5
  <2>2. SameRecords(mem.records, mem'.records)
    BY <1>5 DEF SameRecords
  <2>3. QED
    BY <1>1, <1>2, <1>3, <1>4, <1>5, <2>1, <2>2, StageStep
<1>6. CASE mem.intent # <<>> /\ mem' = RecoveredFill /\ waiting' = waiting \cup {<<"start", 0>>}
  <2> DEFINE n == mem.intent.n
             s == [mem EXCEPT !.intent.confirmed = FALSE]
             t == [mem.intent EXCEPT !.confirmed = FALSE]
             m == Entered(s, n, "portfolio")
             i == IF mem.intent.provisional THEN RecordOf(m.records, n) ELSE Len(m.records)
  <2>1. mem.intent \in Intent /\ n \in DOMAIN trades /\ n \in Numbers
    BY <1>2, <1>6, StateFields, IntentFields, TypeInvParts DEF Fits, Numbered, WorldTyped
  <2>2. t \in Intent /\ t.n = n /\ t.state = mem.intent.state /\ t.provisional = mem.intent.provisional
        /\ t # <<>>
    <3>1. t \in Intent
      BY <2>1 DEF Intent
    <3>2. QED
      BY <2>1, <3>1, IntentFields DEF Intent
  <2>3. s \in State /\ s.records = mem.records /\ s.intent = t /\ s.paused = mem.paused
    BY <1>2, <2>2 DEF State
  <2>4. mem' = [m EXCEPT !.records[i].hedge = IF m.records[i].filled THEN "filled" ELSE "check"]
    BY <1>6 DEF RecoveredFill
  <2> HIDE DEF s, t
  <2>5. mem.intent.state # "committing"
    BY <1>3, <1>6, TypeInvParts DEF IdleHolds
  <2>6. ~Early(s, n) /\ (Owned(s, n) <=> Owned(mem, n)) /\ Owned(s, n)
        /\ (s.intent.provisional <=> mem.intent.provisional)
    BY <1>6, <2>2, <2>3, <2>5 DEF Early, Owned
  <2>7. /\ m \in State /\ m.intent = <<>> /\ m.paused = mem.paused
        /\ Grown(mem.records, m.records)
        /\ \A j \in DOMAIN mem.records :
              m.records[j].ids = mem.records[j].ids /\ m.records[j].hedge = mem.records[j].hedge
        /\ \A j \in DOMAIN m.records \ DOMAIN mem.records :
              m.records[j].ids = <<>> /\ m.records[j].n = n
        /\ Len(m.records) > 0
        /\ mem.intent.provisional => RecordOf(m.records, n) \in DOMAIN m.records
    BY <2>1, <2>3, <2>6, EnteredClears
  <2> HIDE DEF m
  <2>8. m.records \in Seq(Record) /\ Len(m.records) \in Nat /\ DOMAIN m.records = 1..Len(m.records)
        /\ m.paused \in Pause
    BY <2>7, StateFields
  <2>9. i \in DOMAIN m.records
    BY <2>7, <2>8
  <2> HIDE DEF i
  <2> DEFINE h == IF m.records[i].filled THEN "filled" ELSE "check"
             r == [m.records[i] EXCEPT !.hedge = h]
  <2>10. h \in Hedge
    BY DEF Hedge
  <2>11. m.records[i] \in Record
    BY <2>8, <2>9
  <2>12. r \in Record /\ r.n = m.records[i].n /\ r.kind = m.records[i].kind /\ r.ids = m.records[i].ids
         /\ r.hedge = h
    BY <2>10, <2>11, SetHedge
  <2>13. mem' = Edited(m, i, r, m.paused)
    BY <2>4, <2>7 DEF Edited, State
  <2> HIDE DEF h, r
  <2>14. /\ mem' \in State /\ mem'.intent = m.intent
         /\ Len(mem'.records) = Len(m.records) /\ DOMAIN mem'.records = DOMAIN m.records
         /\ mem'.records[i] = r
         /\ \A j \in DOMAIN m.records : j # i => mem'.records[j] = m.records[j]
    BY ONLY <2>7, <2>8, <2>9, <2>12, <2>13, EditedIs
  <2>15. \A j \in DOMAIN m.records : /\ mem'.records[j].n = m.records[j].n
                                     /\ mem'.records[j].kind = m.records[j].kind
                                     /\ mem'.records[j].ids = m.records[j].ids
    BY <2>12, <2>14
  <2>16. \A j \in DOMAIN m.records : Len(m.records[j].ids) < Limit /\ m.records[j].n \in 1..Len(trades)
    <3> TAKE j \in DOMAIN m.records
    <3>1. CASE j \in DOMAIN mem.records
      BY <1>3, <2>7, <3>1, TypeInvParts DEF Grown, Fits, Numbered
    <3>2. CASE j \notin DOMAIN mem.records
      <4>1. Len(m.records[j].ids) = 0 /\ m.records[j].n = n
        BY <2>7, <3>2
      <4>2. QED
        BY <2>1, <4>1, TypeInvParts
    <3>3. QED
      BY <3>1, <3>2
  <2>17. \A j \in DOMAIN mem'.records :
              /\ mem'.records[j].n \in 1..Len(trades) /\ Len(mem'.records[j].ids) <= Limit
              /\ mem'.records[j].hedge \in Sends => Len(mem'.records[j].ids) < Limit
    <3> TAKE j \in DOMAIN mem'.records
    <3>1. Len(mem'.records[j].ids) \in Nat
      BY <2>14, StateFields, RecordFields
    <3>2. QED
      BY <2>14, <2>15, <2>16, <3>1, TypeInvParts, SMTT(30)
  <2>18. Grown(mem.records, mem'.records)
    <3>1. DOMAIN mem.records \subseteq DOMAIN m.records
      BY <1>2, <2>7, <2>8 DEF Grown
    <3>2. QED
      BY <2>7, <2>14, <2>15, <3>1 DEF Grown
  <2>19. 0 \in 0..Len(mem'.records)
    BY <2>8, <2>14
  <2>20. /\ start # "down" /\ start' \in {"prepare", "probe", "finish", "reconcile", "up"}
         /\ start' # "up" => follow' = 0 /\ ~ready'
         /\ order' = "idle" /\ events' = {} /\ ready' \in BOOLEAN
         /\ follow' \in 0..Len(mem'.records) /\ retry' = retry /\ retry = 0
    BY <1>1, <1>3, <2>19, TypeInvParts DEF WorldTyped
  <2>21. mem'.intent = <<>> /\ mem' \in State
    BY <2>7, <2>14
  <2>22. QED
    BY <1>1, <1>3, <1>4, <2>17, <2>18, <2>20, <2>21, ClearStep
<1> QED
  BY <1>1, <1>5, <1>6

\* Records of which only the state of the hedge changes.
Rehedged(s, rs) ==
    /\ DOMAIN rs = DOMAIN s.records /\ rs = [j \in DOMAIN s.records |-> rs[j]]
    /\ \A j \in DOMAIN s.records : \E h \in Hedge : rs[j] = [s.records[j] EXCEPT !.hedge = h]

WithRecords(s, rs, p) == [s EXCEPT !.records = rs, !.paused = p]

LEMMA HedgesOnly ==
    ASSUME NEW s \in State, NEW rs, NEW p \in Pause, Rehedged(s, rs)
    PROVE  /\ WithRecords(s, rs, p) \in State
           /\ WithRecords(s, rs, p).records = rs
           /\ WithRecords(s, rs, p).intent = s.intent
           /\ SameRecords(s.records, rs)
           /\ \A j \in DOMAIN s.records : rs[j] \in Record /\ rs[j].src = s.records[j].src
                                          /\ rs[j].ids = s.records[j].ids
<1>0. /\ DOMAIN rs = DOMAIN s.records /\ rs = [j \in DOMAIN s.records |-> rs[j]]
      /\ \A j \in DOMAIN s.records : \E h \in Hedge : rs[j] = [s.records[j] EXCEPT !.hedge = h]
  BY DEF Rehedged
<1>1. /\ Len(s.records) \in Nat /\ DOMAIN s.records = 1..Len(s.records)
      /\ \A j \in DOMAIN s.records : s.records[j] \in Record
  BY StateFields
<1>2. \A j \in DOMAIN s.records : /\ rs[j] \in Record /\ rs[j].src = s.records[j].src
                                  /\ rs[j].ids = s.records[j].ids /\ rs[j].n = s.records[j].n
                                  /\ rs[j].kind = s.records[j].kind
  <2> TAKE j \in DOMAIN s.records
  <2>1. PICK h \in Hedge : rs[j] = [s.records[j] EXCEPT !.hedge = h]
    BY <1>0
  <2> DEFINE q == [s.records[j] EXCEPT !.hedge = h]
  <2>2. /\ q \in Record /\ q.src = s.records[j].src /\ q.ids = s.records[j].ids
        /\ q.n = s.records[j].n /\ q.kind = s.records[j].kind
    BY <1>1, SetHedge
  <2>3. rs[j] = q
    BY <2>1
  <2> HIDE DEF q
  <2>4. QED
    BY ONLY <2>2, <2>3
<1>3. rs \in [1..Len(s.records) -> Record]
  BY ONLY <1>0, <1>1, <1>2
<1>4. rs \in Seq(Record) /\ Len(rs) = Len(s.records)
  BY ONLY <1>1, <1>3
<1>5. SameRecords(s.records, rs)
  BY <1>2, <1>4 DEF SameRecords
<1>6. /\ WithRecords(s, rs, p) \in State
      /\ WithRecords(s, rs, p).records = rs
      /\ WithRecords(s, rs, p).intent = s.intent
  BY ONLY <1>4, s \in State, p \in Pause DEF State, Pause, WithRecords
<1> QED
  BY <1>2, <1>5, <1>6

\* The start sets hedges: a record that may then send a new id could do so before.
LEMMA StageHedges ==
    ASSUME TypeInv, NEW rs, NEW p \in Pause, DOMAIN rs = DOMAIN mem.records,
           rs = [j \in DOMAIN mem.records |-> rs[j]],
           \A j \in DOMAIN mem.records : \E h \in Hedge :
              /\ rs[j] = [mem.records[j] EXCEPT !.hedge = h]
              /\ h \in Sends => mem.records[j].hedge \in Sends
              /\ mem.records[j].hedge = "retrying" => h = "retrying",
           mem' = [mem EXCEPT !.records = rs, !.paused = p],
           start \notin {"up", "down"}, start' \in {"prepare", "probe", "finish", "reconcile"},
           waiting \subseteq waiting', waiting' \subseteq waiting \cup {<<"start", 0>>},
           UNCHANGED <<trades, events, lighter, refilled, ready, order, follow, retry, crashes,
                       writes, file>>
    PROVE  TypeInv'
<1>1. \A j \in DOMAIN mem.records : \E h \in Hedge : rs[j] = [mem.records[j] EXCEPT !.hedge = h]
  OBVIOUS
<1>2. mem \in State /\ waiting' \subseteq Savers
  BY TypeInvParts DEF PlacesTyped, Savers
<1>3. /\ mem' \in State /\ mem'.records = rs /\ mem'.intent = mem.intent
      /\ SameRecords(mem.records, rs)
      /\ \A j \in DOMAIN mem.records : /\ rs[j] \in Record /\ rs[j].src = mem.records[j].src
                                       /\ rs[j].ids = mem.records[j].ids
  <2> DEFINE m == WithRecords(mem, rs, p)
  <2>1. /\ m \in State /\ m.records = rs /\ m.intent = mem.intent
        /\ SameRecords(mem.records, rs)
        /\ \A j \in DOMAIN mem.records : /\ rs[j] \in Record /\ rs[j].src = mem.records[j].src
                                         /\ rs[j].ids = mem.records[j].ids
    <3>1. Rehedged(mem, rs)
      BY <1>1 DEF Rehedged
    <3>2. mem \in State /\ p \in Pause
      BY <1>2
    <3>3. QED
      BY ONLY <3>1, <3>2, HedgesOnly
  <2>2. mem' = m
    BY DEF WithRecords
  <2> HIDE DEF m
  <2>3. QED
    BY ONLY <2>1, <2>2
<1>4. \A j \in DOMAIN mem.records :
         /\ rs[j].hedge \in Sends => mem.records[j].hedge \in Sends
         /\ mem.records[j].hedge = "retrying" => rs[j].hedge = "retrying"
  <2> TAKE j \in DOMAIN mem.records
  <2>1. PICK h \in Hedge : /\ rs[j] = [mem.records[j] EXCEPT !.hedge = h]
                           /\ h \in Sends => mem.records[j].hedge \in Sends
                           /\ mem.records[j].hedge = "retrying" => h = "retrying"
    OBVIOUS
  <2>2. mem.records[j] \in Record
    BY <1>2, StateFields
  <2> DEFINE q == [mem.records[j] EXCEPT !.hedge = h]
  <2>3. q.hedge = h
    BY <2>2, SetHedge
  <2>4. rs[j] = q
    BY <2>1
  <2> HIDE DEF q
  <2>5. QED
    BY ONLY <2>1, <2>3, <2>4
<1>5. \A j \in DOMAIN mem.records :
              /\ mem'.records[j].src = mem.records[j].src
              /\ mem'.records[j].ids = mem.records[j].ids
              /\ mem'.records[j].hedge \in Sends => Len(mem.records[j].ids) < Limit
  BY <1>3, <1>4, TypeInvParts DEF MaySend
<1>6. retry # 0 => mem'.records[retry].hedge = "retrying"
  <2>1. retry # 0 => retry \in DOMAIN mem.records
    BY <1>2, TypeInvParts, StateFields DEF PlacesTyped
  <2>2. QED
    BY <1>3, <1>4, <2>1, TypeInvParts DEF MaySend
<1> QED
  BY <1>2, <1>3, <1>5, <1>6, StageStep

LEMMA PrepareRestoredTyped == TypeInv /\ PrepareRestored => TypeInv'
<1> SUFFICES ASSUME TypeInv, PrepareRestored PROVE TypeInv'
  OBVIOUS
<1> DEFINE rs == [j \in DOMAIN mem.records |-> Resumed(mem.records[j])]
<1>1. /\ start = "prepare" /\ start' = "probe"
      /\ \E p \in {mem.paused, PauseFor("lacks")} : mem' = [mem EXCEPT !.records = rs, !.paused = p]
      /\ waiting \subseteq waiting' /\ waiting' \subseteq waiting \cup {<<"start", 0>>}
      /\ UNCHANGED <<trades, events, lighter, refilled, ready, order, follow, retry, crashes,
                     writes, file>>
  BY DEF PrepareRestored, Stage, Persist, NoSave, saving, truth, runtime
<1>2. PICK p \in Pause : mem' = [mem EXCEPT !.records = rs, !.paused = p]
  BY <1>1, PauseIs, TypeInvParts, StateFields
<1>3. \A j \in DOMAIN mem.records : \E h \in Hedge :
              /\ rs[j] = [mem.records[j] EXCEPT !.hedge = h]
              /\ h \in Sends => mem.records[j].hedge \in Sends
              /\ mem.records[j].hedge = "retrying" => h = "retrying"
  <2> TAKE j \in DOMAIN mem.records
  <2> DEFINE r == mem.records[j]
  <2>1. r \in Record
    BY TypeInvParts, StateFields
  <2>2. rs[j] = Resumed(r)
    OBVIOUS
  <2> HIDE DEF r, rs
  <2>3. r = [r EXCEPT !.hedge = r.hedge] /\ r.hedge \in Hedge
    BY <2>1 DEF Record, Hedge
  <2>4. CASE Interrupted(r)
    <3>1. r.hedge \in Sends /\ r.hedge # "retrying"
      BY <2>4 DEF Interrupted, Sends
    <3>2. \E h \in {r.hedge, "required", "check"} : Resumed(r) = [r EXCEPT !.hedge = h]
      BY <2>3, <2>4 DEF Resumed
    <3>3. {r.hedge, "required", "check"} \subseteq Hedge
      BY <2>3 DEF Hedge
    <3>4. QED
      BY <2>2, <3>1, <3>2, <3>3 DEF r
  <2>5. CASE ~Interrupted(r)
    <3>1. Resumed(r) = [r EXCEPT !.hedge = r.hedge]
      BY <2>3, <2>5 DEF Resumed
    <3>2. QED
      BY <2>2, <2>3, <3>1 DEF r
  <2>6. QED
    BY <2>4, <2>5
<1>4. DOMAIN rs = DOMAIN mem.records /\ rs = [j \in DOMAIN mem.records |-> rs[j]]
  OBVIOUS
<1> HIDE DEF rs
<1> QED
  BY <1>1, <1>2, <1>3, <1>4, StageHedges

LEMMA ProbeEndsTyped == TypeInv /\ ProbeEnds => TypeInv'
<1> SUFFICES ASSUME TypeInv, ProbeEnds PROVE TypeInv'
  OBVIOUS
<1> DEFINE rs == [j \in DOMAIN mem.records |->
                    IF mem.records[j].hedge = "check" THEN [mem.records[j] EXCEPT !.hedge = "none"]
                    ELSE mem.records[j]]
<1>1. /\ start = "probe" /\ start' = "finish"
      /\ mem' = [mem EXCEPT !.records = rs]
      /\ waiting \subseteq waiting' /\ waiting' \subseteq waiting \cup {<<"start", 0>>}
      /\ UNCHANGED <<trades, events, lighter, refilled, ready, order, follow, retry, crashes,
                     writes, file>>
  BY DEF ProbeEnds, Stage, Persist, NoSave, saving, truth, runtime
<1>2. mem \in State /\ mem.paused \in Pause
  BY TypeInvParts, StateFields
<1>3. \A j \in DOMAIN mem.records : \E h \in Hedge :
              /\ rs[j] = [mem.records[j] EXCEPT !.hedge = h]
              /\ h \in Sends => mem.records[j].hedge \in Sends
              /\ mem.records[j].hedge = "retrying" => h = "retrying"
  <2> TAKE j \in DOMAIN mem.records
  <2> DEFINE r == mem.records[j]
  <2>1. r \in Record
    BY TypeInvParts, StateFields
  <2>2. rs[j] = IF r.hedge = "check" THEN [r EXCEPT !.hedge = "none"] ELSE r
    OBVIOUS
  <2> HIDE DEF r, rs
  <2>3. r = [r EXCEPT !.hedge = r.hedge] /\ r.hedge \in Hedge /\ "none" \in Hedge
    BY <2>1 DEF Record, Hedge
  <2>4. CASE r.hedge = "check"
    BY <2>2, <2>3, <2>4 DEF Sends, r
  <2>5. CASE r.hedge # "check"
    BY <2>2, <2>3, <2>5 DEF r
  <2>6. QED
    BY <2>4, <2>5
<1>4. DOMAIN rs = DOMAIN mem.records /\ rs = [j \in DOMAIN mem.records |-> rs[j]]
  OBVIOUS
<1> HIDE DEF rs
<1>5. mem' = [mem EXCEPT !.records = rs, !.paused = mem.paused]
  BY <1>1, <1>2 DEF State
<1> QED
  BY <1>1, <1>2, <1>3, <1>4, <1>5, StageHedges

LEMMA StartHedgesTyped == TypeInv /\ StartHedges => TypeInv'
<1> SUFFICES ASSUME TypeInv, StartHedges PROVE TypeInv'
  OBVIOUS
<1> DEFINE rs == [j \in DOMAIN mem.records |->
                    IF Interrupted(mem.records[j]) THEN [mem.records[j] EXCEPT !.hedge = "queued"]
                    ELSE mem.records[j]]
           m == WithRecords(mem, rs, mem.paused)
<1>1. mem \in State /\ mem.paused \in Pause /\ Len(mem.records) \in Nat
      /\ DOMAIN mem.records = 1..Len(mem.records)
      /\ \A j \in DOMAIN mem.records : mem.records[j] \in Record
  BY TypeInvParts, StateFields
<1>2. [mem EXCEPT !.records = rs] = m
  BY <1>1 DEF State, WithRecords
<1>3. /\ start = "finish" /\ start' = "reconcile"
      /\ \/ mem.intent # <<>> /\ mem.intent.provisional /\ mem' = RolledBack(m)
         \/ mem' = m
      /\ waiting \subseteq waiting' /\ waiting' \subseteq waiting \cup {<<"start", 0>>}
      /\ UNCHANGED <<trades, events, lighter, refilled, ready, order, follow, retry, crashes,
                     writes, file>>
  <2> HIDE DEF m
  <2>1. QED
    BY <1>2 DEF StartHedges, Stage, Persist, NoSave, saving, truth, runtime
<1>4. \A j \in DOMAIN mem.records : \E h \in Hedge :
              /\ rs[j] = [mem.records[j] EXCEPT !.hedge = h]
              /\ h \in Sends => mem.records[j].hedge \in Sends
              /\ mem.records[j].hedge = "retrying" => h = "retrying"
  <2> TAKE j \in DOMAIN mem.records
  <2> DEFINE r == mem.records[j]
  <2>1. r \in Record
    BY <1>1
  <2>2. rs[j] = IF Interrupted(r) THEN [r EXCEPT !.hedge = "queued"] ELSE r
    OBVIOUS
  <2> HIDE DEF r, rs
  <2>3. r = [r EXCEPT !.hedge = r.hedge] /\ r.hedge \in Hedge /\ "queued" \in Hedge
    BY <2>1 DEF Record, Hedge
  <2>4. CASE Interrupted(r)
    BY <2>2, <2>3, <2>4 DEF Sends, Interrupted, r
  <2>5. CASE ~Interrupted(r)
    BY <2>2, <2>3, <2>5 DEF r
  <2>6. QED
    BY <2>4, <2>5
<1>5. DOMAIN rs = DOMAIN mem.records /\ rs = [j \in DOMAIN mem.records |-> rs[j]]
  OBVIOUS
<1> HIDE DEF rs
<1>6. CASE mem' = m
  BY <1>1, <1>3, <1>4, <1>5, <1>6, StageHedges DEF WithRecords
<1>7. CASE mem.intent # <<>> /\ mem.intent.provisional /\ mem' = RolledBack(m)
  <2>1. \A j \in DOMAIN mem.records : \E h \in Hedge : rs[j] = [mem.records[j] EXCEPT !.hedge = h]
    BY <1>4
  <2>2. /\ m \in State /\ m.records = rs /\ m.intent = mem.intent
        /\ SameRecords(mem.records, rs)
        /\ \A j \in DOMAIN mem.records : /\ rs[j] \in Record /\ rs[j].src = mem.records[j].src
                                         /\ rs[j].ids = mem.records[j].ids
    <3>1. Rehedged(mem, rs)
      BY <1>5, <2>1 DEF Rehedged
    <3> DEFINE p == mem.paused
               w == WithRecords(mem, rs, p)
    <3>2. mem \in State /\ p \in Pause
      BY <1>1
    <3>3. m = w
      OBVIOUS
    <3> HIDE DEF p, m
    <3>4. /\ w \in State /\ w.records = rs /\ w.intent = mem.intent
          /\ SameRecords(mem.records, rs)
          /\ \A j \in DOMAIN mem.records : /\ rs[j] \in Record /\ rs[j].src = mem.records[j].src
                                           /\ rs[j].ids = mem.records[j].ids
      BY ONLY <3>1, <3>2, HedgesOnly
    <3> HIDE DEF w
    <3>5. QED
      BY ONLY <3>3, <3>4
  <2>3. \A j \in DOMAIN mem.records :
           /\ rs[j].hedge \in Sends => mem.records[j].hedge \in Sends
           /\ mem.records[j].hedge = "retrying" => rs[j].hedge = "retrying"
    <3> TAKE j \in DOMAIN mem.records
    <3>1. PICK h \in Hedge : /\ rs[j] = [mem.records[j] EXCEPT !.hedge = h]
                             /\ h \in Sends => mem.records[j].hedge \in Sends
                             /\ mem.records[j].hedge = "retrying" => h = "retrying"
      BY <1>4
    <3> DEFINE q == [mem.records[j] EXCEPT !.hedge = h]
    <3>2. q.hedge = h
      BY <1>1, SetHedge
    <3>3. rs[j] = q
      BY <3>1
    <3> HIDE DEF q
    <3>4. QED
      BY ONLY <3>1, <3>2, <3>3
  <2> HIDE DEF m
  <2>4. \A j \in DOMAIN m.records :
              /\ Len(m.records[j].ids) <= Limit
              /\ m.records[j].hedge \in Sends => Len(m.records[j].ids) < Limit
    BY <1>5, <2>2, <2>3, TypeInvParts DEF Fits, Attempted, MaySend
  <2>5. retry # 0 => m.records[retry].hedge = "retrying"
    BY <1>1, <2>2, <2>3, TypeInvParts DEF MaySend, PlacesTyped
  <2>6. /\ order = "idle" /\ events = {} /\ follow = 0 /\ ~ready
        /\ \A n \in DOMAIN trades : trades[n].state \in {"executed", "void"}
    BY <1>3, TypeInvParts DEF StartHolds
  <2>7. waiting' \subseteq Savers
    BY <1>3, TypeInvParts DEF PlacesTyped, Savers
  <2>8. QED
    BY <1>3, <1>7, <2>2, <2>4, <2>5, <2>6, <2>7, RollsBack
<1> QED
  BY <1>3, <1>6, <1>7

\* A fill has been bound to the Commit whose answer comes: its record is hedged now.
LEMMA MergedTyped ==
    ASSUME TypeInv, order = "sent", order' = "idle", mem.intent.confirmed, NEW p \in Pause,
           mem' = [mem EXCEPT !.intent = <<>>, !.paused = p,
                              !.records[RecordOf(mem.records, Len(trades))].hedge = "queued"],
           waiting \subseteq waiting', waiting' \subseteq Savers,
           UNCHANGED <<trades, events, lighter, refilled, ready, follow, retry, start, crashes,
                       writes, file>>
    PROVE  TypeInv'
<1> DEFINE n == Len(trades)
           k == RecordOf(mem.records, n)
<1>1. /\ start = "up" /\ ready /\ n > 0 /\ n \in DOMAIN trades
      /\ mem.intent # <<>> /\ mem.intent.n = n
      /\ trades[n].auto
      /\ \A j \in DOMAIN trades : j # n => trades[j].state \in {"executed", "void"}
  BY OrderIs DEF CurrentIntent
<1>2. /\ mem \in State /\ Len(mem.records) \in Nat /\ DOMAIN mem.records = 1..Len(mem.records)
      /\ mem.records \in Seq(Record)
      /\ \A j \in DOMAIN mem.records : mem.records[j] \in Record
  BY TypeInvParts, StateFields
<1>3. /\ trades[n].state = "executed"
      /\ \E i \in DOMAIN mem.records :
            /\ OrderOf(mem.records[i], n)
            /\ mem.records[i].hedge = "waiting" /\ mem.records[i].ids = <<>>
            /\ \A j \in DOMAIN mem.records : mem.records[j].n = n => j = i
  BY TypeInvParts DEF OrderHolds
<1>4. k \in DOMAIN mem.records /\ mem.records[k].hedge = "waiting" /\ mem.records[k].ids = <<>>
  <2>1. k \in DOMAIN mem.records /\ mem.records[k].n = n
    BY <1>2, <1>3, RecordOfIs DEF OrderOf
  <2>2. QED
    BY <1>3, <2>1
<1>5. events = {}
  BY <1>1, TypeInvParts DEF EventHolds
<1> DEFINE r == [mem.records[k] EXCEPT !.hedge = "queued"]
<1>6. /\ r \in Record /\ r.n = mem.records[k].n /\ r.kind = mem.records[k].kind
      /\ r.ids = mem.records[k].ids /\ r.hedge = "queued"
  <2>1. "queued" \in Hedge
    BY DEF Hedge
  <2>2. QED
    BY <1>2, <1>4, <2>1, SetHedge
<1>7. mem' = [Edited(mem, k, r, p) EXCEPT !.intent = <<>>]
  BY <1>2 DEF Edited, State
<1> HIDE DEF k, r
<1> DEFINE e == Edited(mem, k, r, p)
<1>8. /\ e \in State /\ Len(e.records) = Len(mem.records) /\ DOMAIN e.records = DOMAIN mem.records
      /\ e.records[k] = r
      /\ \A j \in DOMAIN mem.records : j # k => e.records[j] = mem.records[j]
  <2>1. mem \in State /\ k \in DOMAIN mem.records /\ r \in Record /\ p \in Pause
    BY <1>2, <1>4, <1>6
  <2>2. QED
    BY ONLY <2>1, EditedIs
<1>9. mem' = [e EXCEPT !.intent = <<>>]
  BY <1>7
<1> HIDE DEF e
<1>10. mem' \in State /\ mem'.intent = <<>> /\ mem'.records = e.records
  BY ONLY <1>8, <1>9 DEF State
<1>11. Grown(mem.records, mem'.records)
  BY <1>2, <1>6, <1>8, <1>10 DEF Grown
<1>12. \A i \in DOMAIN mem'.records :
              /\ mem'.records[i].n \in 1..Len(trades) /\ Len(mem'.records[i].ids) <= Limit
              /\ mem'.records[i].hedge \in Sends => Len(mem'.records[i].ids) < Limit
  <2> TAKE i \in DOMAIN mem'.records
  <2>1. CASE i = k
    <3>1. Len(mem'.records[i].ids) = 0 /\ mem'.records[i].n = mem.records[k].n
      BY <1>4, <1>6, <1>8, <1>10, <2>1
    <3>2. QED
      BY <1>4, <3>1, TypeInvParts DEF Fits, Numbered
  <2>2. CASE i # k
    BY <1>8, <1>10, <2>2, TypeInvParts DEF Fits, Numbered, Attempted, MaySend
  <2>3. QED
    BY <2>1, <2>2
<1>13. retry # 0 => mem'.records[retry].hedge = "retrying"
  <2>1. ASSUME retry # 0 PROVE mem'.records[retry].hedge = "retrying"
    <3>1. retry \in DOMAIN mem.records /\ mem.records[retry].hedge = "retrying"
      BY <1>2, <2>1, TypeInvParts DEF MaySend, PlacesTyped
    <3>2. retry # k
      BY <1>4, <3>1
    <3>3. QED
      BY <1>8, <1>10, <3>1, <3>2
  <2>2. QED
    BY <2>1
<1>14. /\ \A j \in DOMAIN trades : trades[j].state \in {"executed", "void"}
       /\ start # "down" /\ start' = "up" /\ events' = {} /\ ready' \in BOOLEAN
       /\ follow' \in 0..Len(mem'.records)
  BY <1>1, <1>3, <1>5, <1>8, <1>10, TypeInvParts DEF WorldTyped, PlacesTyped
<1> QED
  BY <1>10, <1>11, <1>12, <1>13, <1>14, ClearStep

LEMMA AcceptedMergesTyped == TypeInv /\ AcceptedMerges => TypeInv'
<1> SUFFICES ASSUME TypeInv, AcceptedMerges PROVE TypeInv'
  OBVIOUS
<1>1. /\ order = "sent" /\ order' = "idle" /\ mem.intent.confirmed
      /\ mem' = [mem EXCEPT !.intent = <<>>,
                            !.records[RecordOf(mem.records, Len(trades))].hedge = "queued"]
      /\ UNCHANGED <<trades, events, lighter, refilled, ready, follow, retry, start, crashes,
                     waiting, writes, file>>
  BY DEF AcceptedMerges, Answered, NoSave, saving, truth, process
<1>2. mem \in State /\ mem.paused \in Pause /\ waiting \subseteq Savers
  BY TypeInvParts, StateFields DEF PlacesTyped
<1>3. mem' = [mem EXCEPT !.intent = <<>>, !.paused = mem.paused,
                         !.records[RecordOf(mem.records, Len(trades))].hedge = "queued"]
  BY <1>1, <1>2 DEF State
<1> QED
  BY <1>1, <1>2, <1>3, MergedTyped

\* The order of the coroutine ends with its intent still pending.
LEMMA AmbiguousTyped == TypeInv /\ Ambiguous => TypeInv'
<1> SUFFICES ASSUME TypeInv, Ambiguous PROVE TypeInv'
  OBVIOUS
<1> DEFINE n == Len(trades)
           k == RecordOf(mem.records, n)
<1>1. /\ order = "sent" /\ order' = "idle"
      /\ waiting' = waiting \cup {<<"order", 0>>}
      /\ UNCHANGED <<trades, events, lighter, refilled, ready, follow, retry, start, crashes,
                     writes, file>>
  BY DEF Ambiguous, Answered, Persist, truth, process
<1>2. /\ start = "up" /\ ready /\ n > 0 /\ n \in DOMAIN trades /\ CurrentIntent
      /\ mem.intent \in Intent /\ mem.intent.n = n /\ ~mem.intent.provisional
      /\ mem.intent # <<>>
      /\ \A j \in DOMAIN trades : j # n => trades[j].state \in {"executed", "void"}
      /\ trades[n].state \in {"sent", "executed", "void"} /\ trades[n].auto
  BY <1>1, OrderIs DEF CurrentIntent
<1>3. /\ mem \in State /\ Len(mem.records) \in Nat /\ DOMAIN mem.records = 1..Len(mem.records)
      /\ mem.records \in Seq(Record)
      /\ \A j \in DOMAIN mem.records : mem.records[j] \in Record
  BY TypeInvParts, StateFields
<1>4. waiting \subseteq waiting' /\ waiting' \subseteq Savers
  BY <1>1, TypeInvParts DEF PlacesTyped, Savers
<1>5. CASE mem.intent.confirmed
  <2>1. mem' = [mem EXCEPT !.paused = "other", !.intent = <<>>, !.records[k].hedge = "queued"]
    <3>1. mem' = [mem EXCEPT !.paused = "other", !.intent = <<>>,
                             !.records = [@ EXCEPT ![k].hedge = "queued"]]
      BY <1>2, <1>5 DEF Ambiguous
    <3>2. QED
      BY <3>1
  <2>2. QED
    BY <1>1, <1>4, <1>5, <2>1, MergedTyped DEF Pause
<1>6. CASE ~mem.intent.confirmed
  <2> DEFINE t == [mem.intent EXCEPT !.state = "ambiguous"]
  <2>1. t \in Intent /\ t.n = n /\ t.state = "ambiguous" /\ t.provisional = mem.intent.provisional
        /\ t.confirmed = mem.intent.confirmed /\ t # <<>>
    BY <1>2, SetIntentState
  <2>2. mem' = [mem EXCEPT !.paused = "other", !.intent = t]
    <3>1. mem' = [mem EXCEPT !.paused = "other", !.intent = t, !.records = mem.records]
      BY <1>2, <1>6 DEF Ambiguous
    <3>2. QED
      BY <1>3, <3>1 DEF State
  <2> HIDE DEF t
  <2>3. mem' \in State /\ mem'.intent = t /\ mem'.records = mem.records /\ mem'.paused = "other"
    BY <1>3, <2>1, <2>2 DEF State
  <2>4. Intended(mem, mem')
    BY <1>2, <2>1, <2>3 DEF Intended, Accepted
  <2>5. Fits(mem, Len(trades), Limit)' /\ MaySend' /\ Limit' = Limit /\ OnDisk' = OnDisk
    BY <1>1, <2>3, <2>4, IntentStep
  <2>6. WorldTyped'
    BY <1>1, TypeInvParts DEF WorldTyped
  <2>7. PlacesTyped' /\ OneWrite'
    BY <1>1, <1>4, <2>3, TypeInvParts DEF PlacesTyped, OneWrite
  <2>8. StatesFit'
    BY <1>1, <2>5, <2>6, TypeInvParts, DiskFits, LimitIs
  <2>9. DownHolds' /\ StartHolds' /\ OrderHolds' /\ IdleHolds'
    BY <1>1, <1>2, <2>1, <2>3 DEF DownHolds, StartHolds, OrderHolds, IdleHolds
  <2>10. TradeHolds'
    <3>1. \A j \in DOMAIN trades : trades[j].state # "accepted"
      BY <1>2
    <3>2. \A j \in DOMAIN trades : trades[j].state = "sent" => j = n
      BY <1>2
    <3>3. \A j \in DOMAIN trades : trades[j].state # "quoted"
      BY <1>2
    <3>4. QED
      BY <1>1, <1>2, <1>6, <2>1, <2>3, <3>1, <3>2, <3>3 DEF TradeHolds, Owns
  <2>11. EventHolds'
    BY <1>1, <1>2, <1>6, <2>1, <2>3, TypeInvParts DEF EventHolds, Owns
  <2>12. QED
    BY <2>5, <2>6, <2>7, <2>8, <2>9, <2>10, <2>11 DEF TypeInv, Typed, Control
<1> QED
  BY <1>5, <1>6

LEMMA AcceptedProvisionalTyped == TypeInv /\ AcceptedProvisional => TypeInv'
<1> SUFFICES ASSUME TypeInv, AcceptedProvisional PROVE TypeInv'
  OBVIOUS
<1> DEFINE n == Len(trades)
           q == NewRecord(n, "commit")
           r == [q EXCEPT !.hedge = "queued"]
           t == [mem.intent EXCEPT !.state = "committed", !.provisional = TRUE]
           v == IF trades[n].state = "sent" THEN "accepted" ELSE trades[n].state
<1>1. /\ order = "sent" /\ order' = "idle" /\ CurrentIntent /\ ~mem.intent.confirmed
      /\ trades[n].state \in {"sent", "executed"}
      /\ trades' = [trades EXCEPT ![n].state = v]
      /\ mem' = [mem EXCEPT !.records = Append(@, r),
                            !.intent.state = "committed", !.intent.provisional = TRUE]
      /\ UNCHANGED <<events, lighter, refilled, ready, follow, retry, start, crashes,
                     waiting, writes, file>>
  BY DEF AcceptedProvisional, Answered, NoSave, saving, process
<1>2. /\ start = "up" /\ n > 0 /\ n \in DOMAIN trades /\ n \in Numbers
      /\ mem.intent \in Intent /\ mem.intent.n = n /\ mem.intent # <<>> /\ trades[n].auto
      /\ \A j \in DOMAIN trades : j # n => trades[j].state \in {"executed", "void"}
      /\ trades \in Seq(Trade)
  BY <1>1, OrderIs, TypeInvParts DEF CurrentIntent
<1>3. /\ mem \in State /\ Len(mem.records) \in Nat /\ DOMAIN mem.records = 1..Len(mem.records)
      /\ mem.records \in Seq(Record)
  BY TypeInvParts, StateFields
<1>4. q \in Record /\ q.n = n /\ q.kind = trades[n].kind /\ q.ids = <<>> /\ q.src = "commit"
  <2>1. "commit" \in Source
    BY DEF Source
  <2>2. trades \in Seq(Trade) /\ n \in DOMAIN trades /\ n \in Numbers
    BY <1>2
  <2> HIDE DEF n
  <2>3. QED
    BY ONLY <2>1, <2>2, NewRecordIs, ZenonT(40) DEF q
<1> HIDE DEF q
<1>5. /\ r \in Record /\ r.n = n /\ r.kind = trades[n].kind /\ r.ids = <<>> /\ r.src = "commit"
      /\ r.hedge = "queued"
  <2>1. "queued" \in Hedge
    BY DEF Hedge
  <2>2. QED
    BY <1>4, <2>1, SetHedge
<1>6. t \in Intent /\ t # <<>> /\ t.n = n /\ t.state = "committed" /\ t.provisional
      /\ t.confirmed = mem.intent.confirmed
  <2>1. t \in Intent
    BY <1>2 DEF Intent
  <2>2. QED
    BY <1>2, <2>1, IntentFields DEF Intent
<1>7. mem' = Extended(mem, r, t)
  <2> HIDE DEF r
  <2>1. QED
    BY <1>1, <1>3 DEF Extended, State
<1>8. v \in {"accepted", "executed"}
  BY <1>1
<1> HIDE DEF r, t, v
<1>9. /\ mem' \in State /\ mem'.intent = t /\ mem'.paused = mem.paused
      /\ Len(mem'.records) = Len(mem.records) + 1
      /\ DOMAIN mem'.records = DOMAIN mem.records \cup {Len(mem.records) + 1}
      /\ mem'.records[Len(mem.records) + 1] = r
      /\ \A j \in DOMAIN mem.records : mem'.records[j] = mem.records[j]
  <2>1. Extends(mem, r, t)
    BY <1>3, <1>5, <1>6 DEF Extends
  <2>2. QED
    BY ONLY <1>7, <2>1, ExtendedIs
<1>10. /\ trades' \in Seq(Trade) /\ Len(trades') = n /\ DOMAIN trades' = DOMAIN trades
       /\ trades'[n].state = v /\ trades'[n].auto = trades[n].auto
       /\ \A j \in DOMAIN trades : j # n => trades'[j] = trades[j]
  <2> DEFINE us == trades'
  <2>1. us = [trades EXCEPT ![n].state = v]
    BY <1>1
  <2>2. v \in {"quoted", "sent", "accepted", "executed", "void"}
    BY <1>8
  <2>3. n \in DOMAIN trades /\ trades \in Seq(Trade)
    BY <1>2
  <2> HIDE DEF us, n
  <2>4. us \in Seq(Trade) /\ Len(us) = Len(trades) /\ DOMAIN us = DOMAIN trades
        /\ us[n].state = v /\ us[n].auto = trades[n].auto
        /\ \A j \in DOMAIN trades : j # n => us[j] = trades[j]
    BY ONLY <2>1, <2>2, <2>3, TradeSet
  <2>5. QED
    BY <2>4 DEF us, n
<1>11. Limit' = Limit /\ OnDisk' = OnDisk /\ Limit \in Nat /\ Limit >= 1 /\ Len(r.ids) = 0
  BY <1>1, <1>5, TypeInvParts DEF Limit, OnDisk
<1>12. Fits(mem', Len(trades'), Limit')
  <2>1. n \in 1..n
    BY <1>2
  <2>2. Numbered(mem', n)
    BY <1>5, <1>6, <1>9, <2>1, TypeInvParts DEF Fits, Numbered
  <2>3. Attempted(mem', Limit)
    BY <1>9, <1>11, TypeInvParts DEF Fits, Attempted
  <2>4. OrderOf(r, n) /\ r.src = "commit"
    <3>1. trades[n].kind # "undo"
      BY <1>2, TradeFields
    <3>2. QED
      BY <1>5, <3>1 DEF OrderOf
  <2>5. Provided(mem')
    BY <1>6, <1>9, <2>4 DEF Provided
  <2>6. QED
    BY <1>9, <1>10, <1>11, <2>2, <2>3, <2>5 DEF Fits
<1>13. MaySend'
  <2>1. \A j \in DOMAIN mem'.records :
           mem'.records[j].hedge \in Sends => Len(mem'.records[j].ids) < Limit
    <3> TAKE j \in DOMAIN mem'.records
    <3>1. CASE j \in DOMAIN mem.records
      BY <1>9, <3>1, TypeInvParts DEF MaySend
    <3>2. CASE j \notin DOMAIN mem.records
      BY <1>9, <1>11, <3>2
    <3>3. QED
      BY <3>1, <3>2
  <2>2. retry # 0 => mem'.records[retry].hedge = "retrying"
    BY <1>3, <1>9, TypeInvParts DEF MaySend, PlacesTyped
  <2>3. QED
    BY <1>1, <1>2, <1>11, <2>1, <2>2 DEF MaySend
<1>14. WorldTyped'
  BY <1>1, <1>10, TypeInvParts DEF WorldTyped
<1>15. PlacesTyped' /\ OneWrite'
  BY <1>1, <1>3, <1>9, TypeInvParts DEF PlacesTyped, OneWrite
<1>16. StatesFit'
  BY <1>1, <1>10, <1>11, <1>12, <1>14, TypeInvParts, DiskFits, LimitIs
<1>17. DownHolds' /\ StartHolds' /\ OrderHolds' /\ IdleHolds'
  BY <1>1, <1>2, <1>6, <1>9 DEF DownHolds, StartHolds, OrderHolds, IdleHolds
<1>18. TradeHolds'
  <2>1. \A j \in DOMAIN trades' : j # n => trades'[j].state \in {"executed", "void"}
    BY <1>2, <1>10
  <2>2. \A j \in DOMAIN trades' : trades'[j].state \notin {"quoted", "sent"}
    BY <1>8, <1>10, <2>1
  <2>3. \A j \in DOMAIN trades' : trades'[j].state = "accepted" => j = n
    BY <1>10, <2>1
  <2>4. QED
    BY <1>1, <1>2, <1>6, <1>9, <1>10, <2>1, <2>2, <2>3, ZenonT(40) DEF TradeHolds, Owns
<1>19. EventHolds'
  <2> SUFFICES ASSUME NEW k \in events
               PROVE  /\ k = n /\ trades'[k].state = "executed" /\ start = "up" /\ trades'[k].auto
                      /\ Owns(k)' /\ ~mem'.intent.confirmed
    BY <1>1, <1>10 DEF EventHolds
  <2>1. k = n /\ trades[n].state = "executed"
    BY TypeInvParts DEF EventHolds
  <2>2. v = "executed"
    BY <2>1 DEF v
  <2>3. QED
    BY <1>1, <1>2, <1>6, <1>9, <1>10, <2>1, <2>2 DEF Owns
<1> QED
  BY <1>12, <1>13, <1>14, <1>15, <1>16, <1>17, <1>18, <1>19 DEF TypeInv, Typed, Control


LEMMA SnapshotTyped == ASSUME TypeInv, NEW w \in waiting, TakeSnapshot(w) PROVE TypeInv'
<1>1. /\ writes = {} /\ writes' = {[by |-> w, state |-> Snapshot]}
      /\ UNCHANGED <<trades, events, lighter, refilled, mem, ready, order, follow, retry,
                     waiting, file, start, crashes>>
  BY DEF TakeSnapshot, LockFree, truth, runtime, process
<1>2. start # "down" /\ OnDisk = Limit
  BY TypeInvParts, LimitIs DEF DownHolds
<1>3. Fits(Snapshot, Len(trades), Limit)
  BY SnapshotFits, TypeInvParts
<1>4. WorldTyped' /\ PlacesTyped' /\ OneWrite' /\ MaySend' /\ Limit' = Limit /\ OnDisk' = OnDisk
  BY <1>1, TypeInvParts DEF WorldTyped, PlacesTyped, OneWrite, MaySend, Limit, OnDisk
<1>5. StatesFit'
  <2>1. \A x \in writes' : x.state = Snapshot
    BY <1>1
  <2>2. \A x \in writes' : Fits(x.state, Len(trades), OnDisk)
    BY <1>2, <1>3, <2>1
  <2>3. QED
    BY <1>1, <1>4, <2>2, TypeInvParts DEF StatesFit
<1>6. Control'
  BY <1>1, <1>2, TypeInvParts
  DEF Control, DownHolds, StartHolds, OrderHolds, IdleHolds, TradeHolds, EventHolds, Owns
<1> QED
  BY <1>4, <1>5, <1>6 DEF TypeInv, Typed

LEMMA LandTyped == ASSUME TypeInv, NEW x \in writes, Land(x) PROVE TypeInv'
<1>1. /\ file' = x.state /\ writes' = writes \ {x} /\ waiting' = waiting \ {x.by}
      /\ UNCHANGED <<trades, events, lighter, refilled, mem, ready, order, follow, retry,
                     start, crashes>>
  BY DEF Land, truth, runtime, process
<1>2. WorldTyped' /\ PlacesTyped' /\ MaySend' /\ Limit' = Limit /\ OnDisk' = OnDisk
  BY <1>1, TypeInvParts DEF WorldTyped, PlacesTyped, MaySend, Limit, OnDisk
<1>3. writes' = {}
  BY <1>1, TypeInvParts DEF OneWrite
<1>4. OneWrite' /\ StatesFit'
  BY <1>1, <1>2, <1>3, TypeInvParts DEF OneWrite, StatesFit
<1>5. start # "down"
  BY TypeInvParts DEF DownHolds
<1>6. Control'
  BY <1>1, <1>5, TypeInvParts
  DEF Control, DownHolds, StartHolds, OrderHolds, IdleHolds, TradeHolds, EventHolds, Owns
<1> QED
  BY <1>2, <1>4, <1>6 DEF TypeInv, Typed

\* The exchanges: what is in memory and on disk stays.
LEMMA UndecidedIs ==
    ASSUME TypeInv, NEW n \in DOMAIN trades, trades[n].state \in {"sent", "accepted"}
    PROVE  /\ n = Len(trades) /\ trades[n].auto /\ start \in {"down", "up"}
           /\ start = "up" => Owns(n) /\ ~mem.intent.confirmed
           /\ \A j \in DOMAIN trades : j # n => trades[j].state \in {"executed", "void"}
           /\ events = {}
<1>1. n = Len(trades) /\ trades[n].auto
  BY TypeInvParts DEF TradeHolds
<1>2. start \in {"down", "up"}
  BY TypeInvParts DEF StartHolds, WorldTyped
<1>3. start = "up" => Owns(n) /\ ~mem.intent.confirmed
  BY TypeInvParts DEF TradeHolds
<1>4. events = {}
  BY <1>1, TypeInvParts DEF EventHolds
<1> QED
  BY <1>1, <1>2, <1>3, <1>4, TypeInvParts DEF TradeHolds

LEMMA VarDecides ==
    ASSUME TypeInv, NEW n \in DOMAIN trades, trades[n].state \in {"sent", "accepted"},
           NEW v \in {"executed", "void"}, trades' = [trades EXCEPT ![n].state = v],
           events' = events \/ (start = "up" /\ v = "executed" /\ events' = events \cup {n}),
           UNCHANGED <<lighter, refilled, mem, ready, order, follow, retry, start, crashes,
                       waiting, writes, file>>
    PROVE  TypeInv'
<1>1. /\ n = Len(trades) /\ trades[n].auto /\ start \in {"down", "up"}
      /\ start = "up" => Owns(n) /\ ~mem.intent.confirmed
      /\ \A j \in DOMAIN trades : j # n => trades[j].state \in {"executed", "void"}
      /\ events = {}
  BY UndecidedIs
<1>2. /\ trades' \in Seq(Trade) /\ Len(trades') = n /\ DOMAIN trades' = DOMAIN trades
      /\ trades'[n].state = v /\ trades'[n].auto
      /\ \A j \in DOMAIN trades : j # n => trades'[j] = trades[j]
  <2> DEFINE us == trades'
  <2>1. us = [trades EXCEPT ![n].state = v] /\ trades \in Seq(Trade)
        /\ v \in {"quoted", "sent", "accepted", "executed", "void"}
    BY TypeInvParts
  <2> HIDE DEF us
  <2>2. us \in Seq(Trade) /\ Len(us) = Len(trades) /\ DOMAIN us = DOMAIN trades
        /\ us[n].state = v /\ us[n].auto = trades[n].auto
        /\ \A j \in DOMAIN trades : j # n => us[j] = trades[j]
    BY ONLY <2>1, TradeSet, n \in DOMAIN trades, SMTT(30)
  <2>3. QED
    BY <1>1, <2>2 DEF us
<1>3. WorldTyped' /\ Limit' = Limit /\ OnDisk' = OnDisk
  BY <1>1, <1>2, TypeInvParts DEF WorldTyped, Limit, OnDisk
<1>4. PlacesTyped' /\ OneWrite' /\ MaySend'
  BY <1>3, TypeInvParts DEF PlacesTyped, OneWrite, MaySend
<1>5. StatesFit'
  <2>1. Fits(mem, Len(trades), Limit)'
    BY <1>1, <1>2, <1>3, TypeInvParts
  <2>2. QED
    BY <1>1, <1>2, <1>3, <2>1, DiskFits, TypeInvParts, LimitIs
<1>6. order \in {"idle", "sent"}
  BY <1>1, TypeInvParts DEF OrderHolds, WorldTyped
<1>7. DownHolds' /\ StartHolds' /\ IdleHolds'
  BY <1>1, TypeInvParts DEF DownHolds, StartHolds, IdleHolds
<1>8. OrderHolds'
  BY <1>1, <1>2, <1>6, TypeInvParts DEF OrderHolds, Owns
<1>9. TradeHolds'
  BY <1>1, <1>2 DEF TradeHolds
<1>10. EventHolds'
  BY <1>1, <1>2 DEF EventHolds, Owns
<1> QED
  BY <1>3, <1>4, <1>5, <1>7, <1>8, <1>9, <1>10 DEF TypeInv, Typed, Control

LEMMA VarExecutesTyped == ASSUME TypeInv, NEW n \in DOMAIN trades, VarExecutes(n) PROVE TypeInv'
<1>1. start \in {"down", "up"}
  BY UndecidedIs DEF VarExecutes
<1>2. events' = events \/ (start = "up" /\ events' = events \cup {n})
  BY <1>1 DEF VarExecutes
<1> QED
  BY <1>2, VarDecides DEF VarExecutes, runtime, saving, process

LEMMA VarDropsTyped == ASSUME TypeInv, NEW n \in DOMAIN trades, VarDrops(n) PROVE TypeInv'
BY VarDecides DEF VarDrops, runtime, saving, process

LEMMA LighterExecutesTyped == ASSUME TypeInv, NEW i \in Ids, LighterExecutes(i) PROVE TypeInv'
<1>1. /\ lighter' \in [Ids -> {"none", "sent", "filled", "dead"}]
      /\ UNCHANGED <<trades, events, refilled, mem, ready, order, follow, retry, start, crashes,
                     waiting, writes, file>>
  BY TypeInvParts DEF LighterExecutes, WorldTyped, runtime, saving, process
<1>2. Limit' = Limit /\ OnDisk' = OnDisk
  BY <1>1 DEF Limit, OnDisk
<1>3. Typed'
  BY <1>1, <1>2, TypeInvParts
  DEF Typed, WorldTyped, PlacesTyped, OneWrite, MaySend, StatesFit
<1>4. Control'
  BY <1>1, TypeInvParts
  DEF Control, DownHolds, StartHolds, OrderHolds, IdleHolds, TradeHolds, EventHolds, Owns
<1> QED
  BY <1>3, <1>4 DEF TypeInv

LEMMA OperatorClosesTyped == TypeInv /\ OperatorCloses => TypeInv'
<1> SUFFICES ASSUME TypeInv, OperatorCloses PROVE TypeInv'
  OBVIOUS
<1> DEFINE t == [kind |-> "close", auto |-> FALSE, state |-> "executed"]
<1>1. /\ trades' = Append(trades, t) /\ events' = {Len(trades')}
      /\ Len(trades) < MaxTrades /\ start = "up" /\ mem.paused # "-" /\ mem.intent = <<>>
      /\ UNCHANGED <<lighter, refilled, mem, ready, order, follow, retry, start, crashes,
                     waiting, writes, file>>
  BY DEF OperatorCloses, runtime, saving, process
<1>2. t \in Trade /\ ~t.auto /\ t.state = "executed"
  BY DEF Trade
<1> HIDE DEF t
<1>3. /\ trades' \in Seq(Trade) /\ Len(trades') = Len(trades) + 1 /\ trades'[Len(trades')] = t
      /\ \A n \in DOMAIN trades : trades'[n] = trades[n]
      /\ DOMAIN trades' = DOMAIN trades \cup {Len(trades')}
  BY <1>1, <1>2, TypeInvParts
<1>4. order = "idle" /\ \A n \in DOMAIN trades : trades[n].state \in {"executed", "void"}
  BY <1>1, NothingSent
<1>5. WorldTyped' /\ Limit' = Limit /\ OnDisk' = OnDisk
  BY <1>1, <1>3, TypeInvParts DEF WorldTyped, Limit, OnDisk
<1>6. PlacesTyped' /\ OneWrite' /\ MaySend'
  BY <1>1, <1>5, TypeInvParts DEF PlacesTyped, OneWrite, MaySend
<1>7. Fits(mem, Len(trades), Limit)'
  <2>1. Fits(mem, Len(trades'), Limit)
    BY <1>3, FitsGrows, TypeInvParts
  <2>2. QED
    BY <1>1, <1>5, <2>1
<1>8. StatesFit'
  BY <1>1, <1>3, <1>5, <1>7, DiskFits, TypeInvParts, LimitIs
<1>9. DownHolds' /\ StartHolds' /\ IdleHolds' /\ OrderHolds'
  BY <1>1, <1>4 DEF DownHolds, StartHolds, IdleHolds, OrderHolds
<1>10. TradeHolds'
  BY <1>2, <1>3, <1>4 DEF TradeHolds
<1>11. EventHolds'
  <2>1. \A i \in DOMAIN mem.records : mem.records[i].n # Len(trades')
    BY <1>3, TypeInvParts DEF Fits, Numbered
  <2>2. QED
    BY <1>1, <1>2, <1>3, <2>1 DEF EventHolds
<1> QED
  BY <1>5, <1>6, <1>8, <1>9, <1>10, <1>11 DEF TypeInv, Typed, Control

-----------------------------------------------------------------------------
(* The end of a process, and the next *)

LEMMA EndsTyped ==
    ASSUME TypeInv, Ends, file' = file \/ file' = Snapshot
    PROVE  TypeInv'
<1> DEFINE us == [n \in DOMAIN trades |->
                    IF trades[n].state = "quoted" THEN [trades[n] EXCEPT !.state = "void"]
                    ELSE trades[n]]
<1>1. /\ start # "down" /\ crashes < MaxCrashes /\ crashes' = crashes + 1 /\ start' = "down"
      /\ mem' = Empty /\ ready' = FALSE /\ order' = "idle" /\ follow' = 0 /\ retry' = 0
      /\ events' = {} /\ waiting' = {} /\ writes' = {} /\ trades' = us
      /\ UNCHANGED <<lighter, refilled>>
  BY DEF Ends
<1>2. \A n \in DOMAIN trades : /\ us[n] \in Trade /\ us[n].auto = trades[n].auto
                               /\ us[n].state = IF trades[n].state = "quoted" THEN "void"
                                                ELSE trades[n].state
  <2> TAKE n \in DOMAIN trades
  <2>1. trades[n] \in Trade
    BY TypeInvParts
  <2>2. us[n] = IF trades[n].state = "quoted" THEN [trades[n] EXCEPT !.state = "void"]
                ELSE trades[n]
    OBVIOUS
  <2> HIDE DEF us
  <2>3. QED
    BY <2>1, <2>2 DEF Trade
<1>3. /\ us = [n \in DOMAIN trades |-> us[n]] /\ DOMAIN trades = 1..Len(trades)
      /\ DOMAIN us = DOMAIN trades
  BY TypeInvParts
<1> HIDE DEF us
<1>4. us \in [1..Len(trades) -> Trade]
  BY ONLY <1>2, <1>3
<1>5. us \in Seq(Trade) /\ Len(us) = Len(trades)
  BY ONLY <1>4, TypeInvParts, TypeInv
<1>6. /\ WorldTyped' /\ Len(trades') = Len(trades) /\ Limit' = Limit + 1 /\ OnDisk' = Limit
      /\ OnDisk = Limit
  <2>1. crashes + 1 \in 0..MaxCrashes /\ crashes \in Nat
    BY <1>1, TypeInvParts, ConstantsAre DEF WorldTyped
  <2>2. WorldTyped'
    BY <1>1, <1>5, <2>1, TypeInvParts DEF WorldTyped
  <2>3. QED
    BY <1>1, <1>5, <2>1, <2>2, ConstantsAre DEF Limit, OnDisk
<1>7. Empty \in State /\ Empty.records = <<>> /\ Empty.intent = <<>>
  BY DEF Empty, State
<1>8. PlacesTyped' /\ OneWrite' /\ MaySend'
  BY <1>1, <1>7 DEF PlacesTyped, OneWrite, MaySend
<1>9. StatesFit'
  <2>1. Fits(mem, Len(trades), Limit)'
    BY <1>1, <1>7 DEF Fits, Provided, Numbered, Attempted
  <2>2. Fits(file, Len(trades), OnDisk)'
    <3>1. Fits(file, Len(trades), Limit) /\ Fits(Snapshot, Len(trades), Limit)
      BY <1>6, SnapshotFits, TypeInvParts DEF StatesFit
    <3>2. Fits(file', Len(trades), Limit)
      BY <3>1
    <3>3. QED
      BY <1>6, <3>2
  <2>3. QED
    BY <1>1, <2>1, <2>2 DEF StatesFit
<1>10. DownHolds' /\ StartHolds' /\ OrderHolds' /\ IdleHolds' /\ EventHolds'
  BY <1>1, <1>7 DEF DownHolds, StartHolds, OrderHolds, IdleHolds, EventHolds
<1>11. TradeHolds'
  <2>1. /\ \A n \in DOMAIN trades : n # Len(trades) => trades[n].state \in {"executed", "void"}
        /\ \A n \in DOMAIN trades : trades[n].state \in {"sent", "accepted"} => trades[n].auto
    BY TypeInvParts DEF TradeHolds
  <2>2. QED
    BY <1>1, <1>2, <1>3, <1>6, <2>1 DEF TradeHolds
<1> QED
  BY <1>6, <1>8, <1>9, <1>10, <1>11 DEF TypeInv, Typed, Control

LEMMA CrashTyped == TypeInv /\ Crash => TypeInv'
BY EndsTyped DEF Crash

LEMMA StopTyped == TypeInv /\ Stop => TypeInv'
BY EndsTyped DEF Stop

\* The records of a file, as the next process takes them.
Reloaded(r) == Normalized(RestoredRecord(r))
LEMMA ReloadedIs ==
    ASSUME NEW r \in Record
    PROVE  \E h \in Hedge : /\ Reloaded(r) = [r EXCEPT !.hedge = h]
                            /\ h \notin {"queued", "submitting"}
                            /\ h = "filled" => r.hedge = "filled" \/ r.filled
<1> DEFINE g == IF r.hedge \in {"queued", "submitting"} THEN "was" ELSE r.hedge
           h == IF r.filled THEN "filled" ELSE g
           q == [r EXCEPT !.hedge = g]
<1>1. RestoredRecord(r) = q
  BY DEF RestoredRecord
<1>2. r.hedge \in Hedge
  BY RecordFields
<1>3. g \in Hedge /\ g \notin {"queued", "submitting"}
  BY <1>2 DEF Hedge
<1>4. h \in Hedge /\ h \notin {"queued", "submitting"}
      /\ (h = "filled" => r.hedge = "filled" \/ r.filled)
  BY <1>3 DEF Hedge
<1> HIDE DEF g
<1>5. q \in Record /\ q.filled = r.filled /\ q.hedge = g
  BY <1>3, SetHedge
<1>6. Reloaded(r) = [q EXCEPT !.hedge = h]
  BY <1>1, <1>5 DEF Reloaded, Normalized
<1> HIDE DEF h
<1>7. [q EXCEPT !.hedge = h] = [r EXCEPT !.hedge = h]
  BY <1>5 DEF Record
<1> QED
  BY <1>4, <1>6, <1>7

LEMMA LoadTyped == TypeInv /\ Load => TypeInv'
<1> SUFFICES ASSUME TypeInv, Load PROVE TypeInv'
  OBVIOUS
<1> DEFINE rs == [i \in DOMAIN file.records |-> Normalized(RestoredRecord(file.records[i]))]
           p == RestoredPause(file)
           m == WithRecords(file, rs, p)
           t == IF file.intent = <<>> THEN <<>> ELSE [file.intent EXCEPT !.state = Restored(@)]
           u == Unfinished(rs)
<1>1. /\ start = "down" /\ start' = "inspect" /\ SettledBeforeStart
      /\ mem' = [records |-> u, intent |-> t, paused |-> p]
      /\ waiting' = waiting \cup {<<"start", 0>>}
      /\ UNCHANGED <<trades, events, lighter, refilled, ready, order, follow, retry, crashes,
                     writes, file>>
  BY DEF Load, Persist, truth, runtime
<1>2. /\ mem = Empty /\ ~ready /\ order = "idle" /\ follow = 0 /\ retry = 0
      /\ events = {} /\ waiting = {} /\ writes = {}
  BY <1>1, TypeInvParts DEF DownHolds
<1>3. OnDisk = Limit - 1 /\ OnDisk' = Limit /\ Limit' = Limit
  BY <1>1, TypeInvParts, LimitIs DEF OnDisk, Limit
<1>4. file \in State /\ Fits(file, Len(trades), Limit - 1)
  BY <1>3, TypeInvParts DEF StatesFit, Fits
<1>5. p \in Pause
  BY <1>4, StateFields DEF RestoredPause, Pause
<1>6. \A j \in DOMAIN file.records : \E h \in Hedge : /\ rs[j] = [file.records[j] EXCEPT !.hedge = h]
                                                      /\ h \notin {"queued", "submitting"}
  <2> TAKE j \in DOMAIN file.records
  <2>1. rs[j] = Reloaded(file.records[j]) /\ file.records[j] \in Record
    BY <1>4, StateFields DEF Reloaded
  <2> HIDE DEF rs
  <2>2. QED
    BY <2>1, ReloadedIs
<1>7. DOMAIN rs = DOMAIN file.records /\ rs = [j \in DOMAIN file.records |-> rs[j]]
  OBVIOUS
<1> HIDE DEF rs, p
<1>8. Rehedged(file, rs)
  BY <1>6, <1>7 DEF Rehedged
<1>9. /\ m \in State /\ m.records = rs /\ m.intent = file.intent
      /\ SameRecords(file.records, rs)
      /\ \A j \in DOMAIN file.records : /\ rs[j] \in Record /\ rs[j].src = file.records[j].src
                                        /\ rs[j].ids = file.records[j].ids
  BY ONLY <1>4, <1>5, <1>8, HedgesOnly, ZenonT(40)
<1> HIDE DEF m
<1>10. Fits(m, Len(trades), Limit - 1)
  <2>1. Attempted(m, Limit - 1)
    BY <1>4, <1>7, <1>9 DEF Fits, Attempted
  <2>2. Intended(file, m)
    BY <1>9 DEF Intended
  <2>3. QED
    BY <1>4, <1>9, <2>1, <2>2, FitsEdited
<1>11. \A j \in DOMAIN rs : rs[j].hedge \notin {"queued", "submitting"}
  <2> TAKE j \in DOMAIN rs
  <2>1. PICK h \in Hedge : rs[j] = [file.records[j] EXCEPT !.hedge = h] /\ h \notin {"queued", "submitting"}
    BY <1>6, <1>7
  <2>2. file.records[j] \in Record
    BY <1>4, <1>7, StateFields
  <2> DEFINE q == [file.records[j] EXCEPT !.hedge = h]
  <2>3. q.hedge = h
    BY <2>2, SetHedge
  <2>4. rs[j] = q
    BY <2>1
  <2> HIDE DEF q
  <2>5. QED
    BY ONLY <2>1, <2>3, <2>4
<1>12. u \in Seq(Record) /\ \A k \in DOMAIN u : \E j \in DOMAIN rs : u[k] = rs[j]
  <2>1. rs \in Seq(Record)
    BY <1>9, StateFields
  <2>2. QED
    BY <2>1, UnfinishedIs
<1>13. /\ t \in Intent \cup {<<>>} /\ (t = <<>> <=> file.intent = <<>>)
       /\ t # <<>> => /\ t.n = file.intent.n /\ t.provisional = file.intent.provisional
                      /\ t.state # "committing"
                      /\ Accepted(t) => Accepted(file.intent)
  <2>1. CASE file.intent = <<>>
    BY <2>1
  <2>2. CASE file.intent # <<>>
    <3>1. file.intent \in Intent
      BY <1>4, <2>2, StateFields
    <3> DEFINE f == file.intent
               v == Restored(f.state)
    <3>2. t = [f EXCEPT !.state = v]
      BY <2>2
    <3>3. /\ v \in {"quoting", "prepared", "ambiguous", "committed", "restored"}
          /\ (v \in {"committed", "restored"} => Accepted(f))
      BY <3>1, IntentFields DEF Restored, Accepted
    <3> HIDE DEF t, v
    <3>4. t \in Intent /\ t.n = f.n /\ t.provisional = f.provisional /\ t.state = v
      BY <3>1, <3>2, <3>3 DEF Intent
    <3>5. QED
      BY <2>2, <3>3, <3>4, IntentFields DEF Accepted
  <2>3. QED
    BY <2>1, <2>2
<1> HIDE DEF u, t
<1>14. mem' \in State /\ mem'.records = u /\ mem'.intent = t /\ mem'.paused = p
  BY <1>1, <1>5, <1>12, <1>13, NewState
<1>15. Fits(mem', Len(trades), Limit - 1)
  <2> DEFINE w == [records |-> u, intent |-> file.intent, paused |-> p]
  <2>1. w \in State /\ w.records = u /\ w.intent = file.intent
    BY <1>4, <1>5, <1>12, NewState, StateFields
  <2> HIDE DEF w
  <2>2. Fits(w, Len(trades), Limit - 1)
    BY <1>9, <1>10, <2>1, FitsUnfinished DEF u
  <2>3. SameRecords(w.records, mem'.records) /\ Attempted(mem', Limit - 1)
    BY <1>14, <2>1, <2>2 DEF SameRecords, Fits, Attempted
  <2>4. Intended(w, mem')
    BY <1>13, <1>14, <2>1 DEF Intended
  <2>5. QED
    BY <1>14, <2>1, <2>2, <2>3, <2>4, FitsEdited
<1>16. \A i \in DOMAIN mem'.records :
          /\ mem'.records[i].hedge \notin {"queued", "submitting"}
          /\ Len(mem'.records[i].ids) < Limit
  <2> TAKE i \in DOMAIN mem'.records
  <2>1. mem'.records[i].hedge \notin {"queued", "submitting"}
    BY <1>11, <1>12, <1>14
  <2>2. Len(mem'.records[i].ids) <= Limit - 1 /\ Len(mem'.records[i].ids) \in Nat
    BY <1>14, <1>15, StateFields, RecordFields DEF Fits, Attempted
  <2>3. Len(mem'.records[i].ids) < Limit
    BY <2>2, TypeInvParts
  <2>4. QED
    BY <2>1, <2>3
<1>17. MaySend'
  BY <1>1, <1>2, <1>3, <1>16 DEF MaySend
<1>18. WorldTyped'
  BY <1>1, TypeInvParts DEF WorldTyped
<1>19. PlacesTyped' /\ OneWrite'
  BY <1>1, <1>2, <1>14, StateFields DEF PlacesTyped, OneWrite, Savers
<1>20. StatesFit'
  <2>1. Fits(mem, Len(trades), Limit)'
    <3>1. Limit - 1 \in Int /\ Limit - 1 <= Limit
      BY TypeInvParts
    <3>2. Fits(mem', Len(trades), Limit)
      BY <1>15, <3>1, FitsGrows, TypeInvParts
    <3>3. QED
      BY <1>1, <1>3, <3>2
  <2>2. OnDisk <= OnDisk'
    BY <1>3, TypeInvParts
  <2>3. QED
    BY <1>1, <1>18, <2>1, <2>2, DiskFits, TypeInvParts
<1>21. \A n \in DOMAIN trades : trades[n].state \in {"executed", "void"}
  <2> TAKE n \in DOMAIN trades
  <2>1. trades[n].state \in {"quoted", "sent", "accepted", "executed", "void"}
    BY TradeFields, TypeInvParts
  <2>2. trades[n].state \notin {"quoted", "sent", "accepted"}
    BY <1>1, <1>2, TypeInvParts DEF TradeHolds, SettledBeforeStart
  <2>3. QED
    BY <2>1, <2>2
<1>22. DownHolds' /\ StartHolds' /\ OrderHolds' /\ IdleHolds'
  BY <1>1, <1>2, <1>13, <1>14, <1>21 DEF DownHolds, StartHolds, OrderHolds, IdleHolds
<1>23. TradeHolds' /\ EventHolds'
  BY <1>1, <1>2, <1>21 DEF TradeHolds, EventHolds
<1> QED
  BY <1>17, <1>18, <1>19, <1>20, <1>22, <1>23 DEF TypeInv, Typed, Control

LEMMA UnchangedTyped == TypeInv /\ UNCHANGED vars => TypeInv'
<1> SUFFICES ASSUME TypeInv, UNCHANGED vars PROVE TypeInv'
  OBVIOUS
<1>1. UNCHANGED <<trades, events, lighter, refilled, mem, ready, order, follow, retry,
                  waiting, writes, file, start, crashes>>
  BY DEF vars
<1>2. Limit' = Limit /\ OnDisk' = OnDisk
  BY <1>1 DEF Limit, OnDisk
<1>3. Typed'
  BY <1>1, <1>2, TypeInvParts
  DEF Typed, WorldTyped, PlacesTyped, OneWrite, MaySend, StatesFit
<1>4. Control'
  BY <1>1, TypeInvParts
  DEF Control, DownHolds, StartHolds, OrderHolds, IdleHolds, TradeHolds, EventHolds, Owns
<1> QED
  BY <1>3, <1>4 DEF TypeInv

LEMMA NextTyped == TypeInv /\ [Next]_vars => TypeInv'
<1> SUFFICES ASSUME TypeInv, [Next]_vars PROVE TypeInv'
  OBVIOUS
<1>1. CASE Coroutine
  BY <1>1, MarkIntentTyped, PrepareIntentTyped, GiveUpTyped, SendCommitTyped, AcceptedMergesTyped,
     AcceptedProvisionalTyped, RefusedTyped, AmbiguousTyped DEF Coroutine
<1>2. CASE Rollback \/ StaysAmbiguous \/ FeedFollows \/ \E n \in events : FeedEnters(n)
  BY <1>2, RollbackTyped, StaysAmbiguousTyped, FeedFollowsTyped, FeedEntersTyped
<1>3. CASE Hedging
  <2>1. CASE \E i \in DOMAIN mem.records : \E id \in IdsOf(mem.records[i]) : Report(i, id)
    BY <2>1, ReportsTyped DEF Report
  <2>2. CASE Requeue \/ \E i \in DOMAIN mem.records : Allocate(i) \/ Send(i)
    BY <2>2, RequeueTyped, AllocateTyped, SendTyped
  <2>3. QED
    BY <1>3, <2>1, <2>2 DEF Hedging
<1>4. CASE Reconcile
  BY <1>4, ReconcileTyped
<1>5. CASE (\E w \in waiting : TakeSnapshot(w)) \/ (\E x \in writes : Land(x))
  BY <1>5, SnapshotTyped, LandTyped
<1>6. CASE Exchanges
  BY <1>6, VarExecutesTyped, VarDropsTyped, LighterExecutesTyped, OperatorClosesTyped DEF Exchanges
<1>7. CASE Crash \/ Stop
  BY <1>7, CrashTyped, StopTyped
<1>8. CASE Starting
  <2>1. CASE \E i \in DOMAIN mem.records : \E id \in IdsOf(mem.records[i]) : ProbeFinds(i, id)
    BY <2>1, ReportsTyped DEF ProbeFinds
  <2>2. CASE Load \/ Inspect \/ PrepareRestored \/ ProbeEnds \/ StartHedges \/ ReconcileAtStart
    BY <2>2, LoadTyped, InspectTyped, PrepareRestoredTyped, ProbeEndsTyped, StartHedgesTyped,
       ReconcileAtStartTyped
  <2>3. QED
    BY <1>8, <2>1, <2>2 DEF Starting
<1>9. CASE UNCHANGED vars
  BY <1>9, UnchangedTyped
<1> QED
  BY <1>1, <1>2, <1>3, <1>4, <1>5, <1>6, <1>7, <1>8, <1>9 DEF Next

\* What the records and the file may hold, over every number of trades, crashes and attempts.
THEOREM TypeInvHolds == Spec => []TypeInv
BY InitTyped, NextTyped, PTL DEF Spec

\* Every variable has its type, in memory and on disk, over every number of restarts: a record
\* is never given more ids than there are attempts and starts, an intent that a process reads
\* back is one of those another wrote (load_runtime_state, persist_runtime_state).
THEOREM TypeCorrect == Spec => []TypeOK
<1>1. TypeInv => TypeOK
  <2> SUFFICES ASSUME TypeInv PROVE TypeOK
    OBVIOUS
  <2>1. {mem, file} \subseteq State /\ \A w \in writes : w.by \in waiting /\ w.state \in State
    BY TypeInvParts DEF StatesFit, Fits, OneWrite
  <2>2. {follow, retry} \subseteq 0 .. Len(mem.records)
    BY TypeInvParts DEF PlacesTyped
  <2>3. DOMAIN trades \subseteq Numbers
    BY TypeInvParts DEF WorldTyped, Numbers
  <2>4. QED
    BY <2>1, <2>2, <2>3, TypeInvParts DEF TypeOK, WorldTyped, PlacesTyped
<1> QED
  BY <1>1, TypeInvHolds, PTL

=============================================================================
