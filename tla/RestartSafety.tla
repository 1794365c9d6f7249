--------------------------- MODULE RestartSafety ----------------------------
(***************************************************************************)
(* What a restart never does: open or close twice (NeverDoublesHolds),     *)
(* nor forget an order that may still matter (NothingForgottenHolds).      *)
(***************************************************************************)
EXTENDS RestartProofs

-----------------------------------------------------------------------------
(* Rounds: every close has its open *)

PairedAt(rs, i) ==
    Priced(rs[i]) => /\ rs[i].kind \in {"open", "close"}
                     /\ rs[i].kind = "close" => OpenAfter(rs)[i - 1] # 0
Paired(rs) == \A i \in DOMAIN rs : PairedAt(rs, i)

LEMMA SeqIs ==
    ASSUME NEW rs \in Seq(Record)
    PROVE  Len(rs) \in Nat /\ DOMAIN rs = 1..Len(rs) /\ \A i \in 1..Len(rs) : rs[i] \in Record
OBVIOUS

\* The record that is open is an open one.
LEMMA OpenIsOpen ==
    ASSUME NEW rs \in Seq(Record), Paired(rs), NEW n \in 0..Len(rs), OpenAfter(rs)[n] # 0
    PROVE  OpenAfter(rs)[n] \in 1..n /\ rs[OpenAfter(rs)[n]].kind = "open"
<1> DEFINE f == OpenAfter(rs)
           T == {k \in 0..Len(rs) : f[k] # 0 /\ rs[f[k]].kind # "open"}
<1>1. Len(rs) \in Nat /\ DOMAIN rs = 1..Len(rs)
  OBVIOUS
<1>2. CASE T # {}
  <2>1. PICK x \in T : \A y \in T : x <= y
    <3>1. T \subseteq Nat /\ T # {}
      BY <1>2
    <3> HIDE DEF T
    <3>2. QED
      BY <3>1, LeastElement
  <2>2. f[0] = 0 /\ \A i \in 1..Len(rs) : f[i] = NextOpen(rs, f[i - 1], i)
    BY <1>1, OpenSteps
  <2> HIDE DEF f
  <2>3. x \in 1..Len(rs) /\ x - 1 \in 0..Len(rs) /\ x - 1 \notin T
    BY <2>1, <2>2
  <2>4. f[x - 1] # 0 => rs[f[x - 1]].kind = "open"
    BY <2>3
  <2>5. f[x] = x /\ Priced(rs[x]) /\ ~Completes(rs, f[x - 1], x) /\ rs[x].kind # "open"
    BY <2>1, <2>2, <2>3, <2>4 DEF NextOpen
  <2>6. rs[x].kind = "close" /\ f[x - 1] # 0
    BY <1>1, <2>3, <2>5 DEF Paired, PairedAt, f
  <2>7. QED
    BY <2>4, <2>5, <2>6 DEF Completes
<1>3. CASE T = {}
  BY <1>1, <1>3, OpenIsRecord
<1> QED
  BY <1>2, <1>3

LEMMA PairedSteps ==
    ASSUME NEW rs \in Seq(Record), Paired(rs), NEW i \in 1..Len(rs)
    PROVE  /\ ~Priced(rs[i]) => OpenAfter(rs)[i] = OpenAfter(rs)[i - 1]
           /\ Priced(rs[i]) /\ rs[i].kind = "open" => OpenAfter(rs)[i] = i
           /\ Priced(rs[i]) /\ rs[i].kind # "open" =>
                 /\ rs[i].kind = "close" /\ OpenAfter(rs)[i] = 0 /\ OpenAfter(rs)[i - 1] # 0
                 /\ Completes(rs, OpenAfter(rs)[i - 1], i)
           /\ Completes(rs, OpenAfter(rs)[i - 1], i) => Priced(rs[i]) /\ rs[i].kind = "close"
<1>1. OpenAfter(rs)[i] = NextOpen(rs, OpenAfter(rs)[i - 1], i)
  BY SeqIs, OpenSteps
<1>2. i - 1 \in 0..Len(rs)
  BY SeqIs
<1>3. OpenAfter(rs)[i - 1] # 0 => rs[OpenAfter(rs)[i - 1]].kind = "open"
  BY <1>2, OpenIsOpen
<1>4. PairedAt(rs, i)
  BY SeqIs DEF Paired
<1> QED
  BY <1>1, <1>3, <1>4 DEF NextOpen, Completes, PairedAt

\* What is not open any more is never open again.
LEMMA OpenGone ==
    ASSUME NEW rs \in Seq(Record), NEW j \in 0..Len(rs), NEW i \in 1..j, OpenAfter(rs)[j] # i
    PROVE  \A m \in j..Len(rs) : OpenAfter(rs)[m] # i
<1> DEFINE f == OpenAfter(rs)
           T == {m \in j..Len(rs) : f[m] = i}
<1> SUFFICES ASSUME T # {} PROVE FALSE
  OBVIOUS
<1>1. PICK x \in T : \A y \in T : x <= y
  <2>1. T \subseteq Nat /\ T # {}
    BY SeqIs
  <2> HIDE DEF T
  <2>2. QED
    BY <2>1, LeastElement
<1>2. x # j /\ x \in j..Len(rs)
  BY <1>1
<1>3. x \in 1..Len(rs) /\ x - 1 \in j..Len(rs) /\ x - 1 \notin T
  BY <1>1, <1>2, SeqIs
<1>4. f[x] = NextOpen(rs, f[x - 1], x)
  BY <1>3, SeqIs, OpenSteps
<1> HIDE DEF f
<1>5. f[x - 1] # i /\ f[x] = i
  BY <1>1, <1>3
<1>6. f[x] \in {f[x - 1], 0, x}
  BY <1>4 DEF NextOpen
<1> QED
  BY <1>2, <1>5, <1>6, SeqIs

\* A settled record that is an open one: where its close is.
LEMMA SettledOpen ==
    ASSUME NEW rs \in Seq(Record), Paired(rs), NEW i, i \in Settled(rs), rs[i].kind = "open"
    PROVE  \E j \in 1..Len(rs) : /\ i = OpenAfter(rs)[j - 1] /\ i \in 1..(j - 1) /\ j \in Settled(rs)
                                 /\ Priced(rs[j]) /\ rs[j].kind = "close" /\ OpenAfter(rs)[j] = 0
<1>1. PICK p \in Rounds(rs) : Complete(rs[p[1]]) /\ Complete(rs[p[2]]) /\ i \in {p[1], p[2]}
  BY DEF Settled
<1>2. PICK j \in 1..Len(rs) : p = <<OpenAfter(rs)[j - 1], j>> /\ Completes(rs, OpenAfter(rs)[j - 1], j)
  BY <1>1, SeqIs DEF Rounds
<1>3. Priced(rs[j]) /\ rs[j].kind = "close" /\ OpenAfter(rs)[j] = 0
  BY <1>2, PairedSteps
<1>4. i = OpenAfter(rs)[j - 1]
  BY <1>1, <1>2, <1>3
<1>5. OpenAfter(rs)[j - 1] # 0 /\ j - 1 \in 0..Len(rs)
  BY <1>2, SeqIs DEF Completes
<1>6. i \in 1..(j - 1)
  BY <1>4, <1>5, OpenIsOpen
<1>7. j \in Settled(rs)
  BY <1>1, <1>2 DEF Settled
<1> QED
  BY <1>3, <1>4, <1>6, <1>7

LEMMA OpenNotSettled ==
    ASSUME NEW rs \in Seq(Record), Paired(rs), NEW c \in 1..Len(rs), OpenAfter(rs)[c - 1] # 0,
           Priced(rs[c]), rs[c].kind = "close", c \notin Settled(rs)
    PROVE  OpenAfter(rs)[c - 1] \notin Settled(rs)
<1> DEFINE i == OpenAfter(rs)[c - 1]
<1> SUFFICES ASSUME i \in Settled(rs) PROVE FALSE
  OBVIOUS
<1>1. c - 1 \in 0..Len(rs) /\ Len(rs) \in Nat
  BY SeqIs
<1>2. i \in 1..(c - 1) /\ rs[i].kind = "open"
  BY <1>1, OpenIsOpen
<1>3. PICK j \in 1..Len(rs) : /\ i = OpenAfter(rs)[j - 1] /\ i \in 1..(j - 1) /\ j \in Settled(rs)
                              /\ OpenAfter(rs)[j] = 0
  BY <1>2, SettledOpen
<1>4. OpenAfter(rs)[c] = 0
  BY PairedSteps
<1> HIDE DEF i
<1>5. j # c
  BY <1>3
<1>6. CASE j < c
  <2>1. j \in 0..Len(rs) /\ i \in 1..j /\ c - 1 \in j..Len(rs)
    BY <1>1, <1>3, <1>6
  <2>2. OpenAfter(rs)[c - 1] # i
    BY <1>2, <1>3, <2>1, OpenGone
  <2>3. QED
    BY <2>2 DEF i
<1>7. CASE c < j
  <2>1. c \in 0..Len(rs) /\ i \in 1..c /\ j - 1 \in c..Len(rs)
    BY <1>1, <1>2, <1>7
  <2>2. OpenAfter(rs)[j - 1] # i
    BY <1>2, <1>4, <2>1, OpenGone
  <2>3. QED
    BY <1>3, <2>2
<1> QED
  BY <1>5, <1>6, <1>7

LEMMA CurrentNotSettled ==
    ASSUME NEW rs \in Seq(Record), Paired(rs), CurrentOpen(rs) # 0
    PROVE  CurrentOpen(rs) \notin Settled(rs)
<1> DEFINE i == CurrentOpen(rs)
<1> SUFFICES ASSUME i \in Settled(rs) PROVE FALSE
  OBVIOUS
<1>1. Len(rs) \in 0..Len(rs) /\ Len(rs) \in Nat /\ i = OpenAfter(rs)[Len(rs)]
  BY SeqIs DEF CurrentOpen
<1>2. i \in 1..Len(rs) /\ rs[i].kind = "open"
  BY <1>1, OpenIsOpen
<1>3. PICK j \in 1..Len(rs) : /\ i = OpenAfter(rs)[j - 1] /\ i \in 1..(j - 1) /\ OpenAfter(rs)[j] = 0
  BY <1>2, SettledOpen
<1> HIDE DEF i
<1>4. j \in 0..Len(rs) /\ i \in 1..j /\ Len(rs) \in j..Len(rs)
  BY <1>1, <1>3
<1>5. OpenAfter(rs)[Len(rs)] # i
  BY <1>2, <1>3, <1>4, OpenGone
<1> QED
  BY <1>1, <1>5

\* A record is added.
LEMMA PairedAppend ==
    ASSUME NEW rs \in Seq(Record), NEW r \in Record, Paired(rs),
           Priced(r) => r.kind \in {"open", "close"} /\ (r.kind = "close" => CurrentOpen(rs) # 0)
    PROVE  /\ Paired(Append(rs, r))
           /\ (CurrentOpen(Append(rs, r)) # 0) <=> IF Priced(r) THEN r.kind = "open" ELSE CurrentOpen(rs) # 0
<1> DEFINE q == Append(rs, r)
           n == Len(rs) + 1
<1>1. /\ q \in Seq(Record) /\ Len(q) = n /\ q[n] = r /\ Len(rs) \in Nat /\ Len(rs) \in 0..Len(rs)
      /\ n \in 1..Len(q) /\ n - 1 = Len(rs)
      /\ \A i \in 1..Len(rs) : q[i] = rs[i]
  OBVIOUS
<1>2. /\ \A k \in 0..Len(rs) : OpenAfter(q)[k] = OpenAfter(rs)[k]
      /\ CurrentOpen(q) = NextOpen(q, CurrentOpen(rs), n)
  BY OpenOfAppend
<1> HIDE DEF q
<1>3. \A i \in 1..Len(q) : i \in 1..Len(rs) \/ i = n
  BY <1>1
<1>4. \A i \in 1..Len(rs) : i - 1 \in 0..Len(rs)
  BY <1>1
<1>5. Paired(q)
  <2>1. \A i \in 1..Len(rs) : PairedAt(q, i)
    BY <1>1, <1>2, <1>4, SeqIs DEF Paired, PairedAt
  <2>2. PairedAt(q, n)
    BY <1>1, <1>2 DEF PairedAt, CurrentOpen
  <2>3. QED
    BY <1>1, <1>3, <2>1, <2>2, SeqIs DEF Paired
<1>6. CurrentOpen(q) = OpenAfter(q)[n] /\ CurrentOpen(rs) = OpenAfter(q)[n - 1]
  BY <1>1, <1>2 DEF CurrentOpen
<1>7. n # 0
  BY <1>1
<1>8. (CurrentOpen(q) # 0) <=> IF Priced(r) THEN r.kind = "open" ELSE CurrentOpen(rs) # 0
  BY <1>1, <1>5, <1>6, <1>7, PairedSteps
<1> QED
  BY <1>5, <1>8 DEF q

\* What is kept of paired records is paired, and what is open is kept.
LEMMA UnfinishedPaired ==
    ASSUME NEW rs \in Seq(Record), Paired(rs)
    PROVE  /\ Paired(Unfinished(rs)) /\ Unfinished(rs) \in Seq(Record)
           /\ CurrentOpen(rs) # 0 => CurrentOpen(Unfinished(rs)) # 0
<1> DEFINE S == Settled(rs)
           K == KeptAfter(rs, S)
           f == OpenAfter(rs)
           Good(m) == Paired(K[m]) /\ (f[m] # 0 /\ f[m] \notin S => CurrentOpen(K[m]) # 0)
           T == {m \in 0..Len(rs) : ~Good(m)}
<1>1. Len(rs) \in Nat /\ DOMAIN rs = 1..Len(rs) /\ Len(rs) \in 0..Len(rs)
  OBVIOUS
<1>2. K[0] = <<>> /\ \A i \in 1..Len(rs) :
                        K[i] = IF i \in S THEN K[i - 1] ELSE Append(K[i - 1], rs[i])
  BY <1>1, KeptSteps
<1>3. \A m \in 0..Len(rs) : K[m] \in Seq(Record)
  BY KeptPlaces
<1>4. f[0] = 0
  BY <1>1, OpenSteps
<1>5. \A i \in 1..Len(rs) : i \in S => Priced(rs[i])
  BY SettledIsComplete DEF Complete, Priced
<1>6. T = {}
  <2> SUFFICES ASSUME T # {} PROVE FALSE
    OBVIOUS
  <2>1. PICK x \in T : \A y \in T : x <= y
    <3>1. T \subseteq Nat /\ T # {}
      OBVIOUS
    <3> HIDE DEF T
    <3>2. QED
      BY <3>1, LeastElement
  <2> HIDE DEF K, f, S
  <2>2. Good(0)
    BY <1>2, <1>4 DEF Paired
  <2>3. x \in 1..Len(rs) /\ x - 1 \in 0..Len(rs) /\ x - 1 \notin T
    BY <1>1, <2>1, <2>2
  <2>4. Good(x - 1) /\ K[x - 1] \in Seq(Record) /\ rs[x] \in Record
    BY <1>3, <2>3
  <2>5. /\ ~Priced(rs[x]) => f[x] = f[x - 1] /\ x \notin S
        /\ Priced(rs[x]) /\ rs[x].kind = "open" => f[x] = x
        /\ Priced(rs[x]) /\ rs[x].kind # "open" =>
              /\ rs[x].kind = "close" /\ f[x] = 0 /\ f[x - 1] # 0
              /\ x \notin S => f[x - 1] \notin S
    BY <1>5, <2>3, PairedSteps, OpenNotSettled DEF f, S
  <2>6. CASE x \in S
    <3>1. K[x] = K[x - 1]
      BY <1>2, <2>3, <2>6
    <3>2. f[x] = 0 \/ f[x] \in S
      BY <2>5, <2>6
    <3>3. Good(x)
      BY <2>4, <3>1, <3>2
    <3>4. QED
      BY <2>1, <3>3
  <2>7. CASE x \notin S
    <3> DEFINE k == K[x - 1]
               r == rs[x]
    <3>1. K[x] = Append(k, r) /\ k \in Seq(Record) /\ r \in Record /\ Paired(k)
      BY <1>2, <2>3, <2>4, <2>7
    <3>2. Priced(r) => r.kind \in {"open", "close"} /\ (r.kind = "close" => CurrentOpen(k) # 0)
      BY <2>4, <2>5, <2>7
    <3>3. /\ Paired(K[x])
          /\ (CurrentOpen(K[x]) # 0) <=> IF Priced(r) THEN r.kind = "open" ELSE CurrentOpen(k) # 0
      <4> HIDE DEF k, r
      <4> QED
        BY <3>1, <3>2, PairedAppend
    <3>4. Good(x)
      BY <2>4, <2>5, <2>7, <3>3
    <3>5. QED
      BY <2>1, <3>4
  <2>8. QED
    BY <2>6, <2>7
<1>7. Good(Len(rs)) /\ Unfinished(rs) = K[Len(rs)] /\ CurrentOpen(rs) = f[Len(rs)]
  BY <1>1, <1>6 DEF Unfinished, CurrentOpen
<1>8. CurrentOpen(rs) # 0 => CurrentOpen(rs) \notin S
  BY CurrentNotSettled
<1> HIDE DEF K, f, S
<1> QED
  BY <1>1, <1>3, <1>7, <1>8

-----------------------------------------------------------------------------
(* A state, and what its provisional intent names *)

\* The record of a Commit that is not confirmed is the last that is priced.
IsProvisional(s) == s.intent # <<>> /\ s.intent.provisional
Commit(ts, s, i) ==
    /\ i \in DOMAIN s.records /\ s.records[i].src = "commit" /\ OrderOf(s.records[i], s.intent.n)
    /\ s.records[i].kind = ts[s.intent.n].kind
    /\ \A j \in DOMAIN s.records : j > i => ~Priced(s.records[j])
Pending(ts, s) == IsProvisional(s) => Commit(ts, s, RecordOf(s.records, s.intent.n))
Promised(s) ==
    s.intent # <<>> /\ s.intent.state \in {"committed", "restored"} => s.intent.provisional
Chain(ts, s) == Paired(s.records) /\ Promised(s) /\ Pending(ts, s)

\* The open record, as of before a Commit that is not confirmed.
Tracked(s) ==
    IF IsProvisional(s) THEN OpenAfter(s.records)[RecordOf(s.records, s.intent.n) - 1]
    ELSE CurrentOpen(s.records)

\* Records that differ in their hedges, and new ones that undo a hedge.
Reshaped(p, q) ==
    /\ Len(p) <= Len(q)
    /\ \A i \in 1..Len(p) : q[i].n = p[i].n /\ q[i].kind = p[i].kind /\ q[i].src = p[i].src
    /\ \A i \in 1..Len(q) : i > Len(p) => q[i].kind = "undo" /\ q[i].src = "undo"

LEMMA ReshapedRecords ==
    ASSUME NEW p \in Seq(Record), NEW q \in Seq(Record), Reshaped(p, q)
    PROVE  /\ \A k \in 0..Len(p) : OpenAfter(q)[k] = OpenAfter(p)[k]
           /\ CurrentOpen(q) = CurrentOpen(p)
           /\ Paired(p) => Paired(q)
           /\ \A i \in 1..Len(q) : i > Len(p) => ~Priced(q[i])
<1>1. /\ Len(p) \in Nat /\ Len(q) \in Nat /\ Len(p) <= Len(q) /\ Len(p) \in 0..Len(q)
      /\ Len(q) \in Len(p)..Len(q)
  BY DEF Reshaped
<1>2. \A i \in 1..Len(p) : p[i].kind = q[i].kind /\ (Priced(p[i]) <=> Priced(q[i]))
  BY DEF Reshaped, Priced
<1>3. \A k \in 0..Len(p) : OpenAfter(p)[k] = OpenAfter(q)[k]
  BY <1>1, <1>2, OpensAgree
<1>4. \A i \in 1..Len(q) : i > Len(p) => ~Priced(q[i])
  BY DEF Reshaped, Priced
<1>5. \A i \in (Len(p) + 1)..Len(q) : ~Priced(q[i])
  BY <1>1, <1>4
<1>6. OpenAfter(q)[Len(q)] = OpenAfter(q)[Len(p)]
  BY <1>1, <1>5, OpenStays
<1>7. CurrentOpen(q) = CurrentOpen(p)
  BY <1>1, <1>3, <1>6 DEF CurrentOpen
<1>8. ASSUME Paired(p) PROVE Paired(q)
  <2>1. \A i \in 1..Len(p) : PairedAt(q, i)
    <3> TAKE i \in 1..Len(p)
    <3>1. PairedAt(p, i) /\ i - 1 \in 0..Len(p)
      BY <1>1, <1>8, SeqIs DEF Paired
    <3>2. QED
      BY <1>2, <1>3, <3>1 DEF PairedAt
  <2>2. \A i \in 1..Len(q) : i > Len(p) => PairedAt(q, i)
    BY <1>4 DEF PairedAt
  <2>3. \A i \in 1..Len(q) : i \in 1..Len(p) \/ i > Len(p)
    BY <1>1
  <2>4. QED
    BY <2>1, <2>2, <2>3, SeqIs DEF Paired
<1> QED
  BY <1>3, <1>4, <1>7, <1>8

LEMMA RecordOfReshaped ==
    ASSUME NEW p \in Seq(Record), NEW q \in Seq(Record), Reshaped(p, q), NEW n
    PROVE  RecordOf(q, n) = RecordOf(p, n)
<1> DEFINE i == RecordOf(p, n)
           j == RecordOf(q, n)
<1>1. /\ i \in 0..Len(p) /\ j \in 0..Len(q) /\ Len(p) \in Nat /\ Len(q) \in Nat /\ Len(p) <= Len(q)
  BY RecordOfIs DEF Reshaped
<1>2. /\ i # 0 => OrderOf(p[i], n) /\ \A k \in 1..Len(p) : OrderOf(p[k], n) => i <= k
      /\ i = 0 => \A k \in 1..Len(p) : ~OrderOf(p[k], n)
      /\ j # 0 => OrderOf(q[j], n) /\ \A k \in 1..Len(q) : OrderOf(q[k], n) => j <= k
      /\ j = 0 => \A k \in 1..Len(q) : ~OrderOf(q[k], n)
  BY RecordOfIs, SeqIs
<1>3. /\ \A k \in 1..Len(p) : OrderOf(q[k], n) <=> OrderOf(p[k], n)
      /\ \A k \in 1..Len(q) : k > Len(p) => ~OrderOf(q[k], n)
  BY DEF Reshaped, OrderOf
<1> HIDE DEF i, j
<1>4. j # 0 => j \in 1..Len(p)
  BY <1>1, <1>2, <1>3
<1>5. i # 0 => i \in 1..Len(p) /\ i \in 1..Len(q)
  BY <1>1
<1>6. j = i
  <2>1. CASE i = 0
    BY <1>2, <1>3, <1>4, <2>1
  <2>2. CASE i # 0
    <3>1. OrderOf(q[i], n)
      BY <1>2, <1>3, <1>5, <2>2
    <3>2. j # 0 /\ j <= i
      BY <1>2, <1>5, <2>2, <3>1
    <3>3. i <= j
      BY <1>2, <1>3, <1>4, <2>2, <3>2
    <3>4. QED
      BY <1>1, <3>2, <3>3
  <2>3. QED
    BY <2>1, <2>2
<1> QED
  BY <1>6 DEF i, j

\* An intent goes on: the provisional one is the same, or there was and is none.
SameIntent(s, t) ==
    /\ Promised(t)
    /\ \/ ~IsProvisional(s) /\ ~IsProvisional(t)
       \/ IsProvisional(s) /\ IsProvisional(t) /\ t.intent.n = s.intent.n

LEMMA ReshapedChain ==
    ASSUME NEW ts, NEW s \in State, NEW t \in State, Reshaped(s.records, t.records),
           SameIntent(s, t), Chain(ts, s)
    PROVE  Chain(ts, t) /\ Tracked(t) = Tracked(s)
<1> DEFINE p == s.records
           q == t.records
<1>1. p \in Seq(Record) /\ q \in Seq(Record) /\ Reshaped(p, q)
  BY StateFields
<1> HIDE DEF p, q
<1>2. /\ \A k \in 0..Len(p) : OpenAfter(q)[k] = OpenAfter(p)[k]
      /\ CurrentOpen(q) = CurrentOpen(p)
      /\ Paired(p) => Paired(q)
      /\ \A i \in 1..Len(q) : i > Len(p) => ~Priced(q[i])
  BY <1>1, ReshapedRecords
<1>3. CASE ~IsProvisional(s) /\ ~IsProvisional(t)
  BY <1>2, <1>3 DEF Chain, Pending, Tracked, SameIntent, p, q
<1>4. CASE IsProvisional(s) /\ IsProvisional(t) /\ t.intent.n = s.intent.n
  <2> DEFINE n == s.intent.n
             i == RecordOf(p, n)
  <2>1. RecordOf(q, n) = i
    BY <1>1, RecordOfReshaped
  <2>2. Commit(ts, s, i)
    BY <1>4 DEF Chain, Pending, p
  <2>3. /\ i \in 1..Len(p) /\ p[i].src = "commit" /\ OrderOf(p[i], n) /\ p[i].kind = ts[n].kind
        /\ \A j \in 1..Len(p) : j > i => ~Priced(p[j])
    BY <1>1, <2>2, SeqIs DEF Commit, p
  <2> HIDE DEF i
  <2>4. /\ Len(p) \in Nat /\ Len(q) \in Nat /\ Len(p) <= Len(q)
        /\ \A j \in 1..Len(p) : q[j].n = p[j].n /\ q[j].kind = p[j].kind /\ q[j].src = p[j].src
    BY <1>1 DEF Reshaped
  <2>5. /\ i \in 1..Len(q) /\ q[i].src = "commit" /\ OrderOf(q[i], n) /\ q[i].kind = ts[n].kind
    BY <2>3, <2>4 DEF OrderOf
  <2>6. \A j \in 1..Len(q) : j > i => ~Priced(q[j])
    <3> TAKE j \in 1..Len(q)
    <3>1. CASE j \in 1..Len(p)
      BY <2>3, <2>4, <3>1 DEF Priced
    <3>2. CASE j \notin 1..Len(p)
      BY <1>2, <2>4, <3>2
    <3>3. QED
      BY <3>1, <3>2
  <2>7. Commit(ts, t, i)
    BY <1>1, <1>4, <2>5, <2>6, SeqIs DEF Commit, q
  <2>8. i - 1 \in 0..Len(p)
    BY <2>3, <2>4
  <2>9. OpenAfter(q)[i - 1] = OpenAfter(p)[i - 1]
    BY <1>2, <2>8
  <2>10. Paired(p) => Paired(q)
    BY <1>2
  <2>11. QED
    BY <1>4, <2>1, <2>7, <2>9, <2>10 DEF Chain, Pending, Tracked, SameIntent, p, q, i
<1> QED
  BY <1>3, <1>4 DEF SameIntent

\* What is kept of a state.
LEMMA UnfinishedChain ==
    ASSUME NEW ts, NEW s \in State, NEW t \in State, t.records = Unfinished(s.records),
           SameIntent(s, t), Chain(ts, s)
    PROVE  Chain(ts, t)
<1> DEFINE p == s.records
           q == t.records
<1>1. p \in Seq(Record) /\ q \in Seq(Record) /\ Paired(p) /\ q = Unfinished(p)
  BY StateFields DEF Chain
<1> HIDE DEF p, q
<1>2. Paired(q)
  BY <1>1, UnfinishedPaired
<1>3. CASE ~IsProvisional(t)
  BY <1>2, <1>3 DEF Chain, Pending, SameIntent, q
<1>4. CASE IsProvisional(t)
  <2> DEFINE n == s.intent.n
             i == RecordOf(p, n)
             k == RecordOf(q, n)
  <2>1. IsProvisional(s) /\ t.intent.n = n
    BY <1>4 DEF SameIntent
  <2>2. Commit(ts, s, i)
    BY <2>1 DEF Chain, Pending, p
  <2>3. /\ i \in 1..Len(p) /\ p[i].src = "commit" /\ OrderOf(p[i], n) /\ p[i].kind = ts[n].kind
        /\ \A j \in 1..Len(p) : j > i => ~Priced(p[j])
    BY <1>1, <2>2, SeqIs DEF Commit, p
  <2>4. \A j \in 1..Len(p) : OrderOf(p[j], n) => i <= j
    BY <1>1, <2>3, RecordOfIs, SeqIs
  <2>5. PICK at \in [DOMAIN q -> DOMAIN p] :
          /\ \A l \in DOMAIN q : at[l] \notin Settled(p) /\ q[l] = p[at[l]]
          /\ \A l, m \in DOMAIN q : l < m => at[l] < at[m]
          /\ \A m \in DOMAIN p : m \notin Settled(p) => \E l \in DOMAIN q : at[l] = m
    BY <1>1, UnfinishedIs
  <2>6. DOMAIN p = 1..Len(p) /\ DOMAIN q = 1..Len(q) /\ Len(p) \in Nat /\ Len(q) \in Nat
    BY <1>1
  <2>7. i \notin Settled(p)
    BY <1>1, <2>3, SettledIsComplete DEF Complete
  <2>8. PICK l \in 1..Len(q) : at[l] = i
    BY <2>3, <2>5, <2>6, <2>7
  <2>9. k \in 0..Len(q) /\ (k # 0 => OrderOf(q[k], n) /\ \A m \in 1..Len(q) : OrderOf(q[m], n) => k <= m)
        /\ (k = 0 => \A m \in 1..Len(q) : ~OrderOf(q[m], n))
    BY <1>1, <2>6, RecordOfIs
  <2> HIDE DEF i, k
  <2>10. q[l] = p[i] /\ OrderOf(q[l], n)
    BY <2>3, <2>5, <2>6, <2>8
  <2>11. k \in 1..Len(q) /\ k <= l /\ OrderOf(q[k], n)
    BY <2>6, <2>9, <2>10
  <2>12. k = l
    <3>1. OrderOf(p[at[k]], n) /\ at[k] \in 1..Len(p)
      BY <2>5, <2>6, <2>11
    <3>2. i <= at[k]
      BY <2>4, <3>1
    <3>3. ~(k < l)
      <4>1. k < l => at[k] < i
        BY <2>5, <2>6, <2>8, <2>11
      <4>2. at[k] \in Nat /\ i \in Nat
        BY <2>3, <2>6, <3>1
      <4>3. QED
        BY ONLY <3>2, <4>1, <4>2
    <3>4. QED
      BY <2>11, <3>3
  <2>13. \A j \in 1..Len(q) : j > k => ~Priced(q[j])
    <3> TAKE j \in 1..Len(q)
    <3>1. j > k => at[j] > i /\ at[j] \in 1..Len(p) /\ q[j] = p[at[j]]
      BY <2>3, <2>5, <2>6, <2>8, <2>12
    <3>2. QED
      BY <2>3, <3>1
  <2>14. Commit(ts, t, k)
    BY <2>1, <2>3, <2>6, <2>10, <2>11, <2>12, <2>13 DEF Commit, q
  <2>15. QED
    BY <1>2, <2>1, <2>14 DEF Chain, Pending, SameIntent, q, k
<1> QED
  BY <1>3, <1>4

-----------------------------------------------------------------------------
(* The position *)

ExecutedAs(ts, kind) == {n \in DOMAIN ts : ts[n].kind = kind /\ ts[n].state = "executed"}
Net(ts) == Cardinality(ExecutedAs(ts, "open")) - Cardinality(ExecutedAs(ts, "close"))
Gain(t) == IF t.kind = "open" THEN 1 ELSE -1

LEMMA PositionIs == Position = Net(trades)
BY DEF Position, Net, ExecutedAs

LEMMA PositionIsNext == Position' = Net(trades')
BY DEF Position, Net, ExecutedAs

LEMMA ExecutedFinite ==
    ASSUME NEW ts \in Seq(Trade), NEW kind
    PROVE  IsFiniteSet(ExecutedAs(ts, kind)) /\ Cardinality(ExecutedAs(ts, kind)) \in Nat
<1>1. IsFiniteSet(1..Len(ts))
  BY FS_Interval
<1>2. ExecutedAs(ts, kind) \subseteq 1..Len(ts)
  BY DEF ExecutedAs
<1> QED
  BY <1>1, <1>2, FS_Subset, FS_CardinalityType

\* Trades of which none becomes executed, and none that is executed changes.
SameExecuted(ts, us) ==
    ExecutedAs(us, "open") = ExecutedAs(ts, "open") /\ ExecutedAs(us, "close") = ExecutedAs(ts, "close")

LEMMA NetSame ==
    ASSUME NEW ts, NEW us, SameExecuted(ts, us)
    PROVE  Net(us) = Net(ts)
BY DEF Net, SameExecuted

\* One trade becomes executed.
LEMMA NetGains ==
    ASSUME NEW ts \in Seq(Trade), NEW us \in Seq(Trade), NEW n \in DOMAIN us,
           us[n].state = "executed", n \in DOMAIN ts => ts[n].state # "executed",
           DOMAIN us = DOMAIN ts \cup {n},
           \A m \in DOMAIN ts : m # n => us[m] = ts[m]
    PROVE  Net(us) = Net(ts) + Gain(us[n])
<1>1. us[n].kind \in {"open", "close"}
  BY TradeFields
<1> DEFINE k == us[n].kind
           o == IF k = "open" THEN "close" ELSE "open"
<1>2. ExecutedAs(us, k) = ExecutedAs(ts, k) \cup {n} /\ n \notin ExecutedAs(ts, k)
  BY DEF ExecutedAs
<1>3. ExecutedAs(us, o) = ExecutedAs(ts, o)
  BY DEF ExecutedAs
<1>4. /\ IsFiniteSet(ExecutedAs(ts, "open")) /\ Cardinality(ExecutedAs(ts, "open")) \in Nat
      /\ IsFiniteSet(ExecutedAs(ts, "close")) /\ Cardinality(ExecutedAs(ts, "close")) \in Nat
  BY ExecutedFinite
<1>5. IsFiniteSet(ExecutedAs(ts, k))
  BY <1>1, <1>4
<1>6. Cardinality(ExecutedAs(us, k)) = Cardinality(ExecutedAs(ts, k)) + 1
  BY <1>2, <1>5, FS_AddElement
<1> QED
  BY <1>1, <1>3, <1>4, <1>6 DEF Net, Gain

-----------------------------------------------------------------------------
(* What the runtime takes the position for *)

Runs(t) == t.state \in {"quoted", "sent", "accepted"}
\* A trade whose outcome the runtime has yet to learn of.
Undecided(n) == n \in events \/ (start = "up" /\ Runs(trades[n]))
Side(i) == IF i # 0 THEN 1 ELSE 0

DiskChained == Chain(trades, file) /\ \A w \in writes : Chain(trades, w.state)
\* It is a close if and only if the runtime holds a round open.
Told == \A n \in DOMAIN trades : Undecided(n) => (trades[n].kind = "close" <=> Tracked(mem) # 0)
\* While the automation is ready, the position is what the records say, and the fills to come.
Balanced ==
    ready => /\ events = {} => Net(trades) = Side(Tracked(mem))
             /\ \A n \in events : Net(trades) = Side(Tracked(mem)) + Gain(trades[n])
\* A Commit that was sent still fits the position.
Pledged ==
    \A n \in DOMAIN trades :
        trades[n].state \in {"sent", "accepted"} => Net(trades) = IF trades[n].kind = "open" THEN 0 ELSE 1
\* A fill that the coroutine's order has and no record tells of is waiting.
Heard ==
    order = "sent" /\ trades[Len(trades)].state = "executed" /\ ~mem.intent.confirmed
        => Len(trades) \in events
Flat == Net(trades) \in {0, 1}
Truth == Told /\ Balanced /\ Pledged /\ Heard /\ Flat
SafeInv == TypeInv /\ Chain(trades, mem) /\ DiskChained /\ Truth

KindsKept(ts, us) == \A n \in DOMAIN ts : n \in DOMAIN us /\ us[n].kind = ts[n].kind

LEMMA ChainKept ==
    ASSUME NEW ts \in Seq(Trade), NEW us, KindsKept(ts, us), NEW s, Numbered(s, Len(ts)), Chain(ts, s)
    PROVE  Chain(us, s)
<1>1. CASE IsProvisional(s)
  <2>1. s.intent.n \in DOMAIN ts
    BY <1>1 DEF IsProvisional, Numbered
  <2>2. us[s.intent.n].kind = ts[s.intent.n].kind
    BY <2>1 DEF KindsKept
  <2>3. QED
    BY <2>2 DEF Chain, Pending, Commit
<1>2. CASE ~IsProvisional(s)
  BY <1>2 DEF Chain, Pending
<1> QED
  BY <1>1, <1>2

LEMMA DiskKept ==
    ASSUME TypeInv, DiskChained, KindsKept(trades, trades'), file' = file, writes' \subseteq writes
    PROVE  DiskChained'
<1>1. trades \in Seq(Trade) /\ Numbered(file, Len(trades))
      /\ \A w \in writes : Numbered(w.state, Len(trades))
  BY TypeInvParts DEF StatesFit, Fits
<1>2. Chain(trades', file)
  BY <1>1, ChainKept DEF DiskChained
<1>3. \A w \in writes : Chain(trades', w.state)
  BY <1>1, ChainKept DEF DiskChained
<1> QED
  BY <1>2, <1>3 DEF DiskChained

\* Trades of which none is executed by the step, and none begins.
Still(ts, us) ==
    /\ DOMAIN us = DOMAIN ts
    /\ \A n \in DOMAIN ts : /\ us[n].kind = ts[n].kind
                            /\ us[n].state = "executed" <=> ts[n].state = "executed"
                            /\ Runs(us[n]) => Runs(ts[n])

LEMMA StillIs ==
    ASSUME NEW ts, NEW us, Still(ts, us)
    PROVE  /\ KindsKept(ts, us) /\ Net(us) = Net(ts)
           /\ \A n \in DOMAIN ts : Gain(us[n]) = Gain(ts[n])
<1>1. SameExecuted(ts, us)
  BY DEF Still, SameExecuted, ExecutedAs
<1> QED
  BY <1>1, NetSame DEF Still, KindsKept, Gain

LEMMA StillSame == ASSUME NEW ts PROVE Still(ts, ts)
BY DEF Still

\* A step that leaves open what is open.
LEMMA RestStep ==
    ASSUME SafeInv, TypeInv', Chain(trades', mem'), Tracked(mem') = Tracked(mem),
           Still(trades, trades'), Pledged', Heard',
           UNCHANGED <<events, file>>, writes' \subseteq writes,
           ready' => ready, start' = "up" => start = "up"
    PROVE  SafeInv'
<1>1. TypeInv /\ DiskChained /\ Told /\ Balanced /\ Flat
  BY DEF SafeInv, Truth
<1>2. KindsKept(trades, trades') /\ Net(trades') = Net(trades) /\ DOMAIN trades' = DOMAIN trades
      /\ \A n \in DOMAIN trades : Gain(trades'[n]) = Gain(trades[n]) /\ trades'[n].kind = trades[n].kind
  BY StillIs DEF Still
<1>3. events \subseteq DOMAIN trades
  BY <1>1, TypeInvParts DEF WorldTyped
<1>4. DiskChained'
  BY <1>1, <1>2, DiskKept
<1>5. Told'
  <2> SUFFICES ASSUME NEW n \in DOMAIN trades, Undecided(n)'
               PROVE  trades[n].kind = "close" <=> Tracked(mem) # 0
    BY <1>2 DEF Told
  <2>1. Undecided(n)
    BY DEF Undecided, Still
  <2>2. QED
    BY <1>1, <2>1 DEF Told
<1>6. Balanced'
  BY <1>1, <1>2, <1>3 DEF Balanced
<1>7. Flat'
  BY <1>1, <1>2 DEF Flat
<1> QED
  BY <1>4, <1>5, <1>6, <1>7 DEF SafeInv, Truth

\* ... and the trades alone.
LEMMA QuietStep ==
    ASSUME SafeInv, TypeInv', Reshaped(mem.records, mem'.records), SameIntent(mem, mem'),
           UNCHANGED <<trades, events, file>>, writes' \subseteq writes,
           ready' => ready, start' = "up" => start = "up",
           order' = "sent" => order = "sent" /\ mem'.intent = mem.intent
    PROVE  SafeInv'
<1>1. mem \in State /\ mem' \in State /\ Chain(trades, mem) /\ Pledged /\ Heard
  BY TypeInvParts DEF SafeInv, TypeInv, Typed, StatesFit, Fits, Truth
<1>2. Chain(trades, mem') /\ Tracked(mem') = Tracked(mem)
  BY <1>1, ReshapedChain
<1>3. Pledged' /\ Heard'
  BY <1>1 DEF Pledged, Heard
<1> QED
  BY <1>2, <1>3, StillSame, RestStep

\* ... and of the trades, what none of it rests on.
LEMMA TradesStep ==
    ASSUME SafeInv, TypeInv', Reshaped(mem.records, mem'.records), SameIntent(mem, mem'),
           Still(trades, trades'), Pledged', Heard',
           UNCHANGED <<events, file>>, writes' \subseteq writes,
           ready' => ready, start' = "up" => start = "up"
    PROVE  SafeInv'
<1>1. mem \in State /\ mem' \in State /\ Chain(trades, mem) /\ trades \in Seq(Trade)
      /\ trades' \in Seq(Trade) /\ Numbered(mem', Len(trades'))
  BY TypeInvParts DEF SafeInv, TypeInv, Typed, StatesFit, Fits, WorldTyped
<1>2. Chain(trades, mem') /\ Tracked(mem') = Tracked(mem)
  BY <1>1, ReshapedChain
<1>3. Len(trades') = Len(trades)
  BY <1>1 DEF Still
<1>4. Chain(trades', mem')
  BY <1>1, <1>2, <1>3, StillIs, ChainKept
<1> QED
  BY <1>2, <1>4, RestStep

LEMMA SameReshaped == ASSUME NEW p \in Seq(Record) PROVE Reshaped(p, p)
BY DEF Reshaped

LEMMA SameIntents == ASSUME NEW s, NEW t, Promised(s), t.intent = s.intent PROVE SameIntent(s, t)
BY DEF SameIntent, Promised, IsProvisional

\* The intent of the coroutine's order, cleared or going on.
LEMMA OrderRests ==
    ASSUME TypeInv, mem.intent # <<>> => ~mem.intent.provisional, mem'.records = mem.records,
           mem'.intent # <<>> => /\ ~mem'.intent.provisional
                                /\ mem'.intent.state \notin {"committed", "restored"}
    PROVE  Reshaped(mem.records, mem'.records) /\ SameIntent(mem, mem')
<1>1. mem.records \in Seq(Record)
  BY TypeInvParts, StateFields
<1> QED
  BY <1>1, SameReshaped DEF SameIntent, Promised, IsProvisional

LEMMA SafeIs ==
    ASSUME SafeInv
    PROVE  /\ TypeInv /\ Chain(trades, mem) /\ DiskChained /\ Told /\ Balanced /\ Pledged /\ Heard
           /\ Flat /\ mem \in State /\ mem.records \in Seq(Record) /\ trades \in Seq(Trade)
           /\ Promised(mem) /\ Paired(mem.records)
BY TypeInvParts, StateFields DEF SafeInv, Truth, Chain

LEMMA PrepareIntentSafe == SafeInv /\ TypeInv' /\ PrepareIntent => SafeInv'
<1> SUFFICES ASSUME SafeInv, TypeInv', PrepareIntent PROVE SafeInv'
  OBVIOUS
<1>1. /\ order = "marked" /\ order' = "prepared" /\ mem' = [mem EXCEPT !.intent.state = "prepared"]
      /\ UNCHANGED <<trades, events, lighter, refilled, ready, follow, retry, start, crashes,
                     writes, file>>
  BY DEF PrepareIntent, Persist, process, truth
<1>2. mem.intent \in Intent /\ mem.intent # <<>> /\ ~mem.intent.provisional
  BY <1>1, OrderIs, SafeIs DEF CurrentIntent
<1> DEFINE new == [mem.intent EXCEPT !.state = "prepared"]
<1>3. new.state = "prepared" /\ new.provisional = mem.intent.provisional
  BY <1>2, SetIntentState
<1>4. mem' = [mem EXCEPT !.intent = new]
  BY <1>1
<1> HIDE DEF new
<1>5. mem'.records = mem.records /\ mem'.intent = new
  BY <1>4, SafeIs DEF State
<1>6. Reshaped(mem.records, mem'.records) /\ SameIntent(mem, mem')
  BY <1>2, <1>3, <1>5, OrderRests, SafeIs
<1> QED
  BY <1>1, <1>6, QuietStep

\* A trade that goes on.
SetsTrade(ts, n, v, us) ==
    /\ ts \in Seq(Trade) /\ n \in DOMAIN ts /\ us = [ts EXCEPT ![n].state = v]
    /\ v \in {"quoted", "sent", "accepted", "executed", "void"}

LEMMA TradeGoesOn ==
    ASSUME NEW ts, NEW n, NEW v, NEW us, SetsTrade(ts, n, v, us)
    PROVE  /\ us \in Seq(Trade) /\ Len(us) = Len(ts) /\ DOMAIN us = DOMAIN ts /\ us[n].state = v
           /\ us[n].kind = ts[n].kind /\ us[n].auto = ts[n].auto
           /\ \A k \in DOMAIN ts : k # n => us[k] = ts[k]
<1> DEFINE t == [ts[n] EXCEPT !.state = v]
<1>1. /\ ts \in Seq(Trade) /\ n \in DOMAIN ts /\ us = [ts EXCEPT ![n] = t]
      /\ v \in {"quoted", "sent", "accepted", "executed", "void"}
  BY DEF SetsTrade
<1>2. ts[n] \in Trade
  BY <1>1
<1>3. t \in Trade /\ t.state = v /\ t.kind = ts[n].kind /\ t.auto = ts[n].auto
  BY <1>1, <1>2 DEF Trade
<1> HIDE DEF t
<1> QED
  BY <1>1, <1>3

\* The last trade is the coroutine's; it ends, or is sent.
LEMMA LastSet ==
    ASSUME TypeInv, order # "idle", NEW v \in {"quoted", "sent", "accepted", "executed", "void"},
           trades' = [trades EXCEPT ![Len(trades)].state = v]
    PROVE  /\ Len(trades') = Len(trades) /\ DOMAIN trades' = DOMAIN trades
           /\ Len(trades) \in DOMAIN trades
           /\ trades'[Len(trades)].state = v /\ trades'[Len(trades)].kind = trades[Len(trades)].kind
           /\ trades'[Len(trades)].auto = trades[Len(trades)].auto
           /\ \A k \in DOMAIN trades : k # Len(trades) =>
                 trades'[k] = trades[k] /\ trades[k].state \in {"executed", "void"}
<1>1. /\ Len(trades) \in DOMAIN trades /\ trades \in Seq(Trade)
      /\ \A k \in DOMAIN trades : k # Len(trades) => trades[k].state \in {"executed", "void"}
  BY OrderIs, TypeInvParts
<1> DEFINE us == trades'
           n == Len(trades)
<1>2. us = [trades EXCEPT ![n].state = v] /\ n \in DOMAIN trades
  BY <1>1
<1> HIDE DEF us, n
<1>3. Len(us) = Len(trades) /\ DOMAIN us = DOMAIN trades /\ us[n].state = v
      /\ us[n].kind = trades[n].kind /\ us[n].auto = trades[n].auto
      /\ \A k \in DOMAIN trades : k # n => us[k] = trades[k]
  <2>1. SetsTrade(trades, n, v, us)
    BY <1>1, <1>2 DEF SetsTrade
  <2>2. QED
    BY ONLY <2>1, TradeGoesOn
<1> QED
  BY <1>1, <1>3 DEF us, n

LEMMA GiveUpSafe == SafeInv /\ TypeInv' /\ GiveUp => SafeInv'
<1> SUFFICES ASSUME SafeInv, TypeInv', GiveUp PROVE SafeInv'
  OBVIOUS
<1>1. /\ order \in {"marked", "prepared"} /\ mem' = [mem EXCEPT !.intent = <<>>]
      /\ trades' = [trades EXCEPT ![Len(trades)].state = "void"] /\ order' = "idle"
      /\ UNCHANGED <<events, lighter, refilled, ready, follow, retry, start, crashes, writes, file>>
  BY OrderIs, SafeIs DEF GiveUp, Persist, process
<1>2. mem'.records = mem.records /\ mem'.intent = <<>> /\ ~mem.intent.provisional
  BY <1>1, SafeIs, OrderIs DEF State
<1>3. Reshaped(mem.records, mem'.records) /\ SameIntent(mem, mem')
  BY <1>2, OrderRests, SafeIs
<1>4. /\ Len(trades') = Len(trades) /\ DOMAIN trades' = DOMAIN trades
      /\ Len(trades) \in DOMAIN trades /\ trades[Len(trades)].state = "quoted"
      /\ trades'[Len(trades)].state = "void" /\ trades'[Len(trades)].kind = trades[Len(trades)].kind
      /\ \A k \in DOMAIN trades : k # Len(trades) =>
            trades'[k] = trades[k] /\ trades[k].state \in {"executed", "void"}
  BY <1>1, LastSet, OrderIs, SafeIs
<1>5. Still(trades, trades')
  BY <1>4 DEF Still, Runs
<1>6. Pledged' /\ Heard'
  BY <1>1, <1>4 DEF Pledged, Heard
<1> QED
  BY <1>1, <1>3, <1>5, <1>6, TradesStep

\* The order fits the position: the automation is ready, and no fill waits.
LEMMA SendCommitSafe == SafeInv /\ TypeInv' /\ SendCommit => SafeInv'
<1> SUFFICES ASSUME SafeInv, TypeInv', SendCommit PROVE SafeInv'
  OBVIOUS
<1>1. /\ order = "prepared" /\ order' = "sent"
      /\ mem' = [mem EXCEPT !.intent.state = "committing"]
      /\ trades' = [trades EXCEPT ![Len(trades)].state = "sent"]
      /\ UNCHANGED <<events, lighter, refilled, ready, follow, retry, start, crashes,
                     waiting, writes, file>>
  BY DEF SendCommit, NoSave, saving, process
<1>2. mem.intent \in Intent /\ mem.intent # <<>> /\ ~mem.intent.provisional /\ ready /\ start = "up"
  BY <1>1, OrderIs, SafeIs DEF CurrentIntent
<1> DEFINE new == [mem.intent EXCEPT !.state = "committing"]
           last == Len(trades)
<1>3. new.state = "committing" /\ new.provisional = mem.intent.provisional
  BY <1>2, SetIntentState
<1>4. mem' = [mem EXCEPT !.intent = new]
  BY <1>1
<1> HIDE DEF new
<1>5. mem'.records = mem.records /\ mem'.intent = new
  BY <1>4, SafeIs DEF State
<1>6. Reshaped(mem.records, mem'.records) /\ SameIntent(mem, mem')
  BY <1>2, <1>3, <1>5, OrderRests, SafeIs
<1>7. /\ Len(trades') = last /\ DOMAIN trades' = DOMAIN trades
      /\ last \in DOMAIN trades /\ trades[last].state = "quoted"
      /\ trades'[last].state = "sent" /\ trades'[last].kind = trades[last].kind
      /\ \A k \in DOMAIN trades : k # last =>
            trades'[k] = trades[k] /\ trades[k].state \in {"executed", "void"}
  BY <1>1, LastSet, OrderIs, SafeIs
<1>8. Still(trades, trades') /\ Net(trades') = Net(trades)
  <2>1. Still(trades, trades')
    BY <1>7 DEF Still, Runs
  <2>2. QED
    BY <2>1, StillIs
<1>9. events = {}
  BY <1>7, NoEvents, SafeIs
<1>10. Net(trades) = Side(Tracked(mem)) /\ (trades[last].kind = "close" <=> Tracked(mem) # 0)
  BY <1>2, <1>7, <1>9, SafeIs DEF Balanced, Told, Undecided, Runs
<1>11. Net(trades) = IF trades[last].kind = "open" THEN 0 ELSE 1
  BY <1>7, <1>10, TradeFields, SafeIs DEF Side
<1>12. Pledged' /\ Heard'
  <2>1. \A k \in DOMAIN trades' : trades'[k].state \in {"sent", "accepted"} => k = last
    BY <1>7
  <2>2. Pledged'
    BY <1>7, <1>8, <1>11, <2>1 DEF Pledged
  <2>3. QED
    BY <1>7, <2>2 DEF Heard
<1> QED
  BY <1>1, <1>6, <1>8, <1>12, TradesStep

LEMMA RefusedSafe == SafeInv /\ TypeInv' /\ Refused => SafeInv'
<1> SUFFICES ASSUME SafeInv, TypeInv', Refused PROVE SafeInv'
  OBVIOUS
<1>1. /\ order = "sent" /\ order' = "idle" /\ mem' = [mem EXCEPT !.intent = <<>>]
      /\ UNCHANGED <<trades, events, lighter, refilled, ready, follow, retry, start, crashes,
                     writes, file>>
  BY OrderIs, SafeIs DEF Refused, Answered, Persist, process, truth
<1>2. mem'.records = mem.records /\ mem'.intent = <<>> /\ ~mem.intent.provisional
  BY <1>1, SafeIs, OrderIs DEF State
<1>3. Reshaped(mem.records, mem'.records) /\ SameIntent(mem, mem')
  BY <1>2, OrderRests, SafeIs
<1> QED
  BY <1>1, <1>3, QuietStep

-----------------------------------------------------------------------------
(* Hedges leave the rounds alone *)

LEMMA RecordReshaped ==
    ASSUME NEW rs \in Seq(Record), NEW k \in DOMAIN rs, NEW r,
           r.n = rs[k].n, r.kind = rs[k].kind, r.src = rs[k].src
    PROVE  Reshaped(rs, [rs EXCEPT ![k] = r])
<1> DEFINE q == [rs EXCEPT ![k] = r]
<1>1. /\ Len(rs) \in Nat /\ DOMAIN rs = 1..Len(rs) /\ DOMAIN q = DOMAIN rs
      /\ q = [j \in 1..Len(rs) |-> IF j = k THEN r ELSE rs[j]]
  OBVIOUS
<1>2. Len(q) = Len(rs) /\ \A j \in 1..Len(rs) : q[j] = IF j = k THEN r ELSE rs[j]
  BY <1>1
<1> HIDE DEF q
<1> QED
  BY <1>1, <1>2 DEF Reshaped, q

LEMMA HedgeReshaped ==
    ASSUME NEW rs \in Seq(Record), NEW k \in DOMAIN rs, NEW h \in Hedge
    PROVE  Reshaped(rs, [rs EXCEPT ![k].hedge = h])
<1> DEFINE r == [rs[k] EXCEPT !.hedge = h]
<1>1. rs[k] \in Record
  OBVIOUS
<1>2. r.n = rs[k].n /\ r.kind = rs[k].kind /\ r.src = rs[k].src
  BY <1>1, SetHedge
<1>3. [rs EXCEPT ![k].hedge = h] = [rs EXCEPT ![k] = r]
  OBVIOUS
<1> HIDE DEF r
<1> QED
  BY <1>2, <1>3, RecordReshaped

\* A step of which the records say nothing new.
LEMMA HedgeRests ==
    ASSUME SafeInv, TypeInv', Reshaped(mem.records, mem'.records), mem'.intent = mem.intent,
           UNCHANGED <<trades, events, ready, order, start, file, writes>>
    PROVE  SafeInv'
BY SafeIs, SameIntents, QuietStep

LEMMA SendSafe == ASSUME SafeInv, TypeInv', NEW i \in DOMAIN mem.records, Send(i) PROVE SafeInv'
<1>1. /\ mem' = [mem EXCEPT !.records[i].hedge = "submitted"]
      /\ UNCHANGED <<trades, events, ready, order, follow, retry, start, crashes, writes, file>>
  BY DEF Send, PersistHedge, runtime, process
<1>2. mem'.records = [mem.records EXCEPT ![i].hedge = "submitted"] /\ mem'.intent = mem.intent
  BY <1>1, SafeIs DEF State
<1>3. Reshaped(mem.records, mem'.records)
  BY <1>2, HedgeReshaped, SafeIs DEF Hedge
<1> QED
  BY <1>1, <1>2, <1>3, HedgeRests

LEMMA RequeueSafe == SafeInv /\ TypeInv' /\ Requeue => SafeInv'
<1> SUFFICES ASSUME SafeInv, TypeInv', Requeue PROVE SafeInv'
  OBVIOUS
<1>1. /\ retry # 0
      /\ UNCHANGED <<trades, events, ready, order, start, writes, file>>
      /\ mem' = mem \/ mem' = [mem EXCEPT !.records[retry].hedge = "queued"]
  BY DEF Requeue, NoSave, saving, truth, process
<1>2. retry \in DOMAIN mem.records
  BY <1>1, TypeInvParts, StateFields, SafeIs DEF PlacesTyped
<1>3. /\ \/ mem'.records = mem.records
         \/ mem'.records = [mem.records EXCEPT ![retry].hedge = "queued"]
      /\ mem'.intent = mem.intent
  BY <1>1, SafeIs DEF State
<1>4. mem.records \in Seq(Record) /\ "queued" \in Hedge
  BY SafeIs DEF Hedge
<1>5. Reshaped(mem.records, mem'.records)
  BY <1>2, <1>3, <1>4, HedgeReshaped, SameReshaped
<1> QED
  BY <1>1, <1>3, <1>5, HedgeRests

LEMMA FeedFollowsSafe == SafeInv /\ TypeInv' /\ FeedFollows => SafeInv'
<1> SUFFICES ASSUME SafeInv, TypeInv', FeedFollows PROVE SafeInv'
  OBVIOUS
<1>1. /\ follow # 0
      /\ UNCHANGED <<trades, events, ready, order, start, writes, file>>
      /\ \/ mem' = mem
         \/ mem' = [mem EXCEPT !.records[follow].hedge = "queued"]
         \/ mem' = [mem EXCEPT !.records[follow].hedge = "skipped", !.paused = PauseFor("recon")]
  BY DEF FeedFollows, NoSave, Persist, saving, truth, process
<1>2. follow \in DOMAIN mem.records
  BY <1>1, TypeInvParts, StateFields, SafeIs DEF PlacesTyped
<1>3. /\ \/ mem'.records = mem.records
         \/ mem'.records = [mem.records EXCEPT ![follow].hedge = "queued"]
         \/ mem'.records = [mem.records EXCEPT ![follow].hedge = "skipped"]
      /\ mem'.intent = mem.intent
  BY <1>1, SafeIs DEF State
<1>4. mem.records \in Seq(Record) /\ "queued" \in Hedge /\ "skipped" \in Hedge
  BY SafeIs DEF Hedge
<1>5. Reshaped(mem.records, mem'.records)
  BY <1>2, <1>3, <1>4, HedgeReshaped, SameReshaped
<1> QED
  BY <1>1, <1>3, <1>5, HedgeRests

LEMMA AllocateSafe == ASSUME SafeInv, TypeInv', NEW i \in DOMAIN mem.records, Allocate(i) PROVE SafeInv'
<1> DEFINE r == mem.records[i]
           h == IF PreparedPrimary(r) THEN "submitted" ELSE "submitting"
           new == Tried(r, h, NextId(r))
<1>1. /\ \/ mem' = [mem EXCEPT !.records[i].hedge = "filled"]
         \/ mem' = [mem EXCEPT !.records[i].hedge = "error", !.paused = PauseFor("recon")]
         \/ mem' = [mem EXCEPT !.records[i].hedge = h, !.records[i].ids = Append(@, NextId(r))]
      /\ UNCHANGED <<trades, events, ready, order, start, writes, file>>
  BY DEF Allocate, PersistHedge, NoSave, saving, runtime, process
<1>2. /\ \/ mem'.records = [mem.records EXCEPT ![i].hedge = "filled"]
         \/ mem'.records = [mem.records EXCEPT ![i].hedge = "error"]
         \/ mem'.records = [mem.records EXCEPT ![i] = new]
      /\ mem'.intent = mem.intent
  <2>1. CASE mem' = [mem EXCEPT !.records[i].hedge = h, !.records[i].ids = Append(@, NextId(r))]
    <3>1. mem'.records = [mem.records EXCEPT ![i].hedge = h, ![i].ids = Append(@, NextId(r))]
          /\ mem'.intent = mem.intent
      BY <2>1, SafeIs DEF State
    <3>2. QED
      BY <3>1 DEF Tried
  <2>2. QED
    BY <1>1, <2>1, SafeIs DEF State
<1>3. new.n = r.n /\ new.kind = r.kind /\ new.src = r.src
  <2>1. r \in Record
    BY SafeIs
  <2>2. QED
    BY <2>1 DEF Tried, Record
<1> HIDE DEF new
<1>4. mem.records \in Seq(Record) /\ "filled" \in Hedge /\ "error" \in Hedge
  BY SafeIs DEF Hedge
<1>5. Reshaped(mem.records, [mem.records EXCEPT ![i] = new])
  BY <1>3, <1>4, RecordReshaped
<1>6. /\ Reshaped(mem.records, [mem.records EXCEPT ![i].hedge = "filled"])
      /\ Reshaped(mem.records, [mem.records EXCEPT ![i].hedge = "error"])
  BY <1>4, HedgeReshaped
<1>7. Reshaped(mem.records, mem'.records)
  BY <1>2, <1>5, <1>6
<1> QED
  BY <1>1, <1>2, <1>7, HedgeRests

\* A record that is added undoes a hedge.
LEMMA UndoReshaped ==
    ASSUME NEW p \in Seq(Record), NEW q \in Seq(Record), Reshaped(p, q), NEW r \in Record,
           NEW extra, extra \in {<<>>, <<Undo(r)>>}
    PROVE  Reshaped(p, q \o extra)
<1>1. Undo(r) \in Record /\ Undo(r).kind = "undo" /\ Undo(r).src = "undo"
  BY UndoIs
<1>2. Len(p) \in Nat /\ Len(q) \in Nat /\ Len(p) <= Len(q)
  BY DEF Reshaped
<1>3. CASE extra = <<>>
  BY <1>3
<1>4. CASE extra = <<Undo(r)>>
  <2> DEFINE u == Undo(r)
             w == q \o <<u>>
  <2> HIDE DEF u
  <2>1. u \in Record /\ u.kind = "undo" /\ u.src = "undo"
    BY <1>1 DEF u
  <2>2. Len(w) = Len(q) + 1 /\ w[Len(q) + 1] = u /\ \A j \in 1..Len(q) : w[j] = q[j]
    BY <2>1
  <2> HIDE DEF w
  <2>3. \A j \in 1..Len(w) : j \in 1..Len(q) \/ j = Len(q) + 1
    BY <1>2, <2>2
  <2>4. Reshaped(p, w)
    BY <1>2, <2>1, <2>2, <2>3 DEF Reshaped
  <2>5. QED
    BY <1>4, <2>4 DEF w, u
<1> QED
  BY <1>3, <1>4

LEMMA ReportsSafe ==
    ASSUME SafeInv, TypeInv', NEW i \in DOMAIN mem.records, NEW id, Reports(i, id), start' = start
    PROVE  SafeInv'
<1> DEFINE r == mem.records[i]
           new == Updated(r, id)
           undo == new.src = "unconfirmed" /\ new.filled /\ ~Undone(mem.records, new)
           extra == IF undo THEN <<Undo(new)>> ELSE <<>>
           rs == [mem.records EXCEPT ![i] = new]
<1>1. /\ Concerns(r, id)
      /\ mem' = [mem EXCEPT !.records = rs \o extra,
                            !.paused = IF new.hedge = "error" THEN PauseFor("recon") ELSE @]
      /\ UNCHANGED <<trades, events, ready, order, start, writes, file>>
  BY DEF Reports, Persist, truth, process
<1>2. r \in Record /\ mem.records \in Seq(Record)
  BY SafeIs
<1>3. id \in Ids
  BY <1>1, <1>2, ConcernedId
<1>4. new \in Record /\ new.n = r.n /\ new.kind = r.kind /\ new.src = r.src
  <2> HIDE DEF r
  <2> DEFINE u == Updated(r, id)
  <2>1. u \in Record /\ u.n = r.n /\ u.kind = r.kind /\ u.src = r.src
    BY ONLY <1>2, <1>3, UpdatedIs
  <2>2. QED
    BY ONLY <2>1
<1> HIDE DEF new
<1>5. Reshaped(mem.records, rs) /\ rs \in Seq(Record)
  BY <1>2, <1>4, RecordReshaped
<1>6. extra \in {<<>>, <<Undo(new)>>}
  OBVIOUS
<1> HIDE DEF extra, rs
<1>7. Reshaped(mem.records, rs \o extra)
  BY <1>2, <1>4, <1>5, <1>6, UndoReshaped
<1>8. mem'.records = rs \o extra /\ mem'.intent = mem.intent
  BY <1>1, SafeIs DEF State
<1> QED
  BY <1>1, <1>7, <1>8, HedgeRests

\* A fill that is bound to the order whose answer comes: its record is hedged.
LEMMA BoundIs ==
    ASSUME TypeInv, order = "sent", mem.intent.confirmed
    PROVE  RecordOf(mem.records, Len(trades)) \in DOMAIN mem.records
<1>1. \E i \in DOMAIN mem.records : OrderOf(mem.records[i], Len(trades))
  BY TypeInvParts DEF OrderHolds
<1> QED
  BY <1>1, TypeInvParts, StateFields, RecordOfIs

LEMMA AcceptedMergesSafe == SafeInv /\ TypeInv' /\ AcceptedMerges => SafeInv'
<1> SUFFICES ASSUME SafeInv, TypeInv', AcceptedMerges PROVE SafeInv'
  OBVIOUS
<1> DEFINE k == RecordOf(mem.records, Len(trades))
<1>1. /\ order = "sent" /\ order' = "idle" /\ mem.intent.confirmed
      /\ mem' = [mem EXCEPT !.intent = <<>>, !.records[k].hedge = "queued"]
      /\ UNCHANGED <<trades, events, ready, start, writes, file>>
  BY DEF AcceptedMerges, Answered, NoSave, saving, truth, process
<1>2. k \in DOMAIN mem.records /\ ~mem.intent.provisional
  BY <1>1, BoundIs, OrderIs, SafeIs
<1> HIDE DEF k
<1>3. mem'.records = [mem.records EXCEPT ![k].hedge = "queued"] /\ mem'.intent = <<>>
  BY <1>1, SafeIs DEF State
<1>4. Reshaped(mem.records, mem'.records)
  BY <1>2, <1>3, HedgeReshaped, SafeIs DEF Hedge
<1>5. SameIntent(mem, mem')
  BY <1>2, <1>3 DEF SameIntent, Promised, IsProvisional
<1> QED
  BY <1>1, <1>4, <1>5, QuietStep

LEMMA AmbiguousSafe == SafeInv /\ TypeInv' /\ Ambiguous => SafeInv'
<1> SUFFICES ASSUME SafeInv, TypeInv', Ambiguous PROVE SafeInv'
  OBVIOUS
<1> DEFINE k == RecordOf(mem.records, Len(trades))
           t == [mem.intent EXCEPT !.state = "ambiguous"]
<1>1. /\ order = "sent" /\ order' = "idle"
      /\ UNCHANGED <<trades, events, ready, start, writes, file>>
      /\ mem' = [mem EXCEPT
                 !.paused = "other",
                 !.intent = IF ~CurrentIntent THEN @
                            ELSE IF @.confirmed THEN <<>> ELSE t,
                 !.records = IF CurrentIntent /\ mem.intent.confirmed
                             THEN [@ EXCEPT ![k].hedge = "queued"] ELSE @]
  BY DEF Ambiguous, Answered, Persist, truth, process
<1>2. CurrentIntent /\ ~mem.intent.provisional /\ mem.intent \in Intent
  BY <1>1, OrderIs, SafeIs
<1>3. t.state = "ambiguous" /\ t.provisional = mem.intent.provisional
  BY <1>2, SetIntentState
<1>4. mem.intent.confirmed => k \in DOMAIN mem.records
  BY <1>1, BoundIs, SafeIs
<1> HIDE DEF k, t
<1>5. /\ mem'.intent = IF mem.intent.confirmed THEN <<>> ELSE t
      /\ mem'.records = IF mem.intent.confirmed THEN [mem.records EXCEPT ![k].hedge = "queued"]
                        ELSE mem.records
  BY <1>1, <1>2, SafeIs DEF State
<1>6. Reshaped(mem.records, mem'.records)
  <2>1. mem.records \in Seq(Record) /\ "queued" \in Hedge
    BY SafeIs DEF Hedge
  <2>2. QED
    BY <1>4, <1>5, <2>1, HedgeReshaped, SameReshaped
<1>7. SameIntent(mem, mem')
  BY <1>2, <1>3, <1>5 DEF SameIntent, Promised, IsProvisional
<1> QED
  BY <1>1, <1>6, <1>7, QuietStep

-----------------------------------------------------------------------------
(* The start's hedges, and the exchanges *)

\* Records of which only the state of the hedge changes.
LEMMA RehedgedIs ==
    ASSUME NEW s \in State, NEW rs, Rehedged(s, rs)
    PROVE  rs \in Seq(Record) /\ Reshaped(s.records, rs)
<1>1. s.paused \in Pause /\ s.records \in Seq(Record) /\ DOMAIN s.records = 1..Len(s.records)
  BY StateFields
<1> DEFINE p == s.paused
           w == WithRecords(s, rs, p)
<1> HIDE DEF p
<1>2. /\ w \in State /\ w.records = rs /\ SameRecords(s.records, rs)
      /\ \A j \in DOMAIN s.records : rs[j] \in Record /\ rs[j].src = s.records[j].src
  <2>1. p \in Pause /\ s \in State /\ Rehedged(s, rs)
    BY <1>1 DEF p
  <2>2. QED
    BY ONLY <2>1, HedgesOnly
<1>3. rs \in Seq(Record)
  BY <1>2, StateFields
<1> HIDE DEF w
<1>4. Reshaped(s.records, rs)
  BY <1>1, <1>2, <1>3 DEF Reshaped, SameRecords
<1> QED
  BY <1>3, <1>4

LEMMA PrepareRestoredSafe == SafeInv /\ TypeInv' /\ PrepareRestored => SafeInv'
<1> SUFFICES ASSUME SafeInv, TypeInv', PrepareRestored PROVE SafeInv'
  OBVIOUS
<1> DEFINE rs == [j \in DOMAIN mem.records |-> Resumed(mem.records[j])]
<1>1. /\ start' = "probe" /\ mem'.records = rs /\ mem'.intent = mem.intent
      /\ UNCHANGED <<trades, events, ready, order, file, writes>>
  BY SafeIs DEF PrepareRestored, Stage, Persist, NoSave, saving, truth, runtime, State
<1>2. \A j \in DOMAIN mem.records : \E h \in Hedge : rs[j] = [mem.records[j] EXCEPT !.hedge = h]
  <2> TAKE j \in DOMAIN mem.records
  <2> DEFINE r == mem.records[j]
  <2>1. r \in Record
    BY SafeIs
  <2>2. rs[j] = Resumed(r)
    OBVIOUS
  <2> HIDE DEF r, rs
  <2>3. r = [r EXCEPT !.hedge = r.hedge] /\ r.hedge \in Hedge
    BY <2>1 DEF Record, Hedge
  <2>4. \E h \in {r.hedge, "required", "check"} : Resumed(r) = [r EXCEPT !.hedge = h]
    BY <2>3 DEF Resumed
  <2>5. {r.hedge, "required", "check"} \subseteq Hedge
    BY <2>3 DEF Hedge
  <2>6. QED
    BY <2>2, <2>4, <2>5 DEF r
<1>3. DOMAIN rs = DOMAIN mem.records /\ rs = [j \in DOMAIN mem.records |-> rs[j]]
  OBVIOUS
<1> HIDE DEF rs
<1>4. Reshaped(mem.records, rs)
  BY <1>2, <1>3, RehedgedIs, SafeIs DEF Rehedged
<1>5. SameIntent(mem, mem')
  BY <1>1, SafeIs, SameIntents
<1> QED
  BY <1>1, <1>4, <1>5, QuietStep

LEMMA ProbeEndsSafe == SafeInv /\ TypeInv' /\ ProbeEnds => SafeInv'
<1> SUFFICES ASSUME SafeInv, TypeInv', ProbeEnds PROVE SafeInv'
  OBVIOUS
<1> DEFINE rs == [j \in DOMAIN mem.records |->
                    IF mem.records[j].hedge = "check" THEN [mem.records[j] EXCEPT !.hedge = "none"]
                    ELSE mem.records[j]]
<1>1. /\ start' = "finish" /\ mem'.records = rs /\ mem'.intent = mem.intent
      /\ UNCHANGED <<trades, events, ready, order, file, writes>>
  BY SafeIs DEF ProbeEnds, Stage, Persist, NoSave, saving, truth, runtime, State
<1>2. \A j \in DOMAIN mem.records : \E h \in Hedge : rs[j] = [mem.records[j] EXCEPT !.hedge = h]
  <2> TAKE j \in DOMAIN mem.records
  <2> DEFINE r == mem.records[j]
  <2>1. r \in Record
    BY SafeIs
  <2>2. rs[j] = IF r.hedge = "check" THEN [r EXCEPT !.hedge = "none"] ELSE r
    OBVIOUS
  <2> HIDE DEF r, rs
  <2>3. r = [r EXCEPT !.hedge = r.hedge] /\ r.hedge \in Hedge /\ "none" \in Hedge
    BY <2>1 DEF Record, Hedge
  <2>4. QED
    BY <2>2, <2>3 DEF r
<1>3. DOMAIN rs = DOMAIN mem.records /\ rs = [j \in DOMAIN mem.records |-> rs[j]]
  OBVIOUS
<1> HIDE DEF rs
<1>4. Reshaped(mem.records, rs)
  BY <1>2, <1>3, RehedgedIs, SafeIs DEF Rehedged
<1>5. SameIntent(mem, mem')
  BY <1>1, SafeIs, SameIntents
<1> QED
  BY <1>1, <1>4, <1>5, QuietStep

LEMMA UnchangedSafe ==
    ASSUME SafeInv, TypeInv', UNCHANGED <<trades, events, mem, ready, order, start, file, writes>>
    PROVE  SafeInv'
<1>1. Reshaped(mem.records, mem'.records)
  BY SameReshaped, SafeIs
<1> QED
  BY <1>1, HedgeRests

LEMMA VarDropsSafe == ASSUME SafeInv, TypeInv', NEW n \in DOMAIN trades, VarDrops(n) PROVE SafeInv'
<1>1. /\ trades[n].state \in {"sent", "accepted"}
      /\ trades' = [trades EXCEPT ![n].state = "void"]
      /\ UNCHANGED <<events, mem, ready, order, start, file, writes>>
  BY DEF VarDrops, runtime, saving, process
<1>2. n = Len(trades) /\ \A k \in DOMAIN trades : k # n => trades[k].state \in {"executed", "void"}
  BY <1>1, UndecidedIs, SafeIs
<1>3. /\ Len(trades') = Len(trades) /\ DOMAIN trades' = DOMAIN trades
      /\ trades'[n].state = "void" /\ trades'[n].kind = trades[n].kind
      /\ \A k \in DOMAIN trades : k # n => trades'[k] = trades[k]
  <2> DEFINE us == trades'
  <2>1. SetsTrade(trades, n, "void", us)
    BY <1>1, SafeIs DEF SetsTrade
  <2> HIDE DEF us
  <2>2. Len(us) = Len(trades) /\ DOMAIN us = DOMAIN trades /\ us[n].state = "void"
        /\ us[n].kind = trades[n].kind /\ \A k \in DOMAIN trades : k # n => us[k] = trades[k]
    BY ONLY <2>1, TradeGoesOn
  <2>3. QED
    BY <2>2 DEF us
<1>4. Still(trades, trades')
  BY <1>1, <1>3 DEF Still, Runs
<1>5. Pledged' /\ Heard'
  BY <1>2, <1>3 DEF Pledged, Heard
<1>6. Reshaped(mem.records, mem'.records) /\ SameIntent(mem, mem')
  BY <1>1, SameReshaped, SameIntents, SafeIs
<1> QED
  BY <1>1, <1>4, <1>5, <1>6, TradesStep

\* It is executed as its Commit was pledged, and its fill waits.
LEMMA VarExecutesSafe == ASSUME SafeInv, TypeInv', NEW n \in DOMAIN trades, VarExecutes(n) PROVE SafeInv'
<1>1. /\ trades[n].state \in {"sent", "accepted"}
      /\ trades' = [trades EXCEPT ![n].state = "executed"]
      /\ events' = IF start = "down" THEN events ELSE events \cup {n}
      /\ UNCHANGED <<mem, ready, order, start, file, writes>>
  BY DEF VarExecutes, runtime, saving, process
<1>2. /\ n = Len(trades) /\ events = {} /\ start \in {"down", "up"}
      /\ \A k \in DOMAIN trades : k # n => trades[k].state \in {"executed", "void"}
  BY <1>1, UndecidedIs, SafeIs
<1>3. /\ Len(trades') = Len(trades) /\ DOMAIN trades' = DOMAIN trades
      /\ trades'[n].state = "executed" /\ trades'[n].kind = trades[n].kind
      /\ \A k \in DOMAIN trades : k # n => trades'[k] = trades[k]
  <2> DEFINE us == trades'
  <2>1. SetsTrade(trades, n, "executed", us)
    BY <1>1, SafeIs DEF SetsTrade
  <2> HIDE DEF us
  <2>2. Len(us) = Len(trades) /\ DOMAIN us = DOMAIN trades /\ us[n].state = "executed"
        /\ us[n].kind = trades[n].kind /\ \A k \in DOMAIN trades : k # n => us[k] = trades[k]
    BY ONLY <2>1, TradeGoesOn
  <2>3. QED
    BY <2>2 DEF us
<1>4. trades[n].kind \in {"open", "close"} /\ Gain(trades'[n]) = Gain(trades[n])
      /\ KindsKept(trades, trades')
  BY <1>3, TradeFields, SafeIs DEF Gain, KindsKept
<1>5. Net(trades') = Net(trades) + Gain(trades'[n])
  <2>1. trades' \in Seq(Trade) /\ trades \in Seq(Trade) /\ DOMAIN trades' = DOMAIN trades \cup {n}
        /\ trades[n].state # "executed"
    BY <1>1, <1>3, SafeIs DEF TypeInv, Typed, WorldTyped
  <2>2. QED
    BY <1>3, <2>1, NetGains
<1>6. Net(trades) = IF trades[n].kind = "open" THEN 0 ELSE 1
  BY <1>1, SafeIs DEF Pledged
<1>7. Flat'
  BY <1>4, <1>5, <1>6 DEF Flat, Gain
<1>8. Pledged'
  BY <1>2, <1>3 DEF Pledged
<1>9. Heard'
  <2>1. order = "sent" => start = "up"
    BY OrderIs, SafeIs
  <2>2. QED
    BY <1>1, <1>2, <1>3, <2>1 DEF Heard
<1>10. Told'
  <2> SUFFICES ASSUME NEW k \in DOMAIN trades, Undecided(k)'
               PROVE  trades[k].kind = "close" <=> Tracked(mem) # 0
    BY <1>1, <1>3, <1>4 DEF Told, KindsKept
  <2>1. k = n /\ start = "up"
    BY <1>1, <1>2, <1>3 DEF Undecided, Runs
  <2>2. Undecided(n)
    BY <1>1, <2>1 DEF Undecided, Runs
  <2>3. QED
    BY <2>1, <2>2, SafeIs DEF Told
<1>11. Balanced'
  <2> SUFFICES ASSUME ready
               PROVE  /\ events' = {} => Net(trades') = Side(Tracked(mem))
                      /\ \A k \in events' : Net(trades') = Side(Tracked(mem)) + Gain(trades'[k])
    BY <1>1 DEF Balanced
  <2>1. start = "up"
    BY <1>2, SafeIs, TypeInvParts DEF DownHolds
  <2>2. events' = {n}
    BY <1>1, <1>2, <2>1
  <2>3. Net(trades) = Side(Tracked(mem))
    BY <1>2, SafeIs DEF Balanced
  <2>4. QED
    BY <1>5, <2>2, <2>3
<1>12. DiskChained' /\ Chain(trades', mem')
  <2>1. Numbered(mem, Len(trades)) /\ trades \in Seq(Trade)
    BY SafeIs, TypeInvParts DEF Fits
  <2>2. Chain(trades', mem)
    BY <1>4, <2>1, ChainKept, SafeIs
  <2>3. QED
    BY <1>1, <1>4, <2>2, DiskKept, SafeIs
<1> QED
  BY <1>7, <1>8, <1>9, <1>10, <1>11, <1>12 DEF SafeInv, Truth

-----------------------------------------------------------------------------
(* An order begins, and its Commit is accepted *)

LEMMA MarkIntentSafe == SafeInv /\ TypeInv' /\ MarkIntent => SafeInv'
<1> SUFFICES ASSUME SafeInv, TypeInv', MarkIntent PROVE SafeInv'
  OBVIOUS
<1> DEFINE t == [kind |-> IF CurrentOpen(mem.records) = 0 THEN "open" ELSE "close",
                 auto |-> TRUE, state |-> "quoted"]
           new == [n |-> Len(trades'), state |-> "quoting", provisional |-> FALSE,
                   confirmed |-> FALSE]
           last == Len(trades')
<1>1. /\ trades' = Append(trades, t) /\ mem' = [mem EXCEPT !.intent = new]
      /\ start = "up" /\ ready /\ mem.intent = <<>> /\ mem.paused = "-" /\ order' = "marked"
      /\ UNCHANGED <<events, ready, start, writes, file>>
  BY DEF MarkIntent, Persist, process, TransitionInProgress
<1>2. t \in Trade /\ t.state = "quoted" /\ (t.kind = "close" <=> CurrentOpen(mem.records) # 0)
  BY DEF Trade
<1>3. new.state = "quoting" /\ ~new.provisional
  OBVIOUS
<1> HIDE DEF t, new
<1>4. /\ last = Len(trades) + 1 /\ trades'[last] = t /\ \A n \in DOMAIN trades : trades'[n] = trades[n]
      /\ DOMAIN trades' = DOMAIN trades \cup {last} /\ last \notin DOMAIN trades
  BY <1>1, <1>2, SafeIs
<1>5. mem'.records = mem.records /\ mem'.intent = new
  BY <1>1, SafeIs DEF State
<1>6. events = {}
  BY <1>1, SafeIs, TypeInvParts DEF EventHolds, Owns, WorldTyped
<1>7. \A n \in DOMAIN trades : trades[n].state \in {"executed", "void"}
  BY <1>1, NothingSent, SafeIs
<1>8. Chain(trades', mem') /\ Tracked(mem') = CurrentOpen(mem.records)
      /\ Tracked(mem) = CurrentOpen(mem.records)
  BY <1>1, <1>3, <1>5, SafeIs DEF Chain, Promised, Pending, IsProvisional, Tracked
<1> HIDE DEF last
<1>9. KindsKept(trades, trades') /\ Net(trades') = Net(trades)
  <2>1. SameExecuted(trades, trades')
    BY <1>2, <1>4 DEF SameExecuted, ExecutedAs
  <2>2. QED
    BY <1>4, <2>1, NetSame DEF KindsKept
<1>10. DiskChained'
  BY <1>1, <1>9, DiskKept, SafeIs
<1>11. Told'
  <2> SUFFICES ASSUME NEW n \in DOMAIN trades', Undecided(n)'
               PROVE  trades'[n].kind = "close" <=> Tracked(mem') # 0
    BY DEF Told
  <2>1. n = last
    BY <1>1, <1>4, <1>6, <1>7 DEF Undecided, Runs
  <2>2. QED
    BY <1>2, <1>4, <1>8, <2>1
<1>12. Balanced' /\ Flat'
  BY <1>1, <1>6, <1>8, <1>9, SafeIs DEF Balanced, Flat
<1>13. Pledged' /\ Heard'
  BY <1>1, <1>2, <1>4, <1>7 DEF Pledged, Heard
<1> QED
  BY <1>8, <1>10, <1>11, <1>12, <1>13 DEF SafeInv, Truth

LEMMA AcceptedProvisionalSafe == SafeInv /\ TypeInv' /\ AcceptedProvisional => SafeInv'
<1> SUFFICES ASSUME SafeInv, TypeInv', AcceptedProvisional PROVE SafeInv'
  OBVIOUS
<1> DEFINE last == Len(trades)
           v == IF trades[last].state = "sent" THEN "accepted" ELSE trades[last].state
           r == [NewRecord(last, "commit") EXCEPT !.hedge = "queued"]
           t == [mem.intent EXCEPT !.state = "committed", !.provisional = TRUE]
           rs == Append(mem.records, r)
           i == Len(mem.records) + 1
<1>1. /\ order = "sent" /\ order' = "idle" /\ ~mem.intent.confirmed
      /\ trades[last].state \in {"sent", "executed"}
      /\ trades' = [trades EXCEPT ![last].state = v]
      /\ mem' = [mem EXCEPT !.records = rs, !.intent = t]
      /\ UNCHANGED <<events, ready, start, writes, file>>
  BY DEF AcceptedProvisional, Answered, NoSave, saving, process
<1>2. /\ last \in DOMAIN trades /\ mem.intent \in Intent /\ mem.intent.n = last
      /\ ~mem.intent.provisional /\ start = "up" /\ last \in Numbers
  BY <1>1, OrderIs, SafeIs
<1>3. t # <<>> /\ t.n = last /\ t.provisional /\ t.state = "committed"
  <2>1. t \in Intent /\ t.n = mem.intent.n /\ t.provisional /\ t.state = "committed"
    BY <1>2 DEF Intent
  <2>2. QED
    BY <1>2, <2>1, IntentFields
<1>4. /\ r \in Record /\ r.n = last /\ r.kind = trades[last].kind /\ r.src = "commit"
      /\ r.kind \in {"open", "close"} /\ trades[last].kind \in {"open", "close"}
  <2>1. NewRecord(last, "commit") \in Record /\ "queued" \in Hedge
        /\ NewRecord(last, "commit").n = last /\ NewRecord(last, "commit").kind = trades[last].kind
        /\ NewRecord(last, "commit").src = "commit"
    BY <1>2, SafeIs, NewRecordIs DEF Hedge, Source
  <2>2. trades[last].kind \in {"open", "close"}
    BY <1>2, SafeIs, TradeFields
  <2>3. QED
    BY <2>1, <2>2, SetHedge
<1>5. v \in {"accepted", "executed"} /\ (v = "executed" <=> trades[last].state = "executed")
  BY <1>1
<1> HIDE DEF t, r, v
<1>6. mem'.records = rs /\ mem'.intent = t
  BY <1>1, SafeIs DEF State
<1>7. /\ Len(trades') = last /\ DOMAIN trades' = DOMAIN trades
      /\ trades'[last].state = v /\ trades'[last].kind = trades[last].kind
      /\ \A k \in DOMAIN trades : k # last =>
            trades'[k] = trades[k] /\ trades[k].state \in {"executed", "void"}
  <2>1. v \in {"quoted", "sent", "accepted", "executed", "void"} /\ order # "idle"
    BY <1>1, <1>5
  <2>2. QED
    BY ONLY <1>1, <2>1, LastSet, SafeIs, SafeInv
<1>8. Still(trades, trades')
  BY <1>1, <1>5, <1>7 DEF Still, Runs
<1>9. \A j \in DOMAIN mem.records : mem.records[j].n # last
  BY <1>1, SafeIs, TypeInvParts DEF OrderHolds
<1>10. /\ rs \in Seq(Record) /\ Len(rs) = i /\ rs[i] = r /\ i \in 1..Len(rs) /\ i - 1 = Len(mem.records)
       /\ \A j \in 1..Len(mem.records) : rs[j] = mem.records[j]
       /\ \A j \in 1..Len(rs) : j \in 1..Len(mem.records) \/ j = i
       /\ DOMAIN rs = 1..Len(rs) /\ Len(mem.records) \in 0..Len(mem.records)
       /\ DOMAIN mem.records = 1..Len(mem.records)
  BY <1>4, SafeIs
<1>11. Undecided(last)
  BY <1>1, <1>2, SafeIs DEF Undecided, Runs, Heard
<1>12. Tracked(mem) = CurrentOpen(mem.records)
  BY <1>2 DEF Tracked, IsProvisional
<1>13. trades[last].kind = "close" => CurrentOpen(mem.records) # 0
  BY <1>2, <1>11, <1>12, SafeIs DEF Told
<1>14. Paired(rs) /\ OpenAfter(rs)[Len(mem.records)] = CurrentOpen(mem.records)
  <2>1. mem.records \in Seq(Record) /\ Paired(mem.records) /\ Len(mem.records) \in 0..Len(mem.records)
    BY <1>10, SafeIs
  <2>2. Paired(rs)
    BY <1>4, <1>13, <2>1, PairedAppend
  <2>3. OpenAfter(rs)[Len(mem.records)] = OpenAfter(mem.records)[Len(mem.records)]
    BY <1>4, <2>1, OpenOfAppend
  <2>4. QED
    BY <2>2, <2>3 DEF CurrentOpen
<1> HIDE DEF rs, i
<1>15. RecordOf(rs, last) = i
  <2>1. /\ RecordOf(rs, last) \in 0..Len(rs)
        /\ RecordOf(rs, last) # 0 =>
                 /\ RecordOf(rs, last) \in DOMAIN rs /\ OrderOf(rs[RecordOf(rs, last)], last)
        /\ RecordOf(rs, last) = 0 => \A k \in DOMAIN rs : ~OrderOf(rs[k], last)
    BY <1>10, RecordOfIs
  <2>2. OrderOf(rs[i], last)
    BY <1>4, <1>10 DEF OrderOf
  <2>3. QED
    BY <1>9, <1>10, <2>1, <2>2 DEF OrderOf
<1>16. Commit(trades', mem', i)
  <2>1. \A j \in DOMAIN rs : ~(j > i)
    BY <1>10
  <2>2. QED
    BY <1>3, <1>4, <1>6, <1>7, <1>10, <2>1 DEF Commit, OrderOf
<1>17. Chain(trades', mem') /\ Tracked(mem') = Tracked(mem)
  BY <1>3, <1>6, <1>10, <1>12, <1>14, <1>15, <1>16 DEF Chain, Promised, Pending, IsProvisional, Tracked
<1>18. Pledged' /\ Heard'
  <2>1. Net(trades') = Net(trades)
    BY <1>8, StillIs
  <2>2. trades'[last].state = "accepted" => trades[last].state = "sent"
    BY <1>1, <1>5, <1>7
  <2>3. Pledged'
    BY <1>7, <2>1, <2>2, SafeIs, <1>2, <1>5 DEF Pledged
  <2>4. QED
    BY <1>1, <2>3 DEF Heard
<1> QED
  BY <1>1, <1>8, <1>17, <1>18, RestStep

-----------------------------------------------------------------------------
(* A Commit that is executed no more is rolled back *)

\* Its record is priced no more, nor is any after it: what was open before it is open.
LEMMA RolledBackChain ==
    ASSUME NEW ts, NEW s \in State, IsProvisional(s), Chain(ts, s)
    PROVE  /\ RolledBack(s) \in State /\ RolledBack(s).intent = <<>> /\ Paired(RolledBack(s).records)
           /\ CurrentOpen(RolledBack(s).records) = Tracked(s)
           /\ \A j \in DOMAIN RolledBack(s).records : Priced(RolledBack(s).records[j]) =>
                 /\ j \in DOMAIN s.records /\ RolledBack(s).records[j] = s.records[j]
                 /\ OpenAfter(RolledBack(s).records)[j - 1] = OpenAfter(s.records)[j - 1]
<1> DEFINE p == s.records
           q == RolledBack(s).records
           i == RecordOf(p, s.intent.n)
<1>1. Commit(ts, s, i) /\ Paired(p) /\ Tracked(s) = OpenAfter(p)[i - 1]
  BY DEF Chain, Pending, Tracked
<1>2. /\ i \in DOMAIN p /\ \A j \in DOMAIN p : j > i => ~Priced(p[j])
  BY <1>1 DEF Commit
<1> HIDE DEF i
<1>3. /\ RolledBack(s) \in State /\ RolledBack(s).intent = <<>>
      /\ Grown(p, q)
      /\ \A j \in DOMAIN p : q[j] = IF j = i THEN [p[i] EXCEPT !.src = "unconfirmed"] ELSE p[j]
      /\ \A j \in DOMAIN q \ DOMAIN p : q[j] = Undo(p[i])
  BY <1>2, RolledBackIs DEF i, IsProvisional
<1>4. /\ p \in Seq(Record) /\ q \in Seq(Record) /\ DOMAIN p = 1..Len(p) /\ DOMAIN q = 1..Len(q)
      /\ Len(p) \in Nat /\ Len(q) \in Nat /\ Len(p) <= Len(q)
  BY <1>3, StateFields DEF Grown
<1> HIDE DEF p, q
<1>5. ~Priced(q[i])
  <2>1. p[i] \in Record
    BY <1>2, <1>4
  <2>2. q[i] = [p[i] EXCEPT !.src = "unconfirmed"]
    BY <1>2, <1>3
  <2>3. q[i].src = "unconfirmed"
    BY <2>1, <2>2 DEF Record
  <2>4. QED
    BY <2>3 DEF Priced
<1>6. \A j \in DOMAIN q : j > i => ~Priced(q[j])
  <2> TAKE j \in DOMAIN q
  <2>1. CASE j \in DOMAIN p
    <3>1. j > i => j # i
      BY <1>2, <1>4, <2>1
    <3>2. QED
      BY <1>2, <1>3, <2>1, <3>1
  <2>2. CASE j \notin DOMAIN p
    <3>1. q[j] = Undo(p[i]) /\ p[i] \in Record
      BY <1>2, <1>3, <1>4, <2>2
    <3>2. q[j].src = "undo"
      BY <3>1, UndoIs
    <3>3. QED
      BY <3>2 DEF Priced
  <2>3. QED
    BY <2>1, <2>2
<1>7. /\ i \in 1..Len(p) /\ i - 1 \in Nat /\ i - 1 <= Len(p) /\ i - 1 <= Len(q)
      /\ i - 1 \in 0..Len(q) /\ Len(q) \in (i - 1)..Len(q)
  BY <1>2, <1>4
<1>8. \A j \in 1..(i - 1) : j \in DOMAIN p /\ j # i /\ q[j] = p[j]
  <2>1. \A j \in 1..(i - 1) : j \in DOMAIN p /\ j # i
    BY <1>4, <1>7
  <2>2. QED
    BY <1>3, <2>1
<1>9. \A k \in 0..(i - 1) : OpenAfter(p)[k] = OpenAfter(q)[k]
  <2> DEFINE n == i - 1
  <2>1. \A j \in 1..n : p[j].kind = q[j].kind /\ (Priced(p[j]) <=> Priced(q[j]))
    BY <1>8
  <2>2. n \in Nat /\ n <= Len(p) /\ n <= Len(q)
    BY <1>7
  <2> HIDE DEF n
  <2>3. \A k \in 0..n : OpenAfter(p)[k] = OpenAfter(q)[k]
    BY <1>4, <2>1, <2>2, OpensAgree
  <2>4. QED
    BY <2>3 DEF n
<1>10. \A j \in i..Len(q) : ~Priced(q[j])
  BY <1>4, <1>5, <1>6, <1>7
<1>11. OpenAfter(q)[Len(q)] = OpenAfter(q)[i - 1]
  <2>1. \A j \in ((i - 1) + 1)..Len(q) : ~Priced(q[j])
    BY <1>7, <1>10
  <2>2. QED
    BY <1>4, <1>7, <2>1, OpenStays
<1>12. CurrentOpen(q) = OpenAfter(p)[i - 1]
  BY <1>7, <1>9, <1>11 DEF CurrentOpen
<1>13. Paired(q)
  <2>1. \A j \in 1..Len(q) : j \in 1..(i - 1) \/ j \in i..Len(q)
    BY <1>7
  <2>2. \A j \in 1..(i - 1) : PairedAt(q, j)
    <3> TAKE j \in 1..(i - 1)
    <3>1. PairedAt(p, j) /\ j - 1 \in 0..(i - 1) /\ q[j] = p[j]
      BY <1>1, <1>7, <1>8 DEF Paired, p
    <3>2. QED
      BY <1>9, <3>1 DEF PairedAt
  <2>3. \A j \in i..Len(q) : PairedAt(q, j)
    BY <1>10 DEF PairedAt
  <2>4. QED
    BY <1>4, <2>1, <2>2, <2>3 DEF Paired
<1>14. ASSUME NEW j \in DOMAIN q, Priced(q[j])
       PROVE  j \in DOMAIN p /\ q[j] = p[j] /\ OpenAfter(q)[j - 1] = OpenAfter(p)[j - 1]
  <2>1. j \in 1..(i - 1)
    BY <1>4, <1>7, <1>10, <1>14
  <2>2. j - 1 \in 0..(i - 1)
    BY <1>7, <2>1
  <2>3. QED
    BY <1>8, <1>9, <2>1, <2>2
<1> QED
  BY <1>1, <1>3, <1>12, <1>13, <1>14 DEF p, q

LEMMA RollbackStep ==
    ASSUME SafeInv, TypeInv', NEW s \in State, IsProvisional(s), Chain(trades, s),
           Tracked(s) = Tracked(mem), mem' = RolledBack(s), order' = "idle",
           UNCHANGED <<trades, events, ready, file, writes>>, start' = "up" => start = "up"
    PROVE  SafeInv'
<1>1. mem'.intent = <<>> /\ Paired(mem'.records) /\ CurrentOpen(mem'.records) = Tracked(mem)
  BY RolledBackChain
<1>2. Chain(trades', mem') /\ Tracked(mem') = Tracked(mem)
  BY <1>1 DEF Chain, Promised, Pending, IsProvisional, Tracked
<1>3. Pledged' /\ Heard'
  BY SafeIs DEF Pledged, Heard
<1> QED
  BY <1>2, <1>3, StillSame, RestStep

LEMMA RollbackSafe == SafeInv /\ TypeInv' /\ Rollback => SafeInv'
<1> SUFFICES ASSUME SafeInv, TypeInv', Rollback PROVE SafeInv'
  OBVIOUS
<1>1. /\ start = "up" /\ mem.intent # <<>> /\ mem.intent.provisional
      /\ trades[mem.intent.n].state = "void" /\ mem' = RolledBack(mem)
      /\ UNCHANGED <<trades, events, ready, order, start, file, writes>>
  BY DEF Rollback, Persist, truth, runtime, process
<1>2. order = "idle"
  BY <1>1, RollbackIs, SafeIs
<1>3. IsProvisional(mem)
  BY <1>1, SafeIs DEF IsProvisional, Promised
<1> QED
  BY <1>1, <1>2, <1>3, SafeIs, RollbackStep

LEMMA StaysAmbiguousSafe == SafeInv /\ TypeInv' /\ StaysAmbiguous => SafeInv'
<1> SUFFICES ASSUME SafeInv, TypeInv', StaysAmbiguous PROVE SafeInv'
  OBVIOUS
<1> DEFINE t == [mem.intent EXCEPT !.state = "ambiguous"]
<1>1. /\ start = "up" /\ mem.intent # <<>> /\ mem.intent.state = "committed"
      /\ mem' = [mem EXCEPT !.intent = t, !.paused = PauseFor("lacks")]
      /\ UNCHANGED <<trades, events, ready, order, start, file, writes>>
  BY DEF StaysAmbiguous, Persist, truth, runtime, process
<1>2. mem.intent \in Intent /\ mem.intent.provisional
  BY <1>1, SafeIs, StateFields DEF Promised
<1>3. t.n = mem.intent.n /\ t.state = "ambiguous" /\ t.provisional = mem.intent.provisional
      /\ t # <<>>
  BY <1>2, SetIntentState
<1> HIDE DEF t
<1>4. mem'.records = mem.records /\ mem'.intent = t
  BY <1>1, SafeIs DEF State
<1>5. Reshaped(mem.records, mem'.records) /\ SameIntent(mem, mem')
  BY <1>1, <1>2, <1>3, <1>4, SafeIs, SameReshaped DEF SameIntent, Promised, IsProvisional
<1>6. order = "idle"
  BY <1>1, SafeIs, TypeInvParts DEF OrderHolds
<1> QED
  BY <1>1, <1>5, <1>6, QuietStep

LEMMA StartHedgesSafe == SafeInv /\ TypeInv' /\ StartHedges => SafeInv'
<1> SUFFICES ASSUME SafeInv, TypeInv', StartHedges PROVE SafeInv'
  OBVIOUS
<1> DEFINE rs == [j \in DOMAIN mem.records |->
                    IF Interrupted(mem.records[j]) THEN [mem.records[j] EXCEPT !.hedge = "queued"]
                    ELSE mem.records[j]]
           m == WithRecords(mem, rs, mem.paused)
<1>1. mem \in State /\ mem.paused \in Pause
      /\ \A j \in DOMAIN mem.records : mem.records[j] \in Record
  BY SafeIs, StateFields
<1>2. [mem EXCEPT !.records = rs] = m
  BY <1>1 DEF State, WithRecords
<1>3. /\ start = "finish" /\ start' = "reconcile"
      /\ \/ mem.intent # <<>> /\ mem.intent.provisional /\ mem' = RolledBack(m)
         \/ mem' = m
      /\ UNCHANGED <<trades, events, ready, order, file, writes>>
  <2> HIDE DEF m
  <2>1. QED
    BY <1>2 DEF StartHedges, Stage, Persist, NoSave, saving, truth, runtime
<1>4. \A j \in DOMAIN mem.records : \E h \in Hedge : rs[j] = [mem.records[j] EXCEPT !.hedge = h]
  <2> TAKE j \in DOMAIN mem.records
  <2> DEFINE r == mem.records[j]
  <2>1. r \in Record
    BY <1>1
  <2>2. rs[j] = IF Interrupted(r) THEN [r EXCEPT !.hedge = "queued"] ELSE r
    OBVIOUS
  <2> HIDE DEF r, rs
  <2>3. r = [r EXCEPT !.hedge = r.hedge] /\ r.hedge \in Hedge /\ "queued" \in Hedge
    BY <2>1 DEF Record, Hedge
  <2>4. QED
    BY <2>2, <2>3 DEF r
<1>5. DOMAIN rs = DOMAIN mem.records /\ rs = [j \in DOMAIN mem.records |-> rs[j]]
  OBVIOUS
<1> HIDE DEF rs
<1>6. Rehedged(mem, rs)
  BY <1>4, <1>5 DEF Rehedged
<1>7. Reshaped(mem.records, rs) /\ m \in State /\ m.records = rs /\ m.intent = mem.intent
  <2> DEFINE p == mem.paused
             w == WithRecords(mem, rs, p)
  <2>1. mem \in State /\ p \in Pause
    BY <1>1
  <2>2. m = w
    OBVIOUS
  <2> HIDE DEF p, m
  <2>3. w \in State /\ w.records = rs /\ w.intent = mem.intent
    BY ONLY <1>6, <2>1, HedgesOnly
  <2>4. Reshaped(mem.records, rs)
    BY ONLY <1>6, <2>1, RehedgedIs
  <2> HIDE DEF w
  <2>5. QED
    BY ONLY <2>2, <2>3, <2>4
<1> HIDE DEF m
<1>8. SameIntent(mem, m)
  BY <1>7, SafeIs, SameIntents
<1>9. CASE mem' = m
  BY <1>3, <1>7, <1>8, <1>9, QuietStep
<1>10. CASE mem.intent # <<>> /\ mem.intent.provisional /\ mem' = RolledBack(m)
  <2>1. IsProvisional(m)
    BY <1>7, <1>10 DEF IsProvisional
  <2>2. Chain(trades, m) /\ Tracked(m) = Tracked(mem)
    BY <1>7, <1>8, SafeIs, ReshapedChain
  <2>3. order = "idle"
    BY <1>3, SafeIs, TypeInvParts DEF StartHolds
  <2>4. QED
    BY <1>3, <1>7, <1>10, <2>1, <2>2, <2>3, RollbackStep
<1> QED
  BY <1>3, <1>9, <1>10

-----------------------------------------------------------------------------
(* A fill is entered *)

\* Records of which one is told by another source.
Sourced(p, q, k, src) ==
    /\ DOMAIN q = DOMAIN p
    /\ \A j \in DOMAIN p : /\ q[j] = IF j = k THEN [p[j] EXCEPT !.src = src] ELSE p[j]
                           /\ q[j].kind = p[j].kind /\ (Priced(q[j]) <=> Priced(p[j]))
                           /\ OpenAfter(q)[j - 1] = OpenAfter(p)[j - 1]

\* The record of a Commit is confirmed: what was open before it is open, or closed.
LEMMA ConfirmedChain ==
    ASSUME trades \in Seq(Trade), NEW s \in State, Chain(trades, s), NEW n \in DOMAIN trades,
           n \in Numbers, NEW src \in {"event", "portfolio"}, IsProvisional(s), s.intent.n = n,
           NEW m, m = Entered(s, n, src)
    PROVE  /\ m.intent = <<>> /\ m.records \in Seq(Record) /\ Paired(m.records)
           /\ CurrentOpen(m.records) # 0 <=> trades[n].kind = "open"
           /\ Sourced(s.records, m.records, RecordOf(s.records, n), src)
<1> DEFINE p == s.records
           q == m.records
           k == RecordOf(p, n)
           new == [p[k] EXCEPT !.src = src]
<1>1. Commit(trades, s, k) /\ Paired(p)
  BY DEF Chain, Pending
<1>2. /\ p \in Seq(Record) /\ DOMAIN p = 1..Len(p) /\ Len(p) \in Nat /\ s.paused \in Pause
  BY StateFields
<1>3. /\ k \in DOMAIN p /\ p[k].src = "commit" /\ p[k].kind = trades[n].kind
      /\ \A j \in DOMAIN p : j > k => ~Priced(p[j])
  BY <1>1 DEF Commit
<1>4. m = Changed(s, k, new, <<>>, <<>>, s.paused)
  BY EnteredIs DEF Owned, IsProvisional
<1>5. /\ new \in Record /\ new.kind = p[k].kind /\ new.src = src
  <2>1. p[k] \in Record /\ src \in Source
    BY <1>2, <1>3 DEF Source
  <2>2. QED
    BY <2>1, SetSource
<1> HIDE DEF k, new
<1>6. Changes(s, k, new, <<>>, <<>>, s.paused)
  <2>1. <<>> \in Seq(Record)
    OBVIOUS
  <2>2. QED
    BY <1>2, <1>3, <1>5, <2>1 DEF Changes
<1>7. /\ m \in State /\ m.intent = <<>>
      /\ Len(m.records) = Len(s.records) + Len(<<>>) /\ m.records[k] = new
      /\ \A j \in DOMAIN s.records : j # k => m.records[j] = s.records[j]
  BY ONLY <1>4, <1>6, ChangedIs
<1>8. q \in Seq(Record) /\ Len(q) = Len(p) /\ DOMAIN q = DOMAIN p
  <2>1. Len(<<>>) = 0
    OBVIOUS
  <2>2. QED
    BY <1>2, <1>7, <2>1, StateFields
<1> HIDE DEF p, q
<1>9. q[k] = new /\ \A j \in DOMAIN p : j # k => q[j] = p[j]
  BY <1>7 DEF p, q
<1>10. \A j \in DOMAIN p : p[j].kind = q[j].kind /\ (Priced(p[j]) <=> Priced(q[j]))
  <2> TAKE j \in DOMAIN p
  <2>1. CASE j = k
    BY <1>3, <1>5, <1>9, <2>1 DEF Priced
  <2>2. CASE j # k
    <3>1. q[j] = p[j]
      BY <1>9, <2>2
    <3>2. QED
      BY <3>1
  <2>3. QED
    BY <2>1, <2>2
<1>11. \A j \in 0..Len(p) : OpenAfter(p)[j] = OpenAfter(q)[j]
  <2> DEFINE l == Len(p)
  <2>1. \A j \in 1..l : p[j].kind = q[j].kind /\ (Priced(p[j]) <=> Priced(q[j]))
    BY <1>2, <1>10
  <2>2. l \in Nat /\ l = Len(p) /\ l = Len(q)
    BY <1>2, <1>8
  <2> HIDE DEF l
  <2>3. l <= Len(p) /\ l <= Len(q) /\ Len(p) \in Nat /\ Len(q) \in Nat
    BY <2>2
  <2>4. \A j \in 0..l : OpenAfter(p)[j] = OpenAfter(q)[j]
    BY <2>1, <2>2, <2>3, OpensAgree
  <2>5. QED
    BY <2>4 DEF l
<1>12. Paired(q)
  <2> SUFFICES ASSUME NEW j \in 1..Len(p) PROVE PairedAt(q, j)
    BY <1>2, <1>8 DEF Paired
  <2>1. PairedAt(p, j) /\ j - 1 \in 0..Len(p)
    BY <1>1, <1>2 DEF Paired, p
  <2>2. QED
    BY <1>2, <1>10, <1>11, <2>1 DEF PairedAt
<1>13. k \in 0..Len(q) /\ k \in 1..Len(q) /\ Len(q) \in k..Len(q) /\ k # 0 /\ Len(q) \in Nat
  BY <1>2, <1>3, <1>8
<1>14. \A j \in (k + 1)..Len(q) : ~Priced(q[j])
  <2> TAKE j \in (k + 1)..Len(q)
  <2>1. j \in DOMAIN p /\ j > k
    BY <1>2, <1>8, <1>13
  <2>2. QED
    BY <1>3, <1>10, <2>1
<1>15. CurrentOpen(q) = OpenAfter(q)[k]
  BY <1>13, <1>14, OpenStays DEF CurrentOpen
<1>16. Priced(q[k]) /\ q[k].kind = trades[n].kind
  BY <1>3, <1>5, <1>9 DEF Priced
<1>17. /\ q[k].kind = "open" => OpenAfter(q)[k] = k
       /\ q[k].kind # "open" => OpenAfter(q)[k] = 0
  BY <1>8, <1>12, <1>13, <1>16, PairedSteps
<1>18. CurrentOpen(q) # 0 <=> trades[n].kind = "open"
  BY <1>13, <1>15, <1>16, <1>17
<1>19. \A j \in DOMAIN p : /\ q[j] = IF j = k THEN [p[j] EXCEPT !.src = src] ELSE p[j]
                           /\ OpenAfter(q)[j - 1] = OpenAfter(p)[j - 1]
  <2> TAKE j \in DOMAIN p
  <2>1. j - 1 \in 0..Len(p)
    BY <1>2
  <2>2. q[k] = [p[k] EXCEPT !.src = src]
    BY <1>9 DEF new
  <2>3. QED
    BY <1>9, <1>11, <2>1, <2>2
<1> QED
  BY <1>7, <1>8, <1>10, <1>12, <1>18, <1>19 DEF p, q, k, Sourced

\* A record is added for it.
LEMMA AddedChain ==
    ASSUME trades \in Seq(Trade), NEW s \in State, Chain(trades, s), NEW n \in DOMAIN trades,
           n \in Numbers, NEW src \in {"event", "portfolio"}, ~IsProvisional(s),
           trades[n].kind = "close" => CurrentOpen(s.records) # 0,
           NEW m, m = Entered(s, n, src)
    PROVE  /\ m.intent = IF Early(s, n) THEN [s.intent EXCEPT !.confirmed = TRUE] ELSE <<>>
           /\ m.records \in Seq(Record) /\ Paired(m.records)
           /\ CurrentOpen(m.records) # 0 <=> trades[n].kind = "open"
<1> DEFINE a == NewRecord(n, src)
           b == [a EXCEPT !.hedge = "waiting"]
           p == s.records
<1>1. p \in Seq(Record) /\ Paired(p) /\ src \in Source /\ "waiting" \in Hedge
  BY StateFields DEF Chain, Source, Hedge
<1>2. a \in Record /\ a.kind = trades[n].kind /\ a.src = src
  BY <1>1, NewRecordIs
<1>3. b \in Record /\ b.kind = trades[n].kind /\ b.src = src
  <2> HIDE DEF a
  <2>1. QED
    BY <1>1, <1>2, SetHedge
<1>4. m = IF Early(s, n) THEN Extended(s, b, [s.intent EXCEPT !.confirmed = TRUE])
          ELSE Extended(s, a, <<>>)
  <2>1. ~(Owned(s, n) /\ s.intent.provisional)
    BY DEF Owned, IsProvisional
  <2>2. QED
    BY <2>1, EnteredIs
<1> HIDE DEF a, b, p
<1>5. /\ m.intent = IF Early(s, n) THEN [s.intent EXCEPT !.confirmed = TRUE] ELSE <<>>
      /\ m.records = Append(p, a) \/ m.records = Append(p, b)
  BY <1>4 DEF Extended, p
<1>6. trades[n].kind \in {"open", "close"} /\ (trades[n].kind = "close" => CurrentOpen(p) # 0)
  BY TradeFields DEF p
<1>7. ASSUME NEW r \in Record, r.kind = trades[n].kind, r.src = src
      PROVE  /\ Append(p, r) \in Seq(Record) /\ Paired(Append(p, r))
             /\ CurrentOpen(Append(p, r)) # 0 <=> trades[n].kind = "open"
  <2>1. Priced(r)
    BY <1>7 DEF Priced
  <2>2. /\ Paired(Append(p, r))
        /\ (CurrentOpen(Append(p, r)) # 0) <=> IF Priced(r) THEN r.kind = "open" ELSE CurrentOpen(p) # 0
    BY <1>1, <1>6, <1>7, PairedAppend
  <2>3. Append(p, r) \in Seq(Record)
    BY <1>1
  <2>4. QED
    BY <1>7, <2>1, <2>2, <2>3
<1> QED
  BY <1>2, <1>3, <1>5, <1>7

LEMMA EnteredChain ==
    ASSUME trades \in Seq(Trade), NEW s \in State, Chain(trades, s), NEW n \in DOMAIN trades,
           n \in Numbers, NEW src \in {"event", "portfolio"}, IsProvisional(s) => s.intent.n = n,
           ~IsProvisional(s) /\ trades[n].kind = "close" => CurrentOpen(s.records) # 0,
           NEW m, m = Entered(s, n, src)
    PROVE  /\ Chain(trades, m) /\ (Tracked(m) # 0 <=> trades[n].kind = "open")
           /\ ~IsProvisional(s) /\ Early(s, n) => m.intent.confirmed
<1>1. CASE IsProvisional(s)
  <2>1. /\ m.intent = <<>> /\ m.records \in Seq(Record) /\ Paired(m.records)
        /\ CurrentOpen(m.records) # 0 <=> trades[n].kind = "open"
    BY <1>1, ConfirmedChain
  <2>2. QED
    BY <1>1, <2>1 DEF Chain, Promised, Pending, IsProvisional, Tracked
<1>2. CASE ~IsProvisional(s)
  <2> DEFINE t == [s.intent EXCEPT !.confirmed = TRUE]
  <2>1. /\ m.intent = IF Early(s, n) THEN t ELSE <<>>
        /\ m.records \in Seq(Record) /\ Paired(m.records)
        /\ CurrentOpen(m.records) # 0 <=> trades[n].kind = "open"
    BY <1>2, AddedChain
  <2>2. Early(s, n) => /\ s.intent \in Intent /\ s.intent.state = "committing" /\ ~s.intent.provisional
    BY <1>2, StateFields DEF Early, Owned, IsProvisional
  <2>3. Early(s, n) => t.state = "committing" /\ ~t.provisional /\ t.confirmed
    BY <2>2 DEF Intent
  <2> HIDE DEF t
  <2>4. QED
    BY <1>2, <2>1, <2>3 DEF Chain, Promised, Pending, IsProvisional, Tracked
<1> QED
  BY <1>1, <1>2

LEMMA FeedEntersSafe == ASSUME SafeInv, TypeInv', NEW n \in events, FeedEnters(n) PROVE SafeInv'
<1>1. /\ start = "up" /\ events' = events \ {n} /\ mem' = Entered(mem, n, "event")
      /\ UNCHANGED <<trades, ready, order, start, writes, file>>
  BY DEF FeedEnters, Persist, truth, process
<1>2. /\ n = Len(trades) /\ trades[n].state = "executed" /\ n \in DOMAIN trades /\ events = {n}
      /\ trades[n].auto => Owns(n)
      /\ ~trades[n].auto => mem.intent = <<>>
      /\ \A k \in DOMAIN trades : trades[k].state \in {"executed", "void"}
  BY SafeIs, TypeInvParts DEF EventHolds, WorldTyped, TradeHolds
<1>3. events' = {} /\ n \in Numbers /\ "event" \in {"event", "portfolio"}
  BY <1>1, <1>2, SafeIs, TypeInvParts DEF WorldTyped, Numbers
<1>4. trades[n].kind \in {"open", "close"} /\ trades[n].auto \in BOOLEAN
  BY <1>2, SafeIs, TradeFields
<1>5. trades[n].kind = "close" <=> Tracked(mem) # 0
  BY <1>2, SafeIs DEF Told, Undecided
<1>6. IsProvisional(mem) => mem.intent.n = n
  BY <1>2, <1>4 DEF IsProvisional, Owns
<1>7. ~IsProvisional(mem) /\ trades[n].kind = "close" => CurrentOpen(mem.records) # 0
  BY <1>5 DEF Tracked
<1>8. /\ Chain(trades, mem') /\ (Tracked(mem') # 0 <=> trades[n].kind = "open")
      /\ ~IsProvisional(mem) /\ Early(mem, n) => mem'.intent.confirmed
  BY <1>1, <1>2, <1>3, <1>6, <1>7, SafeIs, EnteredChain
<1>9. DiskChained'
  BY <1>1, DiskKept, SafeIs DEF KindsKept
<1>10. Told'
  BY <1>1, <1>2, <1>3 DEF Told, Undecided, Runs
<1>11. Balanced'
  <2>1. ready => Net(trades) = Side(Tracked(mem)) + Gain(trades[n])
    BY <1>2, SafeIs DEF Balanced
  <2>2. ready => Net(trades) = Side(Tracked(mem'))
    BY <1>4, <1>5, <1>8, <2>1 DEF Side, Gain
  <2>3. QED
    BY <1>1, <1>3, <2>2 DEF Balanced
<1>12. Heard'
  <2> SUFFICES ASSUME order = "sent" PROVE mem'.intent.confirmed
    BY <1>1 DEF Heard
  <2>1. mem.intent # <<>> /\ mem.intent.n = n /\ ~mem.intent.provisional
        /\ mem.intent.state = "committing"
    BY <1>2, SafeIs, TypeInvParts DEF OrderHolds
  <2>2. QED
    BY <1>8, <2>1 DEF Early, Owned, IsProvisional
<1> QED
  BY <1>1, <1>8, <1>9, <1>10, <1>11, <1>12, SafeIs DEF SafeInv, Truth, Pledged, Flat

-----------------------------------------------------------------------------
(* A start, and the end of a process *)

\* A step of a process that is not up: only what it holds and has written matters.
LEMMA SettledStep ==
    ASSUME SafeInv, TypeInv', Chain(trades', mem'), DiskChained', Still(trades, trades'),
           \A n \in DOMAIN trades : trades'[n].state \in {"sent", "accepted"} =>
                                       trades'[n].state = trades[n].state,
           events' = {}, ~ready', start' # "up", order' = "idle"
    PROVE  SafeInv'
<1>1. Net(trades') = Net(trades) /\ DOMAIN trades' = DOMAIN trades
      /\ \A n \in DOMAIN trades : trades'[n].kind = trades[n].kind
  BY StillIs DEF Still
<1>2. Told' /\ Balanced' /\ Heard'
  BY DEF Told, Undecided, Balanced, Heard
<1>3. Pledged' /\ Flat'
  BY <1>1, SafeIs DEF Pledged, Flat
<1> QED
  BY <1>2, <1>3 DEF SafeInv, Truth

LEMMA InspectSafe == SafeInv /\ TypeInv' /\ Inspect => SafeInv'
<1> SUFFICES ASSUME SafeInv, TypeInv', Inspect PROVE SafeInv'
  OBVIOUS
<1>1. /\ start = "inspect" /\ start' = "prepare"
      /\ \/ mem.intent # <<>> /\ Outcome = "filled" /\ mem' = RecoveredFill
         \/ mem' = mem
      /\ UNCHANGED <<trades, events, ready, order, file, writes>>
  BY DEF Inspect, Stage, Persist, NoSave, saving, truth, runtime
<1>2. order = "idle" /\ events = {} /\ ~ready
  BY <1>1, SafeIs, TypeInvParts DEF StartHolds
<1>3. DiskChained'
  BY <1>1, DiskKept, SafeIs DEF KindsKept
<1>4. CASE mem' = mem
  BY <1>1, <1>2, <1>3, <1>4, SafeIs, StillSame, SettledStep
<1>5. CASE mem.intent # <<>> /\ Outcome = "filled" /\ mem' = RecoveredFill
  <2> DEFINE n == mem.intent.n
             s == [mem EXCEPT !.intent.confirmed = FALSE]
             t == [mem.intent EXCEPT !.confirmed = FALSE]
             m == Entered(s, n, "portfolio")
             i == IF mem.intent.provisional THEN RecordOf(m.records, n) ELSE Len(m.records)
             h == IF m.records[i].filled THEN "filled" ELSE "check"
  <2>1. mem.intent \in Intent /\ n \in DOMAIN trades /\ n \in Numbers
    BY <1>5, SafeIs, StateFields, IntentFields, TypeInvParts DEF Fits, Numbered, WorldTyped
  <2>2. t \in Intent /\ t.n = n /\ t.state = mem.intent.state /\ t.provisional = mem.intent.provisional
        /\ t # <<>>
    <3>1. t \in Intent
      BY <2>1 DEF Intent
    <3>2. QED
      BY <2>1, <3>1, IntentFields DEF Intent
  <2>3. s \in State /\ s.records = mem.records /\ s.intent = t
    BY <2>2, SafeIs DEF State
  <2>4. mem' = [m EXCEPT !.records[i].hedge = h]
    BY <1>5 DEF RecoveredFill
  <2> HIDE DEF s, t
  <2>5. Reshaped(mem.records, s.records) /\ SameIntent(mem, s)
    <3>1. Promised(s) /\ (IsProvisional(s) <=> IsProvisional(mem)) /\ s.intent.n = mem.intent.n
      BY <1>5, <2>2, <2>3, SafeIs DEF Promised, IsProvisional
    <3>2. QED
      BY <2>3, <3>1, SafeIs, SameReshaped DEF SameIntent
  <2>6. Chain(trades, s) /\ s.intent.n = n
    BY <2>2, <2>3, <2>5, SafeIs, ReshapedChain
  <2>7. ~IsProvisional(s) /\ trades[n].kind = "close" => CurrentOpen(s.records) # 0
    <3> SUFFICES ASSUME ~IsProvisional(s), trades[n].kind = "close" PROVE CurrentOpen(s.records) # 0
      OBVIOUS
    <3>1. ~mem.intent.provisional
      BY <2>2, <2>3 DEF IsProvisional
    <3>2. TrackedOpen # 0
      BY <1>5 DEF Outcome
    <3>3. QED
      BY <2>3, <3>1, <3>2 DEF TrackedOpen
  <2>8. Chain(trades, m)
    BY <2>1, <2>3, <2>6, <2>7, SafeIs, EnteredChain
  <2>9. /\ m \in State /\ m.intent = <<>> /\ Len(m.records) > 0
        /\ mem.intent.provisional => RecordOf(m.records, n) \in DOMAIN m.records
    <3>1. mem.intent.state # "committing"
      BY <1>2, <1>5, SafeIs, TypeInvParts DEF IdleHolds
    <3>2. ~Early(s, n) /\ (Owned(s, n) <=> Owned(mem, n)) /\ Owned(s, n)
          /\ (s.intent.provisional <=> mem.intent.provisional)
      BY <1>5, <2>2, <2>3, <3>1 DEF Early, Owned
    <3>3. QED
      BY <2>1, <2>3, <3>2, SafeIs, EnteredClears
  <2> HIDE DEF m
  <2>10. m.records \in Seq(Record) /\ i \in DOMAIN m.records
    BY <2>9, StateFields
  <2>11. h \in Hedge
    BY DEF Hedge
  <2> HIDE DEF i, h
  <2>12. mem'.records = [m.records EXCEPT ![i].hedge = h] /\ mem'.intent = <<>>
    BY <2>4, <2>9 DEF State
  <2>13. Reshaped(m.records, mem'.records)
    BY <2>10, <2>11, <2>12, HedgeReshaped
  <2>14. SameIntent(m, mem')
    BY <2>9, <2>12 DEF SameIntent, Promised, IsProvisional
  <2>15. mem' \in State
    BY TypeInvParts DEF TypeInv, Typed, StatesFit, Fits
  <2>16. Chain(trades, mem')
    BY <2>8, <2>9, <2>13, <2>14, <2>15, ReshapedChain
  <2>17. QED
    BY <1>1, <1>2, <1>3, <2>16, StillSame, SettledStep
<1> QED
  BY <1>1, <1>4, <1>5

\* A match ends a pending intent, whose Commit is not executed: the records say what is open.
LEMMA ReconciledSafe ==
    ASSUME SafeInv, TypeInv', Reconciled, events = {}, order' = "idle",
           \A n \in DOMAIN trades : trades[n].state \in {"executed", "void"},
           UNCHANGED <<trades, events, file, writes>>
    PROVE  SafeInv'
<1>1. DiskChained'
  BY DiskKept, SafeIs DEF KindsKept
<1>2. Told' /\ Pledged' /\ Heard' /\ Flat'
  BY SafeIs DEF Told, Undecided, Runs, Pledged, Heard, Flat
<1>3. CASE PositionsMatch
  <2>1. mem'.intent = <<>> /\ mem'.records = mem.records
    <3>1. mem' = [mem EXCEPT !.intent = <<>>, !.paused = IF @ = "other" THEN @ ELSE "-"]
      BY <1>3 DEF Reconciled
    <3>2. QED
      BY <3>1, SafeIs DEF State
  <2>2. Chain(trades', mem') /\ Tracked(mem') = CurrentOpen(mem.records)
    BY <2>1, SafeIs DEF Chain, Promised, Pending, IsProvisional, Tracked
  <2>3. Net(trades) = Side(CurrentOpen(mem.records))
    BY <1>3, PositionIs DEF PositionsMatch, Side
  <2>4. Balanced'
    BY <2>2, <2>3 DEF Balanced
  <2>5. QED
    BY <1>1, <1>2, <2>2, <2>4 DEF SafeInv, Truth
<1>4. CASE ~PositionsMatch
  <2>1. mem' = [mem EXCEPT !.paused = PauseFor("recon")] /\ ready' = FALSE
    BY <1>4 DEF Reconciled
  <2>2. mem'.intent = mem.intent /\ mem'.records = mem.records
    BY <2>1, SafeIs DEF State
  <2>3. Chain(trades', mem')
    BY <2>2, SafeIs DEF Chain, Promised, Pending, IsProvisional, Commit
  <2>4. Balanced'
    BY <2>1 DEF Balanced
  <2>5. QED
    BY <1>1, <1>2, <2>3, <2>4 DEF SafeInv, Truth
<1> QED
  BY <1>3, <1>4

LEMMA ReconcileSafe == SafeInv /\ TypeInv' /\ Reconcile => SafeInv'
<1> SUFFICES ASSUME SafeInv, TypeInv', Reconcile PROVE SafeInv'
  OBVIOUS
<1>1. /\ Reconciled /\ order = "idle" /\ events = {}
      /\ \A n \in DOMAIN trades : trades[n].state \notin {"sent", "accepted"}
      /\ UNCHANGED <<trades, events, order, writes, file>>
  BY DEF Reconcile, OrderInflight, Persist, truth, process
<1>2. \A n \in DOMAIN trades : trades[n].state \in {"executed", "void"}
  <2> TAKE n \in DOMAIN trades
  <2>1. trades[n].state \in {"quoted", "sent", "accepted", "executed", "void"}
    BY SafeIs, TradeFields
  <2>2. trades[n].state # "quoted"
    BY <1>1, SafeIs, TypeInvParts DEF TradeHolds
  <2>3. QED
    BY <1>1, <2>1, <2>2
<1> QED
  BY <1>1, <1>2, ReconciledSafe

LEMMA ReconcileAtStartSafe == SafeInv /\ TypeInv' /\ ReconcileAtStart => SafeInv'
<1> SUFFICES ASSUME SafeInv, TypeInv', ReconcileAtStart PROVE SafeInv'
  OBVIOUS
<1>1. /\ Reconciled /\ start = "reconcile"
      /\ UNCHANGED <<trades, events, order, writes, file>>
  BY DEF ReconcileAtStart, Stage, Persist, truth
<1>2. /\ order = "idle" /\ events = {}
      /\ \A n \in DOMAIN trades : trades[n].state \in {"executed", "void"}
  BY <1>1, SafeIs, TypeInvParts DEF StartHolds
<1> QED
  BY <1>1, <1>2, ReconciledSafe

LEMMA LoadSafe == SafeInv /\ TypeInv' /\ Load => SafeInv'
<1> SUFFICES ASSUME SafeInv, TypeInv', Load PROVE SafeInv'
  OBVIOUS
<1> DEFINE rs == [i \in DOMAIN file.records |-> Normalized(RestoredRecord(file.records[i]))]
           p == RestoredPause(file)
           m == WithRecords(file, rs, p)
           t == IF file.intent = <<>> THEN <<>> ELSE [file.intent EXCEPT !.state = Restored(@)]
           u == Unfinished(rs)
<1>1. /\ start = "down" /\ start' = "inspect"
      /\ mem' = [records |-> u, intent |-> t, paused |-> p]
      /\ UNCHANGED <<trades, events, ready, order, writes, file>>
  BY DEF Load, Persist, truth, runtime
<1>2. ~ready /\ order = "idle" /\ events = {}
  BY <1>1, SafeIs, TypeInvParts DEF DownHolds
<1>3. file \in State /\ p \in Pause /\ Chain(trades, file)
  <2>1. file \in State /\ Chain(trades, file)
    BY SafeIs, TypeInvParts DEF StatesFit, Fits, DiskChained
  <2>2. QED
    BY <2>1, StateFields DEF RestoredPause, Pause
<1>4. Rehedged(file, rs)
  <2>1. \A j \in DOMAIN file.records : \E h \in Hedge : rs[j] = [file.records[j] EXCEPT !.hedge = h]
    <3> TAKE j \in DOMAIN file.records
    <3>1. rs[j] = Reloaded(file.records[j]) /\ file.records[j] \in Record
      BY <1>3, StateFields DEF Reloaded
    <3> HIDE DEF rs
    <3>2. QED
      BY <3>1, ReloadedIs
  <2>2. DOMAIN rs = DOMAIN file.records /\ rs = [j \in DOMAIN file.records |-> rs[j]]
    OBVIOUS
  <2> HIDE DEF rs
  <2>3. QED
    BY <2>1, <2>2 DEF Rehedged
<1> HIDE DEF rs, p
<1>5. m \in State /\ m.records = rs /\ m.intent = file.intent
  BY ONLY <1>3, <1>4, HedgesOnly, ZenonT(40)
<1>6. Reshaped(file.records, rs)
  BY ONLY <1>3, <1>4, RehedgedIs
<1> HIDE DEF m
<1>7. Chain(trades, m)
  <2>1. SameIntent(file, m)
    BY <1>3, <1>5, SameIntents DEF Chain
  <2>2. QED
    BY <1>3, <1>5, <1>6, <2>1, ReshapedChain
<1>8. /\ (t = <<>> <=> file.intent = <<>>)
      /\ t # <<>> => /\ t.n = file.intent.n /\ t.provisional = file.intent.provisional
                     /\ t.state \in {"committed", "restored"}
                           => file.intent.state \in {"committed", "restored"}
  <2>1. CASE file.intent = <<>>
    BY <2>1
  <2>2. CASE file.intent # <<>>
    <3> DEFINE f == file.intent
               v == Restored(f.state)
    <3>1. f \in Intent
      BY <1>3, <2>2, StateFields
    <3>2. t = [f EXCEPT !.state = v]
      BY <2>2
    <3>3. /\ v \in {"quoting", "prepared", "committing", "ambiguous", "committed", "restored"}
          /\ v \in {"committed", "restored"} => f.state \in {"committed", "restored"}
      BY <3>1, IntentFields DEF Restored
    <3> HIDE DEF t, v
    <3>4. t \in Intent /\ t.n = f.n /\ t.provisional = f.provisional /\ t.state = v
      BY <3>1, <3>2, <3>3 DEF Intent
    <3>5. QED
      BY <2>2, <3>3, <3>4, IntentFields
  <2>3. QED
    BY <2>1, <2>2
<1> HIDE DEF u, t
<1>9. mem'.records = Unfinished(m.records) /\ mem'.intent = t
  BY <1>1, <1>5 DEF u
<1>10. SameIntent(m, mem')
  <2>1. Promised(m)
    BY <1>7 DEF Chain
  <2>2. QED
    BY <1>5, <1>8, <1>9, <2>1 DEF SameIntent, Promised, IsProvisional
<1>11. mem' \in State
  BY TypeInvParts DEF TypeInv, Typed, StatesFit, Fits
<1>12. Chain(trades, mem')
  BY <1>5, <1>7, <1>9, <1>10, <1>11, UnfinishedChain
<1>13. DiskChained'
  BY <1>1, DiskKept, SafeIs DEF KindsKept
<1> QED
  BY <1>1, <1>2, <1>12, <1>13, StillSame, SettledStep

\* What the file keeps of the memory.
LEMMA SnapshotChain ==
    ASSUME SafeInv
    PROVE  Chain(trades, Snapshot) /\ Snapshot \in State /\ Numbered(Snapshot, Len(trades))
<1>1. Snapshot \in State /\ Numbered(Snapshot, Len(trades))
  BY SnapshotFits, SafeIs, TypeInvParts DEF Fits
<1>2. Snapshot.records = Unfinished(mem.records) /\ Snapshot.intent = mem.intent
  BY SafeIs DEF Snapshot, State
<1>3. SameIntent(mem, Snapshot)
  BY <1>2, SafeIs, SameIntents
<1> QED
  BY <1>1, <1>2, <1>3, SafeIs, UnfinishedChain

LEMMA SnapshotSafe == ASSUME SafeInv, TypeInv', NEW w \in waiting, TakeSnapshot(w) PROVE SafeInv'
<1>1. /\ writes' = writes \cup {[by |-> w, state |-> Snapshot]}
      /\ UNCHANGED <<trades, events, mem, ready, order, file, start>>
  BY DEF TakeSnapshot, truth, runtime, process
<1>2. DiskChained'
  <2>1. \A x \in writes' : x \in writes \/ x.state = Snapshot
    BY <1>1
  <2>2. \A x \in writes' : Chain(trades, x.state)
    BY <2>1, SnapshotChain, SafeIs DEF DiskChained
  <2>3. QED
    BY <1>1, <2>2, SafeIs DEF DiskChained
<1>3. Chain(trades', mem')
  BY <1>1, SafeIs
<1> QED
  BY <1>1, <1>2, <1>3, SafeIs
  DEF SafeInv, Truth, Told, Undecided, Balanced, Pledged, Heard, Flat

LEMMA LandSafe == ASSUME SafeInv, TypeInv', NEW x \in writes, Land(x) PROVE SafeInv'
<1>1. /\ file' = x.state /\ writes' = writes \ {x}
      /\ UNCHANGED <<trades, events, mem, ready, order, start>>
  BY DEF Land, truth, runtime, process
<1>2. DiskChained'
  BY <1>1, SafeIs DEF DiskChained
<1>3. Chain(trades', mem')
  BY <1>1, SafeIs
<1> QED
  BY <1>1, <1>2, <1>3, SafeIs
  DEF SafeInv, Truth, Told, Undecided, Balanced, Pledged, Heard, Flat

LEMMA EndsSafe ==
    ASSUME SafeInv, TypeInv', Ends, file' = file \/ file' = Snapshot
    PROVE  SafeInv'
<1> DEFINE us == [n \in DOMAIN trades |->
                    IF trades[n].state = "quoted" THEN [trades[n] EXCEPT !.state = "void"]
                    ELSE trades[n]]
<1>1. /\ start' = "down" /\ mem' = Empty /\ ready' = FALSE /\ order' = "idle"
      /\ events' = {} /\ writes' = {} /\ trades' = us
  BY DEF Ends
<1>2. \A n \in DOMAIN trades : us[n].kind = trades[n].kind
                               /\ us[n].state = IF trades[n].state = "quoted" THEN "void"
                                                ELSE trades[n].state
  <2> TAKE n \in DOMAIN trades
  <2>1. trades[n] \in Trade
    BY SafeIs
  <2>2. us[n] = IF trades[n].state = "quoted" THEN [trades[n] EXCEPT !.state = "void"]
                ELSE trades[n]
    OBVIOUS
  <2> HIDE DEF us
  <2>3. QED
    BY <2>1, <2>2 DEF Trade
<1>3. DOMAIN us = DOMAIN trades
  OBVIOUS
<1> HIDE DEF us
<1>4. Still(trades, trades')
      /\ \A n \in DOMAIN trades : trades'[n].state \in {"sent", "accepted"} =>
                                     trades'[n].state = trades[n].state
  BY <1>1, <1>2, <1>3 DEF Still, Runs
<1>5. KindsKept(trades, trades')
  BY <1>1, <1>2, <1>3 DEF KindsKept
<1>6. Chain(trades', mem')
  <2>1. mem'.records = <<>> /\ mem'.intent = <<>>
    BY <1>1 DEF Empty
  <2>2. QED
    BY <2>1 DEF Chain, Paired, Promised, Pending, IsProvisional
<1>7. DiskChained'
  <2>1. Chain(trades, file) /\ Numbered(file, Len(trades))
    BY SafeIs, TypeInvParts DEF DiskChained, StatesFit, Fits
  <2>2. Chain(trades, file') /\ Numbered(file', Len(trades))
    BY <2>1, SnapshotChain
  <2>3. Chain(trades', file')
    BY <1>5, <2>2, SafeIs, ChainKept
  <2>4. QED
    BY <1>1, <2>3 DEF DiskChained
<1> QED
  BY <1>1, <1>4, <1>6, <1>7, SettledStep

\* A close by hand closes what is open.
LEMMA OperatorClosesSafe == SafeInv /\ TypeInv' /\ OperatorCloses => SafeInv'
<1> SUFFICES ASSUME SafeInv, TypeInv', OperatorCloses PROVE SafeInv'
  OBVIOUS
<1> DEFINE t == [kind |-> "close", auto |-> FALSE, state |-> "executed"]
           last == Len(trades')
<1>1. /\ trades' = Append(trades, t) /\ events' = {last} /\ events = {}
      /\ start = "up" /\ mem.intent = <<>> /\ Position = 1 /\ CurrentOpen(mem.records) # 0
      /\ UNCHANGED <<mem, ready, order, start, writes, file>>
  BY DEF OperatorCloses, runtime, saving, process
<1>2. t \in Trade /\ t.kind = "close" /\ t.state = "executed"
  BY DEF Trade
<1> HIDE DEF t
<1>3. /\ trades' \in Seq(Trade) /\ last = Len(trades) + 1 /\ trades'[last] = t
      /\ \A n \in DOMAIN trades : trades'[n] = trades[n]
      /\ DOMAIN trades' = DOMAIN trades \cup {last} /\ last \notin DOMAIN trades
  BY <1>1, <1>2, SafeIs
<1> HIDE DEF last
<1>4. order = "idle" /\ \A n \in DOMAIN trades : trades[n].state \in {"executed", "void"}
  BY <1>1, NothingSent, SafeIs
<1>5. Net(trades) = 1 /\ Tracked(mem) # 0
  BY <1>1, PositionIs DEF Tracked, IsProvisional
<1>6. Net(trades') = Net(trades) + Gain(trades'[last]) /\ Gain(trades'[last]) = -1
  <2>1. Net(trades') = Net(trades) + Gain(trades'[last])
    BY <1>2, <1>3, NetGains, SafeIs
  <2>2. QED
    BY <1>2, <1>3, <2>1 DEF Gain
<1>7. KindsKept(trades, trades')
  BY <1>3 DEF KindsKept
<1>8. DiskChained' /\ Chain(trades', mem')
  <2>1. Chain(trades', mem)
    BY <1>7, ChainKept, SafeIs, TypeInvParts DEF Fits
  <2>2. QED
    BY <1>1, <1>7, <2>1, DiskKept, SafeIs
<1>9. Told'
  <2> SUFFICES ASSUME NEW n \in DOMAIN trades', Undecided(n)'
               PROVE  trades'[n].kind = "close" <=> Tracked(mem') # 0
    BY DEF Told
  <2>1. n = last
    BY <1>1, <1>3, <1>4 DEF Undecided, Runs
  <2>2. QED
    BY <1>1, <1>2, <1>3, <1>5, <2>1
<1>10. Balanced' /\ Flat'
  <2>1. Net(trades') = 0
    BY <1>5, <1>6
  <2>2. Side(Tracked(mem')) = 1
    BY <1>1, <1>5 DEF Side
  <2>3. events' # {} /\ \A n \in events' : Net(trades') = Side(Tracked(mem')) + Gain(trades'[n])
    <3>1. events' = {last}
      BY <1>1
    <3>2. Net(trades') = Side(Tracked(mem')) + Gain(trades'[last])
      BY <1>6, <2>1, <2>2
    <3>3. QED
      BY <3>1, <3>2
  <2>4. QED
    BY <2>1, <2>3 DEF Balanced, Flat
<1>11. Pledged' /\ Heard'
  BY <1>1, <1>2, <1>3, <1>4 DEF Pledged, Heard
<1> QED
  BY <1>8, <1>9, <1>10, <1>11 DEF SafeInv, Truth

-----------------------------------------------------------------------------
(* Every step *)

LEMMA InitSafe == Init => SafeInv
<1> SUFFICES ASSUME Init PROVE SafeInv
  OBVIOUS
<1>1. /\ trades = <<>> /\ mem = Empty /\ file = Empty /\ writes = {} /\ events = {}
      /\ order = "idle" /\ ready
  BY DEF Init
<1>2. Empty.records = <<>> /\ Empty.intent = <<>>
  BY DEF Empty
<1>3. Chain(trades, Empty)
  BY <1>2 DEF Chain, Paired, Promised, Pending, IsProvisional
<1>4. DOMAIN trades = {}
  BY <1>1
<1>5. Net(trades) = 0
  <2>1. ExecutedAs(trades, "open") = {} /\ ExecutedAs(trades, "close") = {}
    BY <1>4 DEF ExecutedAs
  <2>2. QED
    BY <2>1, FS_EmptySet DEF Net
<1>6. Tracked(mem) = 0
  <2>1. Len(Empty.records) = 0 /\ 0 \in Nat
    BY <1>2
  <2>2. CurrentOpen(Empty.records) = 0
    BY <2>1, OpenSteps DEF CurrentOpen
  <2>3. QED
    BY <1>1, <1>2, <2>2 DEF Tracked, IsProvisional
<1>7. Truth
  BY <1>1, <1>4, <1>5, <1>6 DEF Truth, Told, Balanced, Side, Pledged, Heard, Flat
<1> QED
  BY <1>1, <1>3, <1>7, InitTyped DEF SafeInv, DiskChained

LEMMA NextSafe == SafeInv /\ [Next]_vars => SafeInv'
<1> SUFFICES ASSUME SafeInv, [Next]_vars PROVE SafeInv'
  OBVIOUS
<1>0. TypeInv'
  BY NextTyped, SafeIs
<1>1. CASE Coroutine
  BY <1>0, <1>1, MarkIntentSafe, PrepareIntentSafe, GiveUpSafe, SendCommitSafe, AcceptedMergesSafe,
     AcceptedProvisionalSafe, RefusedSafe, AmbiguousSafe DEF Coroutine
<1>2. CASE Rollback \/ StaysAmbiguous \/ FeedFollows \/ \E n \in events : FeedEnters(n)
  BY <1>0, <1>2, RollbackSafe, StaysAmbiguousSafe, FeedFollowsSafe, FeedEntersSafe
<1>3. CASE Hedging
  <2>1. CASE \E i \in DOMAIN mem.records : \E id \in IdsOf(mem.records[i]) : Report(i, id)
    <3>1. PICK i \in DOMAIN mem.records : \E id \in IdsOf(mem.records[i]) : Report(i, id)
      BY <2>1
    <3>2. PICK id : Report(i, id)
      BY <3>1
    <3>3. Reports(i, id) /\ start' = start
      BY <3>2 DEF Report, Reports, process
    <3>4. QED
      BY <1>0, <3>3, ReportsSafe
  <2>2. CASE Requeue \/ \E i \in DOMAIN mem.records : Allocate(i) \/ Send(i)
    BY <1>0, <2>2, RequeueSafe, AllocateSafe, SendSafe
  <2>3. QED
    BY <1>3, <2>1, <2>2 DEF Hedging
<1>4. CASE Reconcile
  BY <1>0, <1>4, ReconcileSafe
<1>5. CASE (\E w \in waiting : TakeSnapshot(w)) \/ (\E x \in writes : Land(x))
  BY <1>0, <1>5, SnapshotSafe, LandSafe
<1>6. CASE Exchanges
  <2>1. CASE \E i \in Ids : LighterExecutes(i)
    BY <1>0, <2>1, UnchangedSafe DEF LighterExecutes, runtime, saving, process
  <2>2. CASE OperatorCloses \/ \E n \in DOMAIN trades : VarExecutes(n) \/ VarDrops(n)
    BY <1>0, <2>2, VarExecutesSafe, VarDropsSafe, OperatorClosesSafe
  <2>3. QED
    BY <1>6, <2>1, <2>2 DEF Exchanges
<1>7. CASE Crash \/ Stop
  BY <1>0, <1>7, EndsSafe DEF Crash, Stop
<1>8. CASE Starting
  <2>1. CASE \E i \in DOMAIN mem.records : \E id \in IdsOf(mem.records[i]) : ProbeFinds(i, id)
    <3>1. PICK i \in DOMAIN mem.records : \E id \in IdsOf(mem.records[i]) : ProbeFinds(i, id)
      BY <2>1
    <3>2. PICK id : ProbeFinds(i, id)
      BY <3>1
    <3>3. Reports(i, id) /\ start' = start
      BY <3>2 DEF ProbeFinds, Reports, process
    <3>4. QED
      BY <1>0, <3>3, ReportsSafe
  <2>2. CASE Load \/ Inspect \/ PrepareRestored \/ ProbeEnds \/ StartHedges \/ ReconcileAtStart
    BY <1>0, <2>2, LoadSafe, InspectSafe, PrepareRestoredSafe, ProbeEndsSafe, StartHedgesSafe,
       ReconcileAtStartSafe
  <2>3. QED
    BY <1>8, <2>1, <2>2 DEF Starting
<1>9. CASE UNCHANGED vars
  BY <1>0, <1>9, UnchangedSafe DEF vars
<1> QED
  BY <1>1, <1>2, <1>3, <1>4, <1>5, <1>6, <1>7, <1>8, <1>9 DEF Next

\* What the records make of the position: every close that is priced follows an open; a Commit
\* that is not confirmed has its record, the last one, in memory and on disk; while the
\* automation is ready the position is what the records and the waiting fills say.
THEOREM SafeInvHolds == Spec => []SafeInv
BY InitSafe, NextSafe, PTL DEF Spec

\* A restart never leads to a second open or a second close of a position: of the orders the
\* strategy has executed and the operator's closes, over any number of ends of the process and
\* wherever they fall, no open follows an open and no close a close (mark_and_persist_var_intent,
\* load_runtime_state, inspect_pending_var_intent_from_portfolio, reconciliation).
THEOREM NeverDoublesHolds == Spec => []NeverDoubles
<1>1. SafeInv => NeverDoubles
  BY PositionIs, SafeIs DEF NeverDoubles, Flat
<1> QED
  BY <1>1, SafeInvHolds, PTL

-----------------------------------------------------------------------------
(* Opens and closes in turn *)

\* No open is priced while another is open.
InTurn(rs) == \A i \in DOMAIN rs : Priced(rs[i]) /\ rs[i].kind = "open" => OpenAfter(rs)[i - 1] = 0

LEMMA InTurnAppend ==
    ASSUME NEW rs \in Seq(Record), NEW r \in Record, InTurn(rs),
           Priced(r) /\ r.kind = "open" => CurrentOpen(rs) = 0
    PROVE  InTurn(Append(rs, r))
<1> DEFINE q == Append(rs, r)
           n == Len(rs) + 1
<1>1. /\ q \in Seq(Record) /\ Len(q) = n /\ q[n] = r /\ Len(rs) \in Nat
      /\ n - 1 = Len(rs) /\ DOMAIN q = 1..n /\ DOMAIN rs = 1..Len(rs)
      /\ \A i \in 1..Len(rs) : q[i] = rs[i]
  OBVIOUS
<1>2. \A k \in 0..Len(rs) : OpenAfter(q)[k] = OpenAfter(rs)[k]
  BY OpenOfAppend
<1> HIDE DEF q
<1>3. \A i \in DOMAIN q : i \in 1..Len(rs) \/ i = n
  BY <1>1
<1>4. \A i \in 1..Len(rs) : i - 1 \in 0..Len(rs)
  BY <1>1
<1>5. OpenAfter(q)[n - 1] = CurrentOpen(rs)
  BY <1>1, <1>2 DEF CurrentOpen
<1> HIDE DEF n
<1>6. ASSUME NEW i \in DOMAIN q, Priced(q[i]), q[i].kind = "open"
      PROVE  OpenAfter(q)[i - 1] = 0
  <2>1. CASE i \in 1..Len(rs)
    BY <1>1, <1>2, <1>4, <1>6, <2>1 DEF InTurn
  <2>2. CASE i = n
    BY <1>1, <1>5, <1>6, <2>2
  <2> QED
    BY <1>3, <2>1, <2>2
<1> QED
  BY <1>6 DEF InTurn, q

LEMMA InTurnReshaped ==
    ASSUME NEW p \in Seq(Record), NEW q \in Seq(Record), Reshaped(p, q), InTurn(p)
    PROVE  InTurn(q)
<1>1. /\ \A k \in 0..Len(p) : OpenAfter(q)[k] = OpenAfter(p)[k]
      /\ \A i \in 1..Len(q) : i > Len(p) => ~Priced(q[i])
  BY ReshapedRecords
<1>2. /\ DOMAIN q = 1..Len(q) /\ DOMAIN p = 1..Len(p) /\ Len(p) \in Nat /\ Len(q) \in Nat
  BY SeqIs
<1>3. ASSUME NEW i \in DOMAIN q, Priced(q[i]), q[i].kind = "open"
      PROVE  OpenAfter(q)[i - 1] = 0
  <2>1. i \in 1..Len(p) /\ i - 1 \in 0..Len(p)
    BY <1>1, <1>2, <1>3
  <2>2. q[i].kind = p[i].kind /\ q[i].src = p[i].src
    BY <2>1 DEF Reshaped
  <2>3. OpenAfter(p)[i - 1] = 0
    BY <1>2, <1>3, <2>1, <2>2 DEF InTurn, Priced
  <2> QED
    BY <1>1, <2>1, <2>3
<1> QED
  BY <1>3 DEF InTurn

\* With a close that is settled, its open is.
LEMMA SettledClose ==
    ASSUME NEW rs \in Seq(Record), Paired(rs), NEW c, c \in Settled(rs), rs[c].kind # "open"
    PROVE  OpenAfter(rs)[c - 1] \in Settled(rs)
<1>1. PICK p \in Rounds(rs) : Complete(rs[p[1]]) /\ Complete(rs[p[2]]) /\ c \in {p[1], p[2]}
  BY DEF Settled
<1>2. PICK j \in 1..Len(rs) : p = <<OpenAfter(rs)[j - 1], j>> /\ Completes(rs, OpenAfter(rs)[j - 1], j)
  BY <1>1, SeqIs DEF Rounds
<1>3. OpenAfter(rs)[j - 1] # 0 /\ j - 1 \in 0..Len(rs)
  BY <1>2, SeqIs DEF Completes
<1>4. rs[OpenAfter(rs)[j - 1]].kind = "open"
  BY <1>3, OpenIsOpen
<1>5. c = j
  BY <1>1, <1>2, <1>4
<1> QED
  BY <1>1, <1>2, <1>5 DEF Settled

\* What is kept of records in turn is in turn, and nothing but what is open is open.
LEMMA UnfinishedInTurn ==
    ASSUME NEW rs \in Seq(Record), Paired(rs), InTurn(rs)
    PROVE  InTurn(Unfinished(rs)) /\ (CurrentOpen(Unfinished(rs)) # 0 => CurrentOpen(rs) # 0)
<1> DEFINE S == Settled(rs)
           K == KeptAfter(rs, S)
           f == OpenAfter(rs)
           Good(m) == /\ Paired(K[m]) /\ InTurn(K[m])
                      /\ CurrentOpen(K[m]) # 0 <=> f[m] # 0 /\ f[m] \notin S
           T == {m \in 0..Len(rs) : ~Good(m)}
<1>1. Len(rs) \in Nat /\ DOMAIN rs = 1..Len(rs) /\ Len(rs) \in 0..Len(rs)
  OBVIOUS
<1>2. K[0] = <<>> /\ \A i \in 1..Len(rs) :
                        K[i] = IF i \in S THEN K[i - 1] ELSE Append(K[i - 1], rs[i])
  BY <1>1, KeptSteps
<1>3. \A m \in 0..Len(rs) : K[m] \in Seq(Record)
  BY KeptPlaces
<1>4. f[0] = 0
  BY <1>1, OpenSteps
<1>5. \A i \in 1..Len(rs) : i \in S => Priced(rs[i])
  BY SettledIsComplete DEF Complete, Priced
<1>6. CurrentOpen(<<>>) = 0
  <2>1. Len(<<>>) = 0 /\ 0 \in Nat
    OBVIOUS
  <2>2. QED
    BY <2>1, OpenSteps DEF CurrentOpen
<1>7. T = {}
  <2> SUFFICES ASSUME T # {} PROVE FALSE
    OBVIOUS
  <2>1. PICK x \in T : \A y \in T : x <= y
    <3>1. T \subseteq Nat /\ T # {}
      OBVIOUS
    <3> HIDE DEF T
    <3>2. QED
      BY <3>1, LeastElement
  <2> HIDE DEF K, f, S
  <2>2. Good(0)
    BY <1>2, <1>4, <1>6 DEF Paired, InTurn
  <2>3. x \in 1..Len(rs) /\ x - 1 \in 0..Len(rs) /\ x - 1 \notin T
    BY <1>1, <2>1, <2>2
  <2>4. Good(x - 1) /\ K[x - 1] \in Seq(Record) /\ rs[x] \in Record
    BY <1>3, <2>3
  <2>5. /\ ~Priced(rs[x]) => f[x] = f[x - 1] /\ x \notin S
        /\ Priced(rs[x]) /\ rs[x].kind = "open" => f[x] = x /\ f[x - 1] = 0 /\ x # 0
        /\ Priced(rs[x]) /\ rs[x].kind # "open" =>
              /\ rs[x].kind = "close" /\ f[x] = 0 /\ f[x - 1] # 0
              /\ x \in S <=> f[x - 1] \in S
    <3>1. /\ ~Priced(rs[x]) => f[x] = f[x - 1] /\ x \notin S
          /\ Priced(rs[x]) /\ rs[x].kind = "open" => f[x] = x
          /\ Priced(rs[x]) /\ rs[x].kind # "open" =>
                rs[x].kind = "close" /\ f[x] = 0 /\ f[x - 1] # 0
      BY <1>5, <2>3, PairedSteps DEF f
    <3>2. Priced(rs[x]) /\ rs[x].kind = "open" => f[x - 1] = 0
      BY <1>1, <2>3 DEF f, InTurn
    <3>3. Priced(rs[x]) /\ rs[x].kind # "open" /\ x \in S => f[x - 1] \in S
      BY SettledClose DEF f, S
    <3>4. Priced(rs[x]) /\ rs[x].kind # "open" /\ x \notin S => f[x - 1] \notin S
      BY <2>3, <3>1, OpenNotSettled DEF f, S
    <3>5. QED
      BY <2>3, <3>1, <3>2, <3>3, <3>4
  <2>6. CASE x \in S
    <3>1. K[x] = K[x - 1]
      BY <1>2, <2>3, <2>6
    <3>2. (f[x] = 0 \/ f[x] \in S) /\ (f[x - 1] = 0 \/ f[x - 1] \in S)
      BY <2>5, <2>6
    <3>3. Good(x)
      BY <2>4, <3>1, <3>2
    <3>4. QED
      BY <2>1, <3>3
  <2>7. CASE x \notin S
    <3> DEFINE k == K[x - 1]
               r == rs[x]
    <3>1. K[x] = Append(k, r) /\ k \in Seq(Record) /\ r \in Record /\ Paired(k) /\ InTurn(k)
      BY <1>2, <2>3, <2>4, <2>7
    <3>2. /\ Priced(r) => r.kind \in {"open", "close"} /\ (r.kind = "close" => CurrentOpen(k) # 0)
          /\ Priced(r) /\ r.kind = "open" => CurrentOpen(k) = 0
      BY <2>4, <2>5, <2>7
    <3>3. /\ Paired(K[x]) /\ InTurn(K[x])
          /\ (CurrentOpen(K[x]) # 0) <=> IF Priced(r) THEN r.kind = "open" ELSE CurrentOpen(k) # 0
      <4> HIDE DEF k, r
      <4> QED
        BY <3>1, <3>2, PairedAppend, InTurnAppend
    <3>4. Good(x)
      BY <2>4, <2>5, <2>7, <3>3
    <3>5. QED
      BY <2>1, <3>4
  <2>8. QED
    BY <2>6, <2>7
<1>8. Good(Len(rs)) /\ Unfinished(rs) = K[Len(rs)] /\ CurrentOpen(rs) = f[Len(rs)]
  BY <1>1, <1>7 DEF Unfinished, CurrentOpen
<1> HIDE DEF K, f, S
<1> QED
  BY <1>8

-----------------------------------------------------------------------------
(* What a state knows of the trades *)

\* An intent whose fill is not bound to it: the order may still be executed, or has been.
Awaits(s) == s.intent # <<>> /\ ~s.intent.confirmed
Holds(s, n) == Awaits(s) /\ s.intent.n = n
\* The position, as the order that is awaited leaves it.
Settles(t) == IF t.kind = "open" <=> t.state = "executed" THEN 1 ELSE 0

\* The position is what the records say, and what became of the order that is awaited.
Accounted(ts, s) ==
    IF Awaits(s)
    THEN /\ Net(ts) = Settles(ts[s.intent.n])
         /\ ~s.intent.provisional => (ts[s.intent.n].kind = "close" <=> CurrentOpen(s.records) # 0)
    ELSE /\ Net(ts) = Side(CurrentOpen(s.records))
         /\ s.intent # <<>> => ~s.intent.provisional /\ ts[s.intent.n].kind = "close"
                                /\ CurrentOpen(s.records) = 0

FilledAs(lt, n) == \E i \in Ids : i[1] = n /\ i[2] = "hedge" /\ lt[i] = "filled"
RecordTrue(ts, lt, r) ==
    /\ r.n \in DOMAIN ts
    /\ r.kind # "undo" => r.kind = ts[r.n].kind
    /\ r.src \in {"event", "portfolio"} => r.kind # "undo" /\ ts[r.n].state = "executed"
    /\ r.reserved => r.kind # "undo"
    /\ r.hedge = "filled" => r.filled
    /\ r.filled /\ r.kind # "undo" => FilledAs(lt, r.n)
    /\ \A i \in Range(r.ids) : i[1] = r.n /\ i[2] = Role(r)
AllTrue(ts, lt, rs) == \A i \in DOMAIN rs : RecordTrue(ts, lt, rs[i])

\* An order that may matter is named, unless both legs of its round are executed and hedged.
Live(t) == t.state \in {"sent", "accepted", "executed"}
Tells(s, n) == Holds(s, n) \/ \E i \in DOMAIN s.records : OrderOf(s.records[i], n)
Ended(ts, lt, n) == ts[n].state = "executed" /\ FilledAs(lt, n)
Finished(ts, lt, n) ==
    /\ Ended(ts, lt, n)
    /\ \E m \in DOMAIN ts : ts[m].kind # ts[n].kind /\ Ended(ts, lt, m)
Covers(ts, lt, s) == \A n \in DOMAIN ts : Live(ts[n]) => Tells(s, n) \/ Finished(ts, lt, n)

Books(ts, lt, s) ==
    InTurn(s.records) /\ Accounted(ts, s) /\ AllTrue(ts, lt, s.records) /\ Covers(ts, lt, s)

\* The exchanges go on: what is executed or filled stays so.
Goes(ts, us, lt, lu) ==
    /\ \A n \in DOMAIN ts : /\ n \in DOMAIN us /\ us[n].kind = ts[n].kind
                            /\ ts[n].state = "executed" => us[n].state = "executed"
    /\ \A i \in Ids : lt[i] = "filled" => lu[i] = "filled"

LEMMA RecordTrueKept ==
    ASSUME NEW ts, NEW us, NEW lt, NEW lu, Goes(ts, us, lt, lu), NEW r, RecordTrue(ts, lt, r)
    PROVE  RecordTrue(us, lu, r)
<1>1. FilledAs(lt, r.n) => FilledAs(lu, r.n)
  BY DEF FilledAs, Goes
<1>2. r.n \in DOMAIN us /\ us[r.n].kind = ts[r.n].kind
      /\ (ts[r.n].state = "executed" => us[r.n].state = "executed")
  BY DEF RecordTrue, Goes
<1> QED
  BY <1>1, <1>2 DEF RecordTrue

LEMMA FinishedKept ==
    ASSUME NEW ts, NEW us, NEW lt, NEW lu, Goes(ts, us, lt, lu), NEW n \in DOMAIN ts,
           Finished(ts, lt, n)
    PROVE  Finished(us, lu, n)
<1>1. ASSUME NEW m \in DOMAIN ts, Ended(ts, lt, m)
      PROVE  m \in DOMAIN us /\ us[m].kind = ts[m].kind /\ Ended(us, lu, m)
  <2>1. FilledAs(lu, m)
    BY <1>1 DEF Ended, FilledAs, Goes
  <2>2. QED
    BY <1>1, <2>1 DEF Ended, Goes
<1>2. PICK m \in DOMAIN ts : ts[m].kind # ts[n].kind /\ Ended(ts, lt, m)
  BY DEF Finished
<1>3. n \in DOMAIN us /\ us[n].kind = ts[n].kind /\ Ended(us, lu, n)
  BY <1>1 DEF Finished
<1>4. m \in DOMAIN us /\ us[m].kind = ts[m].kind /\ Ended(us, lu, m)
  BY <1>1, <1>2
<1> QED
  BY <1>2, <1>3, <1>4 DEF Finished

\* A state that does not change keeps its books if the position is what it says.
LEMMA BooksKept ==
    ASSUME NEW ts, NEW us, NEW lt, NEW lu, Goes(ts, us, lt, lu), NEW s, Books(ts, lt, s),
           Accounted(us, s),
           \A n \in DOMAIN us : Live(us[n]) => Tells(s, n) \/ (n \in DOMAIN ts /\ Live(ts[n]))
    PROVE  Books(us, lu, s)
<1>1. AllTrue(us, lu, s.records)
  BY RecordTrueKept DEF Books, AllTrue
<1>2. ASSUME NEW n \in DOMAIN us, Live(us[n]), ~Tells(s, n)
      PROVE  Finished(us, lu, n)
  <2>1. n \in DOMAIN ts /\ Finished(ts, lt, n)
    BY <1>2 DEF Books, Covers
  <2>2. QED
    BY <2>1, FinishedKept
<1> QED
  BY <1>1, <1>2 DEF Books, Covers

\* The position does not change ...
LEMMA AccountedStill ==
    ASSUME NEW ts, NEW us, NEW s, Accounted(ts, s), Net(us) = Net(ts),
           s.intent # <<>> => s.intent.n \in DOMAIN ts,
           \A n \in DOMAIN ts : /\ us[n].kind = ts[n].kind
                                /\ us[n].state = "executed" <=> ts[n].state = "executed"
    PROVE  Accounted(us, s)
BY DEF Accounted, Awaits, Settles

\* ... or by the order that is awaited.
LEMMA AccountedExecuted ==
    ASSUME NEW ts, NEW us, NEW s, NEW n, Accounted(ts, s), Holds(s, n),
           ts[n].kind \in {"open", "close"}, us[n].kind = ts[n].kind,
           ts[n].state # "executed", us[n].state = "executed", Net(us) = Net(ts) + Gain(us[n])
    PROVE  Accounted(us, s)
BY DEF Accounted, Holds, Settles, Gain

-----------------------------------------------------------------------------
(* Records that change, and the books *)

SameClaim(s, t) ==
    /\ s.intent = <<>> <=> t.intent = <<>>
    /\ s.intent # <<>> => /\ t.intent.n = s.intent.n /\ t.intent.provisional = s.intent.provisional
                          /\ t.intent.confirmed = s.intent.confirmed

LEMMA BooksReshaped ==
    ASSUME NEW ts, NEW lt, NEW s \in State, NEW t \in State, Books(ts, lt, s),
           Reshaped(s.records, t.records), SameClaim(s, t), AllTrue(ts, lt, t.records)
    PROVE  Books(ts, lt, t)
<1> DEFINE p == s.records
           q == t.records
<1>1. p \in Seq(Record) /\ q \in Seq(Record) /\ Reshaped(p, q) /\ InTurn(p)
  BY StateFields DEF Books
<1> HIDE DEF p, q
<1>2. CurrentOpen(q) = CurrentOpen(p) /\ InTurn(q)
  BY <1>1, ReshapedRecords, InTurnReshaped
<1>3. /\ Awaits(t) <=> Awaits(s)
      /\ \A n : Holds(t, n) <=> Holds(s, n)
      /\ s.intent # <<>> <=> t.intent # <<>>
  BY DEF SameClaim, Awaits, Holds
<1>4. Accounted(ts, t)
  BY <1>2, <1>3 DEF Books, Accounted, SameClaim, p, q
<1>5. \A n : Tells(s, n) => Tells(t, n)
  <2> SUFFICES ASSUME NEW n, NEW i \in DOMAIN p, OrderOf(p[i], n)
               PROVE  \E j \in DOMAIN q : OrderOf(q[j], n)
    BY <1>3 DEF Tells, p, q
  <2>1. i \in 1..Len(p) /\ i \in DOMAIN q
    BY <1>1 DEF Reshaped
  <2>2. OrderOf(q[i], n)
    BY <1>1, <2>1 DEF Reshaped, OrderOf
  <2>3. QED
    BY <2>1, <2>2
<1> QED
  BY <1>2, <1>4, <1>5 DEF Books, Covers, q

\* A settled round is a finished one.
LEMMA SettledFinished ==
    ASSUME NEW ts, NEW lt, NEW rs \in Seq(Record), AllTrue(ts, lt, rs), NEW k, k \in Settled(rs)
    PROVE  Finished(ts, lt, rs[k].n)
<1>1. PICK p \in Rounds(rs) : Complete(rs[p[1]]) /\ Complete(rs[p[2]]) /\ k \in {p[1], p[2]}
  BY DEF Settled
<1>2. PICK j \in DOMAIN rs : p = <<OpenAfter(rs)[j - 1], j>> /\ Completes(rs, OpenAfter(rs)[j - 1], j)
  BY <1>1 DEF Rounds
<1> DEFINE i == OpenAfter(rs)[j - 1]
<1>3. j \in DOMAIN rs /\ j - 1 \in 0..Len(rs) /\ Len(rs) \in Nat
  BY SeqIs
<1>4. i \in DOMAIN rs /\ rs[i].kind # rs[j].kind
  BY <1>2, <1>3, OpenIsRecord, SeqIs DEF Completes
<1>5. Complete(rs[i]) /\ Complete(rs[j]) /\ k \in {i, j}
  BY <1>1, <1>2
<1> HIDE DEF i
<1>6. ASSUME NEW m \in DOMAIN rs, Complete(rs[m])
      PROVE  rs[m].n \in DOMAIN ts /\ ts[rs[m].n].kind = rs[m].kind /\ Ended(ts, lt, rs[m].n)
  BY <1>6 DEF AllTrue, RecordTrue, Complete, Ended
<1> QED
  BY <1>3, <1>4, <1>5, <1>6 DEF Finished

LEMMA BooksUnfinished ==
    ASSUME NEW ts, NEW lt, NEW s \in State, NEW t \in State, Books(ts, lt, s), Paired(s.records),
           t.records = Unfinished(s.records), SameClaim(s, t)
    PROVE  Books(ts, lt, t)
<1> DEFINE p == s.records
           q == t.records
<1>1. p \in Seq(Record) /\ q \in Seq(Record) /\ q = Unfinished(p) /\ InTurn(p) /\ Paired(p)
      /\ AllTrue(ts, lt, p)
  BY StateFields DEF Books
<1> HIDE DEF p, q
<1>2. InTurn(q) /\ (CurrentOpen(q) # 0 <=> CurrentOpen(p) # 0)
  BY <1>1, UnfinishedInTurn, UnfinishedPaired
<1>3. /\ Awaits(t) <=> Awaits(s)
      /\ \A n : Holds(t, n) <=> Holds(s, n)
      /\ s.intent # <<>> <=> t.intent # <<>>
  BY DEF SameClaim, Awaits, Holds
<1>4. Accounted(ts, t)
  <2>1. Side(CurrentOpen(q)) = Side(CurrentOpen(p))
    BY <1>2 DEF Side
  <2>2. QED
    BY <1>2, <1>3, <2>1 DEF Books, Accounted, SameClaim, p, q
<1>5. PICK at \in [DOMAIN q -> DOMAIN p] :
        /\ \A l \in DOMAIN q : at[l] \notin Settled(p) /\ q[l] = p[at[l]]
        /\ \A l, m \in DOMAIN q : l < m => at[l] < at[m]
        /\ \A m \in DOMAIN p : m \notin Settled(p) => \E l \in DOMAIN q : at[l] = m
  BY <1>1, UnfinishedIs
<1>6. AllTrue(ts, lt, q)
  BY <1>1, <1>5 DEF AllTrue
<1>7. ASSUME NEW n \in DOMAIN ts, Live(ts[n]), ~Tells(t, n)
      PROVE  Finished(ts, lt, n)
  <2> SUFFICES ASSUME NEW m \in DOMAIN p, OrderOf(p[m], n) PROVE Finished(ts, lt, n)
    BY <1>3, <1>7 DEF Books, Covers, Tells, p
  <2>1. m \in Settled(p)
    BY <1>5, <1>7 DEF Tells, q
  <2>2. p[m].n = n
    BY DEF OrderOf
  <2>3. QED
    BY <1>1, <2>1, <2>2, SettledFinished
<1> QED
  BY <1>2, <1>4, <1>6, <1>7 DEF Books, Covers, q

-----------------------------------------------------------------------------
(* The invariant, and steps that leave the trades and the disk alone *)

Disk == {file} \cup {w.state : w \in writes}
DiskBooks == \A s \in Disk : Books(trades, lighter, s)
MemBooks == start # "down" => Books(trades, lighter, mem)
\* A Commit that may still be executed is awaited by whatever is on disk, or on its way.
Vow == \A n \in DOMAIN trades : trades[n].state \in {"sent", "accepted"} => \A s \in Disk : Holds(s, n)
\* Before it is sent, the write that the coroutine waits for has brought this about.
Marked ==
    order \in {"marked", "prepared"} =>
        /\ Written("order") => \A s \in Disk : Holds(s, Len(trades))
        /\ \A x \in writes : x.by = <<"order", 0>> => Holds(x.state, Len(trades))
AllAuto == \A n \in DOMAIN trades : trades[n].auto
BooksInv == SafeInv /\ AllAuto /\ DiskBooks /\ MemBooks /\ Vow /\ Marked

LEMMA BooksAre ==
    ASSUME BooksInv
    PROVE  /\ SafeInv /\ AllAuto /\ DiskBooks /\ MemBooks /\ Vow /\ Marked
           /\ TypeInv /\ Chain(trades, mem) /\ mem \in State /\ mem.records \in Seq(Record)
           /\ trades \in Seq(Trade) /\ DOMAIN trades = 1..Len(trades) /\ Len(trades) \in Nat
           /\ mem.intent # <<>> => mem.intent \in Intent /\ mem.intent.n \in DOMAIN trades
           /\ \A s \in Disk : s \in State /\ (s.intent # <<>> => s.intent.n \in DOMAIN trades)
<1>1. SafeInv /\ StatesFit /\ trades \in Seq(Trade) /\ mem \in State
  BY SafeIs, TypeInvParts DEF BooksInv
<1>2. DOMAIN trades = 1..Len(trades) /\ Len(trades) \in Nat
  BY <1>1
<1>3. mem.intent # <<>> => mem.intent \in Intent /\ mem.intent.n \in DOMAIN trades
  BY <1>1, <1>2, StateFields DEF StatesFit, Fits, Numbered
<1>4. \A s \in Disk : s \in State /\ (s.intent # <<>> => s.intent.n \in DOMAIN trades)
  BY <1>1, <1>2 DEF Disk, StatesFit, Fits, Numbered
<1> QED
  BY <1>1, <1>2, <1>3, <1>4, SafeIs DEF BooksInv

Fills == \A i \in Ids : lighter[i] = "filled" => lighter'[i] = "filled"

LEMMA FillsGo == ASSUME Fills PROVE Goes(trades, trades, lighter, lighter')
BY DEF Fills, Goes

LEMMA KeptAlone ==
    ASSUME BooksInv, Fills, NEW s, Books(trades, lighter, s)
    PROVE  Books(trades, lighter', s)
<1>1. Accounted(trades, s)
  BY DEF Books
<1> QED
  BY <1>1, FillsGo, BooksKept

LEMMA RestBooks ==
    ASSUME BooksInv, SafeInv', Fills, UNCHANGED <<trades, file, writes>>,
           start' # "down" => Books(trades, lighter', mem'), Marked'
    PROVE  BooksInv'
<1>1. Disk' = Disk
  BY DEF Disk
<1>2. DiskBooks'
  BY <1>1, BooksAre, KeptAlone DEF DiskBooks
<1>3. MemBooks'
  BY DEF MemBooks
<1>4. Vow' /\ AllAuto'
  BY <1>1, BooksAre DEF Vow, AllAuto
<1> QED
  BY <1>2, <1>3, <1>4 DEF BooksInv

LEMMA MarkedRests ==
    ASSUME BooksInv, UNCHANGED <<trades, order, file, writes>>, waiting \subseteq waiting'
    PROVE  Marked'
BY BooksAre DEF Marked, Written, Disk

LEMMA MarkedIdle == ASSUME order' \notin {"marked", "prepared"} PROVE Marked'
BY DEF Marked

\* The records change, but for what they tell.
LEMMA HedgeBooks ==
    ASSUME BooksInv, SafeInv', Fills, UNCHANGED <<trades, file, writes>>, Marked',
           start' # "down" => start # "down", Reshaped(mem.records, mem'.records),
           SameClaim(mem, mem'),
           AllTrue(trades, lighter', mem.records) => AllTrue(trades, lighter', mem'.records)
    PROVE  BooksInv'
<1>1. mem \in State /\ mem' \in State
  BY BooksAre, TypeInvParts DEF SafeInv, TypeInv, Typed, StatesFit, Fits
<1>2. ASSUME start' # "down" PROVE Books(trades, lighter', mem')
  <2>1. Books(trades, lighter', mem)
    BY <1>2, BooksAre, KeptAlone DEF MemBooks
  <2>2. AllTrue(trades, lighter', mem'.records)
    BY <2>1 DEF Books
  <2>3. QED
    BY <1>1, <2>1, <2>2, BooksReshaped
<1> QED
  BY <1>2, RestBooks

LEMMA SameClaims == ASSUME NEW s, NEW t, t.intent = s.intent PROVE SameClaim(s, t)
BY DEF SameClaim

LEMMA TrueHedge ==
    ASSUME NEW ts, NEW lt, NEW r \in Record, RecordTrue(ts, lt, r), NEW h \in Hedge,
           h = "filled" => r.filled
    PROVE  RecordTrue(ts, lt, [r EXCEPT !.hedge = h])
<1> DEFINE q == [r EXCEPT !.hedge = h]
<1>1. /\ q.n = r.n /\ q.kind = r.kind /\ q.src = r.src /\ q.hedge = h
      /\ q.ids = r.ids /\ q.reserved = r.reserved /\ q.filled = r.filled
  BY SetHedge
<1> HIDE DEF q
<1>2. Role(q) = Role(r)
  BY <1>1 DEF Role
<1> QED
  BY <1>1, <1>2 DEF RecordTrue, q

LEMMA TrueReplaced ==
    ASSUME NEW ts, NEW lt, NEW rs \in Seq(Record), AllTrue(ts, lt, rs), NEW k \in DOMAIN rs, NEW r,
           RecordTrue(ts, lt, r)
    PROVE  AllTrue(ts, lt, [rs EXCEPT ![k] = r])
BY DEF AllTrue

\* One hedge changes.
LEMMA OneHedgeBooks ==
    ASSUME BooksInv, SafeInv', Fills, UNCHANGED <<trades, file, writes>>, Marked', start' = start,
           NEW k \in DOMAIN mem.records, NEW h \in Hedge, h = "filled" => mem.records[k].filled,
           mem'.records = [mem.records EXCEPT ![k].hedge = h], mem'.intent = mem.intent
    PROVE  BooksInv'
<1> DEFINE r == mem.records[k]
           q == [r EXCEPT !.hedge = h]
<1>1. r \in Record /\ mem.records \in Seq(Record)
  BY BooksAre
<1>2. mem'.records = [mem.records EXCEPT ![k] = q]
  OBVIOUS
<1>3. Reshaped(mem.records, mem'.records)
  BY <1>1, HedgeReshaped
<1>4. ASSUME AllTrue(trades, lighter', mem.records) PROVE AllTrue(trades, lighter', mem'.records)
  <2>1. RecordTrue(trades, lighter', r)
    BY <1>4 DEF AllTrue
  <2>2. RecordTrue(trades, lighter', q)
    BY <1>1, <2>1, TrueHedge
  <2> HIDE DEF q
  <2>3. QED
    BY <1>1, <1>2, <1>4, <2>2, TrueReplaced
<1> QED
  BY <1>3, <1>4, SameClaims, HedgeBooks

LEMMA SameBooks ==
    ASSUME BooksInv, SafeInv', Fills, UNCHANGED <<trades, mem, start, file, writes>>, Marked'
    PROVE  BooksInv'
BY SameReshaped, SameClaims, BooksAre, HedgeBooks

-----------------------------------------------------------------------------
(* Hedges *)

LEMMA ReachFills == ASSUME BooksInv, NEW id, Reach(id) PROVE Fills
<1>1. lighter \in [Ids -> {"none", "sent", "filled", "dead"}]
  BY BooksAre, TypeInvParts DEF WorldTyped
<1> QED
  BY <1>1 DEF Reach, Fills

LEMMA RequeueBooks == BooksInv /\ SafeInv' /\ Requeue => BooksInv'
<1> SUFFICES ASSUME BooksInv, SafeInv', Requeue PROVE BooksInv'
  OBVIOUS
<1>1. /\ retry # 0
      /\ UNCHANGED <<trades, lighter, order, start, waiting, writes, file>>
      /\ mem' = mem \/ mem' = [mem EXCEPT !.records[retry].hedge = "queued"]
  BY DEF Requeue, NoSave, saving, truth, process
<1>2. Fills /\ Marked'
  BY <1>1, MarkedRests DEF Fills
<1>3. retry \in DOMAIN mem.records
  BY <1>1, TypeInvParts, StateFields, BooksAre DEF PlacesTyped
<1>4. CASE mem' = mem
  BY <1>1, <1>2, <1>4, SameBooks
<1>5. CASE mem' = [mem EXCEPT !.records[retry].hedge = "queued"]
  <2>1. mem'.records = [mem.records EXCEPT ![retry].hedge = "queued"] /\ mem'.intent = mem.intent
    BY <1>5, BooksAre DEF State
  <2>2. QED
    BY <1>1, <1>2, <1>3, <2>1, OneHedgeBooks DEF Hedge
<1> QED
  BY <1>1, <1>4, <1>5

LEMMA FeedFollowsBooks == BooksInv /\ SafeInv' /\ FeedFollows => BooksInv'
<1> SUFFICES ASSUME BooksInv, SafeInv', FeedFollows PROVE BooksInv'
  OBVIOUS
<1>1. /\ follow # 0
      /\ UNCHANGED <<trades, lighter, order, start, writes, file>> /\ waiting \subseteq waiting'
      /\ \/ mem' = mem
         \/ mem' = [mem EXCEPT !.records[follow].hedge = "queued"]
         \/ mem' = [mem EXCEPT !.records[follow].hedge = "skipped", !.paused = PauseFor("recon")]
  BY DEF FeedFollows, NoSave, Persist, saving, truth, process
<1>2. Fills /\ Marked'
  BY <1>1, MarkedRests DEF Fills
<1>3. follow \in DOMAIN mem.records
  BY <1>1, TypeInvParts, StateFields, BooksAre DEF PlacesTyped
<1>4. CASE mem' = mem
  BY <1>1, <1>2, <1>4, SameBooks
<1>5. ASSUME NEW h \in {"queued", "skipped"}, mem'.records = [mem.records EXCEPT ![follow].hedge = h],
             mem'.intent = mem.intent
      PROVE  BooksInv'
  BY <1>1, <1>2, <1>3, <1>5, OneHedgeBooks DEF Hedge
<1>6. \/ mem' = mem
      \/ \E h \in {"queued", "skipped"} : /\ mem'.records = [mem.records EXCEPT ![follow].hedge = h]
                                          /\ mem'.intent = mem.intent
  BY <1>1, BooksAre DEF State
<1> QED
  BY <1>4, <1>5, <1>6

LEMMA SendBooks == ASSUME BooksInv, SafeInv', NEW i \in DOMAIN mem.records, Send(i) PROVE BooksInv'
<1>1. /\ mem' = [mem EXCEPT !.records[i].hedge = "submitted"] /\ waiting \subseteq waiting'
      /\ UNCHANGED <<trades, order, start, writes, file>> /\ Reach(Last(mem.records[i].ids))
  BY DEF Send, PersistHedge, runtime, process
<1>2. Fills /\ Marked'
  BY <1>1, MarkedRests, ReachFills
<1>3. mem'.records = [mem.records EXCEPT ![i].hedge = "submitted"] /\ mem'.intent = mem.intent
  BY <1>1, BooksAre DEF State
<1> QED
  BY <1>1, <1>2, <1>3, OneHedgeBooks DEF Hedge

\* The next attempt's id is one of the record's trade and role.
LEMMA TrueTried ==
    ASSUME NEW ts, NEW lt, NEW r \in Record, RecordTrue(ts, lt, r), NEW h \in Hedge,
           h # "filled", NextId(r) \in Ids
    PROVE  RecordTrue(ts, lt, Tried(r, h, NextId(r)))
<1> DEFINE id == NextId(r)
           q == Tried(r, h, id)
<1>1. id[1] = r.n /\ id[2] = Role(r)
  BY DEF NextId, ReservedId, Role, RecordTrue
<1>2. id \in Ids /\ r.ids \in Seq(Ids)
  BY RecordFields
<1> HIDE DEF id
<1>3. /\ q.n = r.n /\ q.kind = r.kind /\ q.src = r.src /\ q.hedge = h
      /\ q.ids = Append(r.ids, id) /\ q.reserved = r.reserved /\ q.filled = r.filled
  BY <1>2, TriedIs
<1> HIDE DEF q
<1>4. Role(q) = Role(r)
  BY <1>3 DEF Role
<1>5. \A j \in Range(q.ids) : j \in Range(r.ids) \/ j = id
  <2> DEFINE s == r.ids
  <2>1. s \in Seq(Ids) /\ q.ids = Append(s, id)
    BY <1>2, <1>3
  <2> HIDE DEF s
  <2>2. \A k \in 1..Len(s) + 1 : Append(s, id)[k] = IF k = Len(s) + 1 THEN id ELSE s[k]
    BY <1>2, <2>1
  <2>3. DOMAIN Append(s, id) = 1..Len(s) + 1 /\ DOMAIN s = 1..Len(s) /\ Len(s) \in Nat
    BY <1>2, <2>1
  <2>4. \A k \in DOMAIN Append(s, id) : k = Len(s) + 1 \/ k \in DOMAIN s
    BY <2>3
  <2>5. QED
    BY <2>1, <2>2, <2>3, <2>4 DEF Range, s
<1> QED
  BY <1>1, <1>3, <1>4, <1>5 DEF RecordTrue, q, id

LEMMA AllocateBooks == ASSUME BooksInv, SafeInv', NEW i \in DOMAIN mem.records, Allocate(i) PROVE BooksInv'
<1> DEFINE r == mem.records[i]
           h == IF PreparedPrimary(r) THEN "submitted" ELSE "submitting"
           new == Tried(r, h, NextId(r))
<1>1. /\ \/ r.filled /\ mem' = [mem EXCEPT !.records[i].hedge = "filled"]
         \/ mem' = [mem EXCEPT !.records[i].hedge = "error", !.paused = PauseFor("recon")]
         \/ mem' = [mem EXCEPT !.records[i].hedge = h, !.records[i].ids = Append(@, NextId(r))]
      /\ UNCHANGED <<trades, order, start, writes, file>> /\ waiting \subseteq waiting'
      /\ lighter' = lighter \/ Reach(NextId(r))
      /\ r.hedge = "queued"
  BY DEF Allocate, PersistHedge, NoSave, saving, runtime, process
<1>2. r \in Record /\ NextId(r) \in Ids /\ mem.records \in Seq(Record)
  <2>1. r \in Record /\ Len(r.ids) <= Limit
    BY BooksAre, TypeInvParts DEF Fits, Attempted
  <2>2. QED
    BY <2>1, BooksAre, NextIdTyped
<1>3. Fills
  BY <1>1, ReachFills DEF Fills
<1>4. Marked'
  BY <1>1, MarkedRests
<1>5. CASE r.filled /\ mem' = [mem EXCEPT !.records[i].hedge = "filled"]
  <2>1. mem'.records = [mem.records EXCEPT ![i].hedge = "filled"] /\ mem'.intent = mem.intent
    BY <1>5, BooksAre DEF State
  <2>2. QED
    BY <1>1, <1>3, <1>4, <1>5, <2>1, OneHedgeBooks DEF Hedge
<1>6. CASE mem' = [mem EXCEPT !.records[i].hedge = "error", !.paused = PauseFor("recon")]
  <2>1. mem'.records = [mem.records EXCEPT ![i].hedge = "error"] /\ mem'.intent = mem.intent
    BY <1>6, BooksAre DEF State
  <2>2. QED
    BY <1>1, <1>3, <1>4, <2>1, OneHedgeBooks DEF Hedge
<1>7. CASE mem' = [mem EXCEPT !.records[i].hedge = h, !.records[i].ids = Append(@, NextId(r))]
  <2>1. mem'.records = [mem.records EXCEPT ![i] = new] /\ mem'.intent = mem.intent
    <3>1. mem'.records = [mem.records EXCEPT ![i].hedge = h, ![i].ids = Append(@, NextId(r))]
          /\ mem'.intent = mem.intent
      BY <1>7, BooksAre DEF State
    <3>2. QED
      BY <3>1 DEF Tried
  <2>2. h \in Hedge /\ h # "filled"
    BY DEF Hedge
  <2> HIDE DEF h
  <2>3. new.n = r.n /\ new.kind = r.kind /\ new.src = r.src
    BY <1>2, <2>2, TriedIs
  <2>4. Reshaped(mem.records, mem'.records)
    <3> HIDE DEF new
    <3>1. QED
      BY <1>2, <2>1, <2>3, RecordReshaped
  <2>5. ASSUME AllTrue(trades, lighter', mem.records) PROVE AllTrue(trades, lighter', mem'.records)
    <3>1. RecordTrue(trades, lighter', r)
      BY <2>5 DEF AllTrue
    <3>2. RecordTrue(trades, lighter', new)
      BY <1>2, <2>2, <3>1, TrueTried
    <3> HIDE DEF new
    <3>3. QED
      BY <1>2, <2>1, <2>5, <3>2, TrueReplaced
  <2>6. QED
    BY <1>1, <1>3, <1>4, <2>1, <2>4, <2>5, SameClaims, HedgeBooks
<1> QED
  BY <1>1, <1>5, <1>6, <1>7

LEMMA TrueUpdated ==
    ASSUME NEW ts, NEW r \in Record, RecordTrue(ts, lighter, r), NEW id \in IdsOf(r), Concerns(r, id)
    PROVE  RecordTrue(ts, lighter, Updated(r, id))
<1> DEFINE q == Updated(r, id)
<1>1. id \in Ids
  BY ConcernedId
<1>2. id[1] = r.n /\ id[2] = Role(r)
  <2>1. CASE id \in Range(r.ids)
    BY <2>1 DEF RecordTrue
  <2>2. CASE id \notin Range(r.ids)
    <3>1. r.reserved /\ id = <<r.n, "hedge", 0>>
      BY <2>2 DEF IdsOf, ReservedId
    <3>2. Role(r) = "hedge"
      BY <3>1 DEF RecordTrue, Role
    <3>3. QED
      BY <3>1, <3>2
  <2>3. QED
    BY <2>1, <2>2
<1>3. /\ q.n = r.n /\ q.kind = r.kind /\ q.src = r.src
      /\ q.ids = (IF id \in Range(r.ids) THEN r.ids ELSE Append(r.ids, id))
      /\ q.reserved = r.reserved /\ q.filled = (r.filled \/ lighter[id] = "filled")
      /\ q.hedge = "filled" <=> q.filled
  BY <1>1, UpdatedIs
<1> HIDE DEF q
<1>4. Role(q) = Role(r)
  BY <1>3 DEF Role
<1>5. \A j \in Range(q.ids) : j \in Range(r.ids) \/ j = id
  <2> DEFINE s == r.ids
  <2>1. s \in Seq(Ids) /\ (q.ids = Append(s, id) \/ q.ids = s)
    BY <1>3, RecordFields
  <2> HIDE DEF s
  <2>2. \A k \in 1..Len(s) + 1 : Append(s, id)[k] = IF k = Len(s) + 1 THEN id ELSE s[k]
    BY <1>1, <2>1
  <2>3. DOMAIN Append(s, id) = 1..Len(s) + 1 /\ DOMAIN s = 1..Len(s) /\ Len(s) \in Nat
    BY <1>1, <2>1
  <2>4. \A k \in DOMAIN Append(s, id) : k = Len(s) + 1 \/ k \in DOMAIN s
    BY <2>3
  <2>5. QED
    BY <2>1, <2>2, <2>3, <2>4 DEF Range, s
<1>6. q.filled /\ q.kind # "undo" => FilledAs(lighter, q.n)
  <2>1. r.kind # "undo" => Role(r) = "hedge"
    BY DEF Role
  <2>2. lighter[id] = "filled" /\ r.kind # "undo" => FilledAs(lighter, r.n)
    BY <1>1, <1>2, <2>1 DEF FilledAs
  <2>3. QED
    BY <1>3, <2>2 DEF RecordTrue
<1> QED
  BY <1>2, <1>3, <1>4, <1>5, <1>6 DEF RecordTrue, q

LEMMA TrueUndo ==
    ASSUME NEW ts, NEW lt, NEW r \in Record, r.n \in DOMAIN ts
    PROVE  RecordTrue(ts, lt, Undo(r))
<1> DEFINE u == Undo(r)
<1>1. /\ u.n = r.n /\ u.kind = "undo" /\ u.src = "undo" /\ u.hedge = "queued" /\ u.ids = <<>>
      /\ ~u.reserved /\ ~u.filled
  BY UndoIs
<1> HIDE DEF u
<1>2. Range(u.ids) = {}
  BY <1>1 DEF Range
<1> QED
  BY <1>1, <1>2 DEF RecordTrue, u

LEMMA TrueAdded ==
    ASSUME NEW ts, NEW lt, NEW rs \in Seq(Record), AllTrue(ts, lt, rs), NEW r \in Record,
           RecordTrue(ts, lt, r)
    PROVE  AllTrue(ts, lt, Append(rs, r))
<1> DEFINE q == Append(rs, r)
<1>1. /\ DOMAIN q = DOMAIN rs \cup {Len(rs) + 1} /\ q[Len(rs) + 1] = r
      /\ \A i \in DOMAIN rs : q[i] = rs[i]
  BY Added
<1> HIDE DEF q
<1> QED
  BY <1>1 DEF AllTrue, q

LEMMA TrueExtra ==
    ASSUME NEW ts, NEW lt, NEW rs \in Seq(Record), AllTrue(ts, lt, rs), NEW r \in Record,
           r.n \in DOMAIN ts, NEW extra, extra \in {<<>>, <<Undo(r)>>}
    PROVE  AllTrue(ts, lt, rs \o extra)
<1>1. CASE extra = <<>>
  BY <1>1
<1>2. CASE extra = <<Undo(r)>>
  <2> DEFINE u == Undo(r)
  <2>1. u \in Record /\ RecordTrue(ts, lt, u)
    BY UndoIs, TrueUndo
  <2>2. extra = <<u>>
    BY <1>2
  <2> HIDE DEF u
  <2>3. rs \o extra = Append(rs, u)
    BY <2>1, <2>2, Added
  <2>4. QED
    BY <2>1, <2>3, TrueAdded
<1> QED
  BY <1>1, <1>2

LEMMA ReportsBooks ==
    ASSUME BooksInv, SafeInv', NEW i \in DOMAIN mem.records, NEW id \in IdsOf(mem.records[i]),
           Reports(i, id), start' = start
    PROVE  BooksInv'
<1> DEFINE r == mem.records[i]
           new == Updated(r, id)
           undo == new.src = "unconfirmed" /\ new.filled /\ ~Undone(mem.records, new)
           extra == IF undo THEN <<Undo(new)>> ELSE <<>>
           rs == [mem.records EXCEPT ![i] = new]
<1>1. /\ Concerns(r, id)
      /\ mem' = [mem EXCEPT !.records = rs \o extra,
                            !.paused = IF new.hedge = "error" THEN PauseFor("recon") ELSE @]
      /\ UNCHANGED <<trades, lighter, order, writes, file>> /\ waiting \subseteq waiting'
  BY DEF Reports, Persist, truth, process
<1>2. r \in Record /\ mem.records \in Seq(Record)
  BY BooksAre
<1>3. id \in Ids
  BY <1>1, <1>2, ConcernedId
<1>4. new \in Record /\ new.n = r.n /\ new.kind = r.kind /\ new.src = r.src
  <2> HIDE DEF r
  <2> DEFINE u == Updated(r, id)
  <2>1. u \in Record /\ u.n = r.n /\ u.kind = r.kind /\ u.src = r.src
    BY ONLY <1>2, <1>3, UpdatedIs
  <2>2. QED
    BY ONLY <2>1
<1>5. RecordTrue(trades, lighter, r) => RecordTrue(trades, lighter, new)
  <2> HIDE DEF new
  <2>1. id \in IdsOf(r)
    OBVIOUS
  <2> HIDE DEF r
  <2>2. QED
    BY <1>1, <1>2, <2>1, TrueUpdated DEF new
<1> HIDE DEF new
<1>6. Reshaped(mem.records, rs) /\ rs \in Seq(Record)
  BY <1>2, <1>4, RecordReshaped
<1>7. extra \in {<<>>, <<Undo(new)>>}
  OBVIOUS
<1>8. AllTrue(trades, lighter, mem.records) => AllTrue(trades, lighter, rs \o extra)
  <2> SUFFICES ASSUME AllTrue(trades, lighter, mem.records) PROVE AllTrue(trades, lighter, rs \o extra)
    OBVIOUS
  <2>1. RecordTrue(trades, lighter, r) /\ r.n \in DOMAIN trades
    BY DEF AllTrue, RecordTrue
  <2> HIDE DEF r
  <2>2. AllTrue(trades, lighter, rs)
    BY <1>2, <1>5, <2>1, TrueReplaced
  <2> HIDE DEF extra, rs
  <2>3. QED
    BY <1>4, <1>6, <1>7, <2>1, <2>2, TrueExtra
<1> HIDE DEF extra, rs
<1>9. Reshaped(mem.records, rs \o extra)
  BY <1>2, <1>4, <1>6, <1>7, UndoReshaped
<1>10. mem'.records = rs \o extra /\ mem'.intent = mem.intent
  BY <1>1, BooksAre DEF State
<1>11. Fills /\ Marked'
  BY <1>1, MarkedRests DEF Fills
<1> QED
  BY <1>1, <1>8, <1>9, <1>10, <1>11, SameClaims, HedgeBooks

-----------------------------------------------------------------------------
(* The start's hedges *)

Rehedges(p, q) ==
    /\ DOMAIN q = DOMAIN p /\ q = [j \in DOMAIN p |-> q[j]]
    /\ \A j \in DOMAIN p : \E h \in Hedge :
          /\ q[j] = [p[j] EXCEPT !.hedge = h]
          /\ h = "filled" => p[j].hedge = "filled" \/ p[j].filled

LEMMA RehedgesTrue ==
    ASSUME NEW ts, NEW lt, NEW p \in Seq(Record), NEW q, Rehedges(p, q), AllTrue(ts, lt, p)
    PROVE  AllTrue(ts, lt, q)
<1> SUFFICES ASSUME NEW j \in DOMAIN p PROVE RecordTrue(ts, lt, q[j])
  BY DEF AllTrue, Rehedges
<1> DEFINE r == p[j]
<1>1. PICK h \in Hedge : q[j] = [r EXCEPT !.hedge = h] /\ (h = "filled" => r.hedge = "filled" \/ r.filled)
  BY DEF Rehedges
<1>2. r \in Record /\ RecordTrue(ts, lt, r)
  BY DEF AllTrue
<1> HIDE DEF r
<1>3. h = "filled" => r.filled
  BY <1>1, <1>2 DEF RecordTrue
<1> QED
  BY <1>1, <1>2, <1>3, TrueHedge

LEMMA RehedgesIs ==
    ASSUME NEW s \in State, NEW rs, Rehedges(s.records, rs)
    PROVE  rs \in Seq(Record) /\ Reshaped(s.records, rs) /\ Rehedged(s, rs)
BY RehedgedIs DEF Rehedged, Rehedges

LEMMA StageBooks ==
    ASSUME BooksInv, SafeInv', UNCHANGED <<trades, lighter, order, file, writes>>,
           waiting \subseteq waiting', start # "down", Rehedges(mem.records, mem'.records),
           mem'.intent = mem.intent
    PROVE  BooksInv'
<1>1. Fills /\ Marked'
  BY MarkedRests DEF Fills
<1>2. Reshaped(mem.records, mem'.records)
  BY BooksAre, RehedgesIs
<1> QED
  BY <1>1, <1>2, BooksAre, RehedgesTrue, SameClaims, HedgeBooks

LEMMA PrepareRestoredBooks == BooksInv /\ SafeInv' /\ PrepareRestored => BooksInv'
<1> SUFFICES ASSUME BooksInv, SafeInv', PrepareRestored PROVE BooksInv'
  OBVIOUS
<1> DEFINE rs == [j \in DOMAIN mem.records |-> Resumed(mem.records[j])]
<1>1. /\ start = "prepare" /\ mem'.records = rs /\ mem'.intent = mem.intent
      /\ UNCHANGED <<trades, lighter, order, file, writes>> /\ waiting \subseteq waiting'
  BY BooksAre DEF PrepareRestored, Stage, Persist, NoSave, saving, truth, runtime, State
<1>2. \A j \in DOMAIN mem.records : \E h \in Hedge :
          /\ rs[j] = [mem.records[j] EXCEPT !.hedge = h]
          /\ h = "filled" => mem.records[j].hedge = "filled"
  <2> TAKE j \in DOMAIN mem.records
  <2> DEFINE r == mem.records[j]
  <2>1. r \in Record
    BY BooksAre
  <2>2. rs[j] = Resumed(r)
    OBVIOUS
  <2> HIDE DEF r, rs
  <2>3. r = [r EXCEPT !.hedge = r.hedge] /\ r.hedge \in Hedge
    BY <2>1 DEF Record, Hedge
  <2>4. \E h \in {r.hedge, "required", "check"} : Resumed(r) = [r EXCEPT !.hedge = h]
    BY <2>3 DEF Resumed
  <2>5. {r.hedge, "required", "check"} \subseteq Hedge
    BY <2>3 DEF Hedge
  <2>6. \A h \in {r.hedge, "required", "check"} : h = "filled" => r.hedge = "filled"
    OBVIOUS
  <2>7. QED
    BY <2>2, <2>4, <2>5, <2>6 DEF r
<1>3. DOMAIN rs = DOMAIN mem.records /\ rs = [j \in DOMAIN mem.records |-> rs[j]]
  OBVIOUS
<1> HIDE DEF rs
<1>4. Rehedges(mem.records, rs)
  BY <1>2, <1>3 DEF Rehedges
<1> QED
  BY <1>1, <1>4, StageBooks

LEMMA ProbeEndsBooks == BooksInv /\ SafeInv' /\ ProbeEnds => BooksInv'
<1> SUFFICES ASSUME BooksInv, SafeInv', ProbeEnds PROVE BooksInv'
  OBVIOUS
<1> DEFINE rs == [j \in DOMAIN mem.records |->
                    IF mem.records[j].hedge = "check" THEN [mem.records[j] EXCEPT !.hedge = "none"]
                    ELSE mem.records[j]]
<1>1. /\ start = "probe" /\ mem'.records = rs /\ mem'.intent = mem.intent
      /\ UNCHANGED <<trades, lighter, order, file, writes>> /\ waiting \subseteq waiting'
  BY BooksAre DEF ProbeEnds, Stage, Persist, NoSave, saving, truth, runtime, State
<1>2. \A j \in DOMAIN mem.records : \E h \in Hedge :
          /\ rs[j] = [mem.records[j] EXCEPT !.hedge = h]
          /\ h = "filled" => mem.records[j].hedge = "filled"
  <2> TAKE j \in DOMAIN mem.records
  <2> DEFINE r == mem.records[j]
  <2>1. r \in Record
    BY BooksAre
  <2>2. rs[j] = IF r.hedge = "check" THEN [r EXCEPT !.hedge = "none"] ELSE r
    OBVIOUS
  <2> HIDE DEF r, rs
  <2>3. r = [r EXCEPT !.hedge = r.hedge] /\ r.hedge \in Hedge /\ "none" \in Hedge
    BY <2>1 DEF Record, Hedge
  <2>4. QED
    BY <2>2, <2>3 DEF r
<1>3. DOMAIN rs = DOMAIN mem.records /\ rs = [j \in DOMAIN mem.records |-> rs[j]]
  OBVIOUS
<1> HIDE DEF rs
<1>4. Rehedges(mem.records, rs)
  BY <1>2, <1>3 DEF Rehedges
<1> QED
  BY <1>1, <1>4, StageBooks

-----------------------------------------------------------------------------
(* The exchanges *)

LEMMA LighterExecutesBooks ==
    ASSUME BooksInv, SafeInv', NEW i \in Ids, LighterExecutes(i)
    PROVE  BooksInv'
<1>1. /\ lighter[i] = "sent" /\ \E v \in {"filled", "dead"} : lighter' = [lighter EXCEPT ![i] = v]
      /\ UNCHANGED <<trades, mem, order, start, waiting, writes, file>>
  BY DEF LighterExecutes, runtime, saving, process
<1>2. lighter \in [Ids -> {"none", "sent", "filled", "dead"}]
  BY BooksAre, TypeInvParts DEF WorldTyped
<1>3. Fills
  BY <1>1, <1>2 DEF Fills
<1> QED
  BY <1>1, <1>3, MarkedRests, SameBooks

\* The trades change, and nothing that is held or on disk.
LEMMA TradesBooks ==
    ASSUME BooksInv, SafeInv', UNCHANGED <<lighter, mem, start, file, writes>>, Marked',
           Goes(trades, trades', lighter, lighter),
           \A s \in Disk : Accounted(trades', s),
           start # "down" => Accounted(trades', mem),
           DOMAIN trades' = DOMAIN trades,
           \A n \in DOMAIN trades : /\ trades'[n].auto = trades[n].auto
                                    /\ Live(trades'[n]) => Live(trades[n])
                                    /\ trades'[n].state \in {"sent", "accepted"} =>
                                          trades[n].state \in {"sent", "accepted"}
    PROVE  BooksInv'
<1>1. Disk' = Disk
  BY DEF Disk
<1>2. ASSUME NEW s, Books(trades, lighter, s), Accounted(trades', s)
      PROVE  Books(trades', lighter, s)
  BY <1>2, BooksKept
<1>3. DiskBooks'
  BY <1>1, <1>2, BooksAre DEF DiskBooks
<1>4. MemBooks'
  BY <1>2, BooksAre DEF MemBooks
<1>5. Vow' /\ AllAuto'
  BY <1>1, BooksAre DEF Vow, AllAuto
<1> QED
  BY <1>3, <1>4, <1>5 DEF BooksInv

LEMMA VarDropsBooks == ASSUME BooksInv, SafeInv', NEW n \in DOMAIN trades, VarDrops(n) PROVE BooksInv'
<1>1. /\ trades[n].state \in {"sent", "accepted"}
      /\ trades' = [trades EXCEPT ![n].state = "void"]
      /\ UNCHANGED <<lighter, mem, order, start, waiting, file, writes>>
  BY DEF VarDrops, runtime, saving, process
<1>2. /\ Len(trades') = Len(trades) /\ DOMAIN trades' = DOMAIN trades
      /\ trades'[n].state = "void" /\ trades'[n].kind = trades[n].kind
      /\ trades'[n].auto = trades[n].auto
      /\ \A k \in DOMAIN trades : k # n => trades'[k] = trades[k]
  <2> DEFINE us == trades'
  <2>1. SetsTrade(trades, n, "void", us)
    BY <1>1, BooksAre DEF SetsTrade
  <2> HIDE DEF us
  <2>2. /\ Len(us) = Len(trades) /\ DOMAIN us = DOMAIN trades /\ us[n].state = "void"
        /\ us[n].kind = trades[n].kind /\ us[n].auto = trades[n].auto
        /\ \A k \in DOMAIN trades : k # n => us[k] = trades[k]
    BY ONLY <2>1, TradeGoesOn
  <2>3. QED
    BY <2>2 DEF us
<1>3. Still(trades, trades')
  BY <1>1, <1>2 DEF Still, Runs
<1>4. Net(trades') = Net(trades)
  BY <1>3, StillIs
<1>5. \A s : (s.intent # <<>> => s.intent.n \in DOMAIN trades) /\ Accounted(trades, s)
                => Accounted(trades', s)
  BY <1>3, <1>4, AccountedStill DEF Still
<1>6. /\ \A s \in Disk : Accounted(trades', s)
      /\ start # "down" => Accounted(trades', mem)
  BY <1>5, BooksAre DEF DiskBooks, MemBooks, Books
<1>7. Goes(trades, trades', lighter, lighter)
  BY <1>1, <1>2 DEF Goes
<1>8. Marked'
  <2>1. order \notin {"marked", "prepared"}
    BY <1>1, BooksAre, TypeInvParts DEF OrderHolds, TradeHolds
  <2>2. QED
    BY <1>1, <2>1, MarkedIdle
<1> QED
  BY <1>1, <1>2, <1>6, <1>7, <1>8, TradesBooks DEF Live

LEMMA VarExecutesBooks ==
    ASSUME BooksInv, SafeInv', NEW n \in DOMAIN trades, VarExecutes(n)
    PROVE  BooksInv'
<1>1. /\ trades[n].state \in {"sent", "accepted"}
      /\ trades' = [trades EXCEPT ![n].state = "executed"]
      /\ UNCHANGED <<lighter, mem, order, start, waiting, file, writes>>
  BY DEF VarExecutes, runtime, saving, process
<1>2. /\ Len(trades') = Len(trades) /\ DOMAIN trades' = DOMAIN trades
      /\ trades'[n].state = "executed" /\ trades'[n].kind = trades[n].kind
      /\ trades'[n].auto = trades[n].auto /\ trades' \in Seq(Trade)
      /\ \A k \in DOMAIN trades : k # n => trades'[k] = trades[k]
  <2> DEFINE us == trades'
  <2>1. SetsTrade(trades, n, "executed", us)
    BY <1>1, BooksAre DEF SetsTrade
  <2> HIDE DEF us
  <2>2. /\ Len(us) = Len(trades) /\ DOMAIN us = DOMAIN trades /\ us[n].state = "executed"
        /\ us[n].kind = trades[n].kind /\ us[n].auto = trades[n].auto /\ us \in Seq(Trade)
        /\ \A k \in DOMAIN trades : k # n => us[k] = trades[k]
    BY ONLY <2>1, TradeGoesOn
  <2>3. QED
    BY <2>2 DEF us
<1>3. Net(trades') = Net(trades) + Gain(trades'[n])
  <2>1. DOMAIN trades' = DOMAIN trades \cup {n} /\ trades[n].state # "executed"
    BY <1>1, <1>2
  <2>2. QED
    BY <1>2, <2>1, BooksAre, NetGains
<1>4. trades[n].kind \in {"open", "close"}
  BY BooksAre, TradeFields
<1>5. \A s : Holds(s, n) /\ Accounted(trades, s) => Accounted(trades', s)
  <2> SUFFICES ASSUME NEW s, Holds(s, n), Accounted(trades, s) PROVE Accounted(trades', s)
    OBVIOUS
  <2> DEFINE us == trades'
  <2>1. /\ us[n].kind = trades[n].kind /\ trades[n].state # "executed" /\ us[n].state = "executed"
        /\ Net(us) = Net(trades) + Gain(us[n])
    BY <1>1, <1>2, <1>3
  <2> HIDE DEF us
  <2>2. Accounted(us, s)
    BY <1>4, <2>1, AccountedExecuted
  <2>3. QED
    BY <2>2 DEF us
<1>6. \A s \in Disk : Accounted(trades', s)
  BY <1>1, <1>5, BooksAre DEF DiskBooks, Books, Vow
<1>7. ASSUME start # "down" PROVE Accounted(trades', mem)
  <2>1. Holds(mem, n)
    BY <1>1, <1>7, BooksAre, TypeInvParts DEF TradeHolds, Owns, Holds, Awaits
  <2>2. QED
    BY <1>5, <1>7, <2>1, BooksAre DEF MemBooks, Books
<1>8. Goes(trades, trades', lighter, lighter)
  BY <1>1, <1>2 DEF Goes
<1>9. Marked'
  <2>1. order \notin {"marked", "prepared"}
    BY <1>1, BooksAre, TypeInvParts DEF OrderHolds, TradeHolds
  <2>2. QED
    BY <1>1, <2>1, MarkedIdle
<1> QED
  BY <1>1, <1>2, <1>6, <1>7, <1>8, <1>9, TradesBooks DEF Live

-----------------------------------------------------------------------------
(* The strategy's order *)

\* No write of the coroutine is under way when none is waited for.
LEMMA NoOrderWrite == ASSUME TypeInv, Written("order"), NEW x \in writes PROVE x.by # <<"order", 0>>
BY TypeInvParts DEF Written, OneWrite

LEMMA OrderAwaits ==
    ASSUME TypeInv, order # "idle", trades[Len(trades)].state # "executed" \/ ~mem.intent.confirmed
    PROVE  Holds(mem, Len(trades)) /\ ~mem.intent.confirmed
BY TypeInvParts DEF OrderHolds, Holds, Awaits

LEMMA PrepareIntentBooks == BooksInv /\ SafeInv' /\ PrepareIntent => BooksInv'
<1> SUFFICES ASSUME BooksInv, SafeInv', PrepareIntent PROVE BooksInv'
  OBVIOUS
<1>1. /\ order = "marked" /\ order' = "prepared" /\ mem' = [mem EXCEPT !.intent.state = "prepared"]
      /\ Written("order") /\ <<"order", 0>> \in waiting'
      /\ UNCHANGED <<trades, lighter, start, writes, file>>
  BY DEF PrepareIntent, Persist, process, truth
<1>2. mem.intent \in Intent /\ mem.intent # <<>>
  BY <1>1, OrderIs, BooksAre DEF CurrentIntent
<1> DEFINE new == [mem.intent EXCEPT !.state = "prepared"]
<1>3. new # <<>> /\ new.n = mem.intent.n /\ new.provisional = mem.intent.provisional
      /\ new.confirmed = mem.intent.confirmed
  BY <1>2, SetIntentState
<1>4. mem' = [mem EXCEPT !.intent = new]
  BY <1>1
<1> HIDE DEF new
<1>5. mem'.records = mem.records /\ mem'.intent = new
  BY <1>4, BooksAre DEF State
<1>6. SameClaim(mem, mem') /\ Reshaped(mem.records, mem'.records)
  BY <1>2, <1>3, <1>5, SameReshaped, BooksAre DEF SameClaim
<1>7. Marked'
  <2>1. ~Written("order")'
    BY <1>1 DEF Written
  <2>2. \A x \in writes' : x.by # <<"order", 0>>
    BY <1>1, NoOrderWrite, BooksAre
  <2>3. QED
    BY <2>1, <2>2 DEF Marked
<1>8. Fills
  BY <1>1 DEF Fills
<1> QED
  BY <1>1, <1>5, <1>6, <1>7, <1>8, HedgeBooks

\* A trade begins, or goes on without being executed: what was told of the trades is still so.
LEMMA BooksGo ==
    ASSUME NEW ts, NEW us, NEW lt, NEW s, Books(ts, lt, s), Goes(ts, us, lt, lt), Net(us) = Net(ts),
           s.intent # <<>> => s.intent.n \in DOMAIN ts,
           \A n \in DOMAIN ts : us[n].state = "executed" => ts[n].state = "executed",
           \A n \in DOMAIN us : Live(us[n]) => Tells(s, n) \/ (n \in DOMAIN ts /\ Live(ts[n]))
    PROVE  Books(us, lt, s)
<1>1. Accounted(us, s)
  <2>1. \A n \in DOMAIN ts : us[n].kind = ts[n].kind
                             /\ (us[n].state = "executed" <=> ts[n].state = "executed")
    BY DEF Goes
  <2>2. QED
    BY <2>1, AccountedStill DEF Books
<1> QED
  BY <1>1, BooksKept

\* The intent changes, and the records tell what it told.
LEMMA BooksClaim ==
    ASSUME NEW ts, NEW lt, NEW s, NEW t, Books(ts, lt, s), t.records = s.records, Accounted(ts, t),
           \A n \in DOMAIN ts : Live(ts[n]) /\ Holds(s, n) => Tells(t, n) \/ Finished(ts, lt, n)
    PROVE  Books(ts, lt, t)
BY DEF Books, Covers, Tells

\* The order that is awaited is not executed any more, and forgotten.
LEMMA BooksCleared ==
    ASSUME NEW ts, NEW lt, NEW s, NEW t, Books(ts, lt, s), Awaits(s), ~s.intent.provisional,
           ts[s.intent.n].state = "void", ts[s.intent.n].kind \in {"open", "close"},
           t.records = s.records, t.intent = <<>>
    PROVE  Books(ts, lt, t)
<1>1. Accounted(ts, t)
  BY DEF Books, Accounted, Awaits, Settles, Side
<1>2. \A n : Holds(s, n) => ~Live(ts[n])
  BY DEF Holds, Live
<1> QED
  BY <1>1, <1>2, BooksClaim

\* ... or its fill is bound to it.
LEMMA BooksMerged ==
    ASSUME NEW ts, NEW lt, NEW s, NEW t, Books(ts, lt, s), s.intent # <<>>, s.intent.confirmed,
           t.records = s.records, t.intent = <<>>
    PROVE  Books(ts, lt, t)
<1>1. Accounted(ts, t)
  BY DEF Books, Accounted, Awaits
<1>2. \A n : ~Holds(s, n)
  BY DEF Holds, Awaits
<1> QED
  BY <1>1, <1>2, BooksClaim

LEMMA DiskGoes ==
    ASSUME BooksInv, Disk' = Disk, lighter' = lighter, Goes(trades, trades', lighter, lighter),
           Net(trades') = Net(trades),
           \A n \in DOMAIN trades : trades'[n].state = "executed" => trades[n].state = "executed",
           \A s \in Disk : \A n \in DOMAIN trades' :
              Live(trades'[n]) => Tells(s, n) \/ (n \in DOMAIN trades /\ Live(trades[n]))
    PROVE  DiskBooks'
<1> SUFFICES ASSUME NEW s \in Disk PROVE Books(trades', lighter, s)
  BY DEF DiskBooks
<1>1. Books(trades, lighter, s) /\ (s.intent # <<>> => s.intent.n \in DOMAIN trades)
  BY BooksAre DEF DiskBooks
<1> QED
  BY <1>1, BooksGo

LEMMA MarkIntentBooks == BooksInv /\ SafeInv' /\ MarkIntent => BooksInv'
<1> SUFFICES ASSUME BooksInv, SafeInv', MarkIntent PROVE BooksInv'
  OBVIOUS
<1> DEFINE t == [kind |-> IF CurrentOpen(mem.records) = 0 THEN "open" ELSE "close",
                 auto |-> TRUE, state |-> "quoted"]
           new == [n |-> Len(trades'), state |-> "quoting", provisional |-> FALSE,
                   confirmed |-> FALSE]
           last == Len(trades')
<1>1. /\ trades' = Append(trades, t) /\ mem' = [mem EXCEPT !.intent = new]
      /\ start = "up" /\ mem.intent = <<>> /\ order' = "marked"
      /\ Written("order") /\ <<"order", 0>> \in waiting'
      /\ UNCHANGED <<lighter, start, writes, file>>
  BY DEF MarkIntent, Persist, process, TransitionInProgress, OrderInflight
<1>2. t \in Trade /\ t.state = "quoted" /\ (t.kind = "close" <=> CurrentOpen(mem.records) # 0)
      /\ (t.kind = "open" <=> CurrentOpen(mem.records) = 0) /\ t.auto
  BY DEF Trade
<1>3. new # <<>> /\ new.n = last /\ ~new.provisional /\ ~new.confirmed
  <2>1. last \in Nat /\ new.n = last /\ ~new.provisional /\ ~new.confirmed
    BY <1>1, <1>2, BooksAre
  <2>2. "n" \in DOMAIN new /\ DOMAIN <<>> = {}
    OBVIOUS
  <2>3. QED
    BY <2>1, <2>2
<1> HIDE DEF t, new
<1>4. /\ last = Len(trades) + 1 /\ trades'[last] = t /\ \A n \in DOMAIN trades : trades'[n] = trades[n]
      /\ DOMAIN trades' = DOMAIN trades \cup {last} /\ last \notin DOMAIN trades
  BY <1>1, <1>2, BooksAre
<1>5. mem'.records = mem.records /\ mem'.intent = new
  BY <1>1, BooksAre DEF State
<1> HIDE DEF last
<1>6. Goes(trades, trades', lighter, lighter) /\ Net(trades') = Net(trades)
  <2>1. SameExecuted(trades, trades')
    BY <1>2, <1>4 DEF SameExecuted, ExecutedAs
  <2>2. QED
    BY <1>4, <2>1, NetSame DEF Goes
<1>7. \A n \in DOMAIN trades' : Live(trades'[n]) => n \in DOMAIN trades /\ Live(trades[n])
  BY <1>2, <1>4 DEF Live
<1>8. Disk' = Disk
  BY <1>1 DEF Disk
<1>9. DiskBooks'
  BY <1>1, <1>4, <1>6, <1>7, <1>8, DiskGoes
<1>10. Books(trades, lighter, mem)
  BY <1>1, BooksAre DEF MemBooks
<1>11. Books(trades', lighter, mem)
  BY <1>1, <1>4, <1>6, <1>7, <1>10, BooksGo
<1>12. Accounted(trades', mem')
  <2>1. Net(trades) = Side(CurrentOpen(mem.records))
    BY <1>1, <1>10 DEF Books, Accounted, Awaits
  <2>2. Settles(t) = Side(CurrentOpen(mem.records))
    BY <1>2 DEF Settles, Side
  <2>3. QED
    BY <1>2, <1>3, <1>4, <1>5, <1>6, <2>1, <2>2 DEF Accounted, Awaits
<1>13. MemBooks'
  <2>1. \A n : ~Holds(mem, n)
    BY <1>1 DEF Holds, Awaits
  <2>2. Books(trades', lighter, mem')
    BY <1>5, <1>11, <1>12, <2>1, BooksClaim
  <2>3. QED
    BY <1>1, <2>2 DEF MemBooks
<1>14. Vow' /\ AllAuto'
  <2>1. \A n \in DOMAIN trades' : trades'[n].state \in {"sent", "accepted"} =>
           n \in DOMAIN trades /\ trades[n].state \in {"sent", "accepted"}
    BY <1>2, <1>4
  <2>2. QED
    BY <1>2, <1>4, <1>8, <2>1, BooksAre DEF Vow, AllAuto
<1>15. Marked'
  <2>1. ~Written("order")'
    BY <1>1 DEF Written
  <2>2. \A x \in writes' : x.by # <<"order", 0>>
    BY <1>1, NoOrderWrite, BooksAre
  <2>3. QED
    BY <2>1, <2>2 DEF Marked
<1> QED
  BY <1>9, <1>13, <1>14, <1>15 DEF BooksInv

LEMMA SendCommitBooks == BooksInv /\ SafeInv' /\ SendCommit => BooksInv'
<1> SUFFICES ASSUME BooksInv, SafeInv', SendCommit PROVE BooksInv'
  OBVIOUS
<1> DEFINE new == [mem.intent EXCEPT !.state = "committing"]
           last == Len(trades)
<1>1. /\ order = "prepared" /\ order' = "sent" /\ Written("order")
      /\ mem' = [mem EXCEPT !.intent.state = "committing"]
      /\ trades' = [trades EXCEPT ![Len(trades)].state = "sent"]
      /\ UNCHANGED <<lighter, start, writes, file>>
  BY DEF SendCommit, NoSave, saving, process
<1>2. mem.intent \in Intent /\ mem.intent # <<>> /\ start = "up"
  BY <1>1, OrderIs, BooksAre DEF CurrentIntent
<1>3. new # <<>> /\ new.n = mem.intent.n /\ new.provisional = mem.intent.provisional
      /\ new.confirmed = mem.intent.confirmed
  BY <1>2, SetIntentState
<1>4. mem' = [mem EXCEPT !.intent = new]
  BY <1>1
<1> HIDE DEF new
<1>5. mem'.records = mem.records /\ mem'.intent = new
  BY <1>4, BooksAre DEF State
<1>6. SameClaim(mem, mem') /\ Reshaped(mem.records, mem'.records)
  BY <1>2, <1>3, <1>5, SameReshaped, BooksAre DEF SameClaim
<1>7. /\ Len(trades') = last /\ DOMAIN trades' = DOMAIN trades
      /\ last \in DOMAIN trades /\ trades[last].state = "quoted"
      /\ trades'[last].state = "sent" /\ trades'[last].kind = trades[last].kind
      /\ trades'[last].auto = trades[last].auto
      /\ \A k \in DOMAIN trades : k # last =>
            trades'[k] = trades[k] /\ trades[k].state \in {"executed", "void"}
  BY <1>1, LastSet, OrderIs, BooksAre
<1>8. Goes(trades, trades', lighter, lighter) /\ Net(trades') = Net(trades)
  <2>1. Still(trades, trades')
    BY <1>7 DEF Still, Runs
  <2>2. QED
    BY <1>7, <2>1, StillIs DEF Goes
<1>9. Disk' = Disk
  BY <1>1 DEF Disk
<1>10. /\ \A s \in Disk : Holds(s, last)
       /\ Holds(mem, last)
  BY <1>1, <1>7, BooksAre, OrderAwaits DEF Marked
<1>11. \A n \in DOMAIN trades' : Live(trades'[n]) => n = last \/ (n \in DOMAIN trades /\ Live(trades[n]))
  BY <1>7
<1>12. \A n \in DOMAIN trades : trades'[n].state = "executed" => trades[n].state = "executed"
  BY <1>7
<1>13. DiskBooks'
  BY <1>1, <1>8, <1>9, <1>10, <1>11, <1>12, DiskGoes DEF Tells
<1>14. MemBooks'
  <2>1. Books(trades, lighter, mem)
    BY <1>2, BooksAre DEF MemBooks
  <2>2. Books(trades', lighter, mem)
    BY <1>8, <1>10, <1>11, <1>12, <2>1, BooksAre, BooksGo DEF Tells
  <2>3. mem \in State /\ mem' \in State
    BY BooksAre, TypeInvParts DEF SafeInv, TypeInv, Typed, StatesFit, Fits
  <2>4. AllTrue(trades', lighter, mem'.records)
    BY <1>5, <2>2 DEF Books
  <2>5. Books(trades', lighter, mem')
    BY <1>6, <2>2, <2>3, <2>4, BooksReshaped
  <2>6. QED
    BY <1>1, <2>5 DEF MemBooks
<1>15. Vow'
  <2>1. \A n \in DOMAIN trades' : trades'[n].state \in {"sent", "accepted"} => n = last
    BY <1>7
  <2>2. QED
    BY <1>9, <1>10, <2>1 DEF Vow
<1>16. AllAuto'
  BY <1>7, BooksAre DEF AllAuto
<1> QED
  BY <1>1, <1>13, <1>14, <1>15, <1>16, MarkedIdle DEF BooksInv

LEMMA GiveUpBooks == BooksInv /\ SafeInv' /\ GiveUp => BooksInv'
<1> SUFFICES ASSUME BooksInv, SafeInv', GiveUp PROVE BooksInv'
  OBVIOUS
<1> DEFINE last == Len(trades)
<1>1. /\ order \in {"marked", "prepared"} /\ mem' = [mem EXCEPT !.intent = <<>>]
      /\ trades' = [trades EXCEPT ![Len(trades)].state = "void"] /\ order' = "idle"
      /\ UNCHANGED <<lighter, start, writes, file>>
  BY OrderIs, BooksAre DEF GiveUp, Persist, process
<1>2. mem'.records = mem.records /\ mem'.intent = <<>> /\ ~mem.intent.provisional
      /\ mem.intent.n = last /\ mem.intent # <<>> /\ start = "up"
  BY <1>1, BooksAre, OrderIs DEF State, CurrentIntent
<1>3. /\ Len(trades') = Len(trades) /\ DOMAIN trades' = DOMAIN trades
      /\ last \in DOMAIN trades /\ trades[last].state = "quoted"
      /\ trades'[last].state = "void" /\ trades'[last].kind = trades[last].kind
      /\ trades'[last].auto = trades[last].auto
      /\ \A k \in DOMAIN trades : k # last =>
            trades'[k] = trades[k] /\ trades[k].state \in {"executed", "void"}
  BY <1>1, LastSet, OrderIs, BooksAre
<1>4. Goes(trades, trades', lighter, lighter) /\ Net(trades') = Net(trades)
  <2>1. Still(trades, trades')
    BY <1>3 DEF Still, Runs
  <2>2. QED
    BY <1>3, <2>1, StillIs DEF Goes
<1>5. Disk' = Disk
  BY <1>1 DEF Disk
<1>6. \A n \in DOMAIN trades' : Live(trades'[n]) => n \in DOMAIN trades /\ Live(trades[n])
  BY <1>3 DEF Live
<1>7. \A n \in DOMAIN trades : trades'[n].state = "executed" => trades[n].state = "executed"
  BY <1>3
<1>8. DiskBooks'
  BY <1>1, <1>4, <1>5, <1>6, <1>7, DiskGoes
<1>9. Awaits(mem)
  BY <1>1, <1>3, BooksAre, OrderAwaits DEF Holds
<1>10. MemBooks'
  <2>1. Books(trades, lighter, mem)
    BY <1>2, BooksAre DEF MemBooks
  <2>2. Books(trades', lighter, mem)
    BY <1>4, <1>6, <1>7, <2>1, BooksAre, BooksGo
  <2>3. trades'[last].kind \in {"open", "close"}
    BY <1>3, BooksAre, TradeFields
  <2>4. Books(trades', lighter, mem')
    BY <1>2, <1>3, <1>9, <2>2, <2>3, BooksCleared
  <2>5. QED
    BY <1>1, <2>4 DEF MemBooks
<1>11. Vow'
  BY <1>3, <1>5, BooksAre DEF Vow
<1>12. AllAuto'
  BY <1>3, BooksAre DEF AllAuto
<1> QED
  BY <1>1, <1>8, <1>10, <1>11, <1>12, MarkedIdle DEF BooksInv

LEMMA RefusedBooks == BooksInv /\ SafeInv' /\ Refused => BooksInv'
<1> SUFFICES ASSUME BooksInv, SafeInv', Refused PROVE BooksInv'
  OBVIOUS
<1>1. /\ order = "sent" /\ order' = "idle" /\ mem' = [mem EXCEPT !.intent = <<>>]
      /\ trades[Len(trades)].state = "void"
      /\ UNCHANGED <<trades, lighter, start, writes, file>>
  BY OrderIs, BooksAre DEF Refused, Answered, Persist, process, truth
<1>2. mem'.records = mem.records /\ mem'.intent = <<>> /\ ~mem.intent.provisional
      /\ mem.intent.n = Len(trades) /\ Len(trades) \in DOMAIN trades /\ start = "up"
  BY <1>1, BooksAre, OrderIs DEF State
<1>3. Awaits(mem)
  BY <1>1, BooksAre, OrderAwaits DEF Holds
<1>4. trades[Len(trades)].kind \in {"open", "close"}
  BY <1>2, BooksAre, TradeFields
<1>5. Books(trades, lighter, mem)
  BY <1>2, BooksAre DEF MemBooks
<1>6. Books(trades, lighter, mem')
  BY <1>1, <1>2, <1>3, <1>4, <1>5, BooksCleared
<1>7. Fills
  BY <1>1 DEF Fills
<1> QED
  BY <1>1, <1>6, <1>7, MarkedIdle, RestBooks


\* A fill that is bound to the order whose answer has come: its hedge begins.
LEMMA MergedBooks ==
    ASSUME BooksInv, SafeInv', UNCHANGED <<trades, lighter, start, file, writes>>, Marked',
           start = "up", mem.intent # <<>>, mem.intent.confirmed, NEW k \in DOMAIN mem.records,
           mem'.records = [mem.records EXCEPT ![k].hedge = "queued"], mem'.intent = <<>>
    PROVE  BooksInv'
<1> DEFINE s == [mem EXCEPT !.intent = <<>>]
           r == mem.records[k]
           q == [r EXCEPT !.hedge = "queued"]
<1>1. s \in State /\ s.records = mem.records /\ s.intent = <<>>
  BY BooksAre DEF State
<1>2. mem' \in State
  BY TypeInvParts DEF SafeInv, TypeInv, Typed, StatesFit, Fits
<1>3. r \in Record /\ mem.records \in Seq(Record) /\ "queued" \in Hedge
  BY BooksAre DEF Hedge
<1> HIDE DEF s
<1>4. Books(trades, lighter, mem)
  BY BooksAre DEF MemBooks
<1>5. Books(trades, lighter, s)
  BY <1>1, <1>4, BooksMerged
<1>6. Reshaped(s.records, mem'.records)
  BY <1>1, <1>3, HedgeReshaped
<1>7. AllTrue(trades, lighter, mem'.records)
  <2>1. AllTrue(trades, lighter, mem.records) /\ RecordTrue(trades, lighter, r)
    BY <1>4 DEF Books, AllTrue
  <2>2. RecordTrue(trades, lighter, q)
    BY <1>3, <2>1, TrueHedge
  <2>3. mem'.records = [mem.records EXCEPT ![k] = q]
    OBVIOUS
  <2> HIDE DEF q
  <2>4. QED
    BY <1>3, <2>1, <2>2, <2>3, TrueReplaced
<1>8. SameClaim(s, mem')
  BY <1>1 DEF SameClaim
<1>9. Books(trades, lighter, mem')
  BY <1>1, <1>2, <1>5, <1>6, <1>7, <1>8, BooksReshaped
<1>10. Fills
  BY DEF Fills
<1> QED
  BY <1>9, <1>10, RestBooks

LEMMA AcceptedMergesBooks == BooksInv /\ SafeInv' /\ AcceptedMerges => BooksInv'
<1> SUFFICES ASSUME BooksInv, SafeInv', AcceptedMerges PROVE BooksInv'
  OBVIOUS
<1> DEFINE k == RecordOf(mem.records, Len(trades))
<1>1. /\ order = "sent" /\ order' = "idle" /\ mem.intent # <<>> /\ mem.intent.confirmed
      /\ mem' = [mem EXCEPT !.intent = <<>>, !.records[k].hedge = "queued"]
      /\ UNCHANGED <<trades, lighter, start, writes, file>>
  BY DEF AcceptedMerges, Answered, NoSave, saving, truth, process, CurrentIntent
<1>2. k \in DOMAIN mem.records /\ start = "up"
  BY <1>1, BoundIs, OrderIs, BooksAre
<1> HIDE DEF k
<1>3. mem'.records = [mem.records EXCEPT ![k].hedge = "queued"] /\ mem'.intent = <<>>
  BY <1>1, BooksAre DEF State
<1> QED
  BY <1>1, <1>2, <1>3, MarkedIdle, MergedBooks

LEMMA AmbiguousBooks == BooksInv /\ SafeInv' /\ Ambiguous => BooksInv'
<1> SUFFICES ASSUME BooksInv, SafeInv', Ambiguous PROVE BooksInv'
  OBVIOUS
<1> DEFINE k == RecordOf(mem.records, Len(trades))
           t == [mem.intent EXCEPT !.state = "ambiguous"]
<1>1. /\ order = "sent" /\ order' = "idle"
      /\ UNCHANGED <<trades, lighter, start, writes, file>>
      /\ mem' = [mem EXCEPT
                 !.paused = "other",
                 !.intent = IF ~CurrentIntent THEN @
                            ELSE IF @.confirmed THEN <<>> ELSE t,
                 !.records = IF CurrentIntent /\ mem.intent.confirmed
                             THEN [@ EXCEPT ![k].hedge = "queued"] ELSE @]
  BY DEF Ambiguous, Answered, Persist, truth, process
<1>2. CurrentIntent /\ mem.intent # <<>> /\ mem.intent \in Intent /\ start = "up"
  BY <1>1, OrderIs, BooksAre DEF CurrentIntent
<1>3. /\ t # <<>> /\ t.n = mem.intent.n /\ t.provisional = mem.intent.provisional
      /\ t.confirmed = mem.intent.confirmed
  BY <1>2, SetIntentState
<1>4. mem.intent.confirmed => k \in DOMAIN mem.records
  BY <1>1, BoundIs, BooksAre
<1> HIDE DEF k, t
<1>5. /\ mem'.intent = IF mem.intent.confirmed THEN <<>> ELSE t
      /\ mem'.records = IF mem.intent.confirmed THEN [mem.records EXCEPT ![k].hedge = "queued"]
                        ELSE mem.records
  BY <1>1, <1>2, BooksAre DEF State
<1>6. Marked' /\ Fills
  BY <1>1, MarkedIdle DEF Fills
<1>7. CASE mem.intent.confirmed
  BY <1>1, <1>2, <1>4, <1>5, <1>6, <1>7, MergedBooks
<1>8. CASE ~mem.intent.confirmed
  <2>1. mem'.intent = t /\ mem'.records = mem.records
    BY <1>5, <1>8
  <2>2. SameClaim(mem, mem') /\ Reshaped(mem.records, mem'.records)
    BY <1>2, <1>3, <2>1, SameReshaped, BooksAre DEF SameClaim
  <2>3. QED
    BY <1>1, <1>6, <2>1, <2>2, HedgeBooks
<1> QED
  BY <1>7, <1>8

-----------------------------------------------------------------------------
(* A record is added *)

\* The new record of a trade, which is executed unless it is the record of a Commit.
Begins(n, src, h, r) ==
    /\ n \in DOMAIN trades /\ n \in Numbers /\ src \in {"commit", "event", "portfolio"}
    /\ src # "commit" => trades[n].state = "executed"
    /\ h \in Hedge /\ h # "filled" /\ r = [NewRecord(n, src) EXCEPT !.hedge = h]

LEMMA TrueNew ==
    ASSUME trades \in Seq(Trade), NEW n, NEW src, NEW h, NEW r, Begins(n, src, h, r)
    PROVE  /\ r \in Record /\ r.n = n /\ r.kind = trades[n].kind /\ r.src = src
           /\ Priced(r) /\ OrderOf(r, n) /\ RecordTrue(trades, lighter, r)
<1>a. /\ n \in DOMAIN trades /\ n \in Numbers /\ src \in {"commit", "event", "portfolio"}
      /\ src # "commit" => trades[n].state = "executed"
      /\ h \in Hedge /\ h # "filled" /\ r = [NewRecord(n, src) EXCEPT !.hedge = h]
  BY DEF Begins
<1> DEFINE a == NewRecord(n, src)
<1>1. /\ a \in Record /\ a.n = n /\ a.kind = trades[n].kind /\ a.src = src /\ a.ids = <<>>
      /\ ~a.filled
  <2>1. src \in Source
    BY <1>a DEF Source
  <2>2. QED
    BY ONLY <1>a, <2>1, trades \in Seq(Trade), NewRecordIs
<1>0. r = [a EXCEPT !.hedge = h]
  BY <1>a
<1> HIDE DEF a
<1>2. /\ r \in Record /\ r.n = n /\ r.kind = trades[n].kind /\ r.src = src /\ r.hedge = h
      /\ r.ids = <<>> /\ ~r.filled
  <2> DEFINE q == [a EXCEPT !.hedge = h]
  <2>1. /\ q \in Record /\ q.n = a.n /\ q.kind = a.kind /\ q.src = a.src /\ q.hedge = h
        /\ q.ids = a.ids /\ q.filled = a.filled
    BY ONLY <1>1, <1>a, SetHedge
  <2>2. r = q
    BY <1>0
  <2> HIDE DEF q
  <2>3. QED
    BY <1>1, <2>1, <2>2
<1>3. trades[n].kind \in {"open", "close"}
  BY <1>a, TradeFields
<1>4. Range(r.ids) = {}
  BY <1>2 DEF Range
<1> QED
  BY <1>a, <1>2, <1>3, <1>4 DEF RecordTrue, Priced, OrderOf

LEMMA BooksAdded ==
    ASSUME NEW ts, NEW lt, NEW s \in State, NEW t, NEW r \in Record, Books(ts, lt, s),
           t.records = Append(s.records, r), RecordTrue(ts, lt, r), Accounted(ts, t),
           Priced(r) /\ r.kind = "open" => CurrentOpen(s.records) = 0,
           \A n : Holds(s, n) => Holds(t, n) \/ OrderOf(r, n)
    PROVE  Books(ts, lt, t)
<1> DEFINE p == s.records
           q == Append(p, r)
<1>1. p \in Seq(Record) /\ t.records = q
  BY StateFields
<1> HIDE DEF p
<1>2. /\ DOMAIN q = DOMAIN p \cup {Len(p) + 1} /\ q[Len(p) + 1] = r
      /\ \A i \in DOMAIN p : q[i] = p[i]
  BY <1>1, Added
<1>3. InTurn(q) /\ AllTrue(ts, lt, q)
  BY <1>1, InTurnAppend, TrueAdded DEF Books, p
<1> HIDE DEF q
<1>4. \A n : Tells(s, n) => Tells(t, n)
  <2> SUFFICES ASSUME NEW n, Tells(s, n) PROVE Tells(t, n)
    OBVIOUS
  <2>1. CASE Holds(s, n)
    BY <1>1, <1>2, <2>1 DEF Tells
  <2>2. CASE \E i \in DOMAIN p : OrderOf(p[i], n)
    BY <1>1, <1>2, <2>2 DEF Tells
  <2>3. QED
    BY <2>1, <2>2 DEF Tells, p
<1> QED
  BY <1>1, <1>3, <1>4 DEF Books, Covers

LEMMA AcceptedProvisionalBooks == BooksInv /\ SafeInv' /\ AcceptedProvisional => BooksInv'
<1> SUFFICES ASSUME BooksInv, SafeInv', AcceptedProvisional PROVE BooksInv'
  OBVIOUS
<1> DEFINE last == Len(trades)
           v == IF trades[last].state = "sent" THEN "accepted" ELSE trades[last].state
           r == [NewRecord(last, "commit") EXCEPT !.hedge = "queued"]
           t == [mem.intent EXCEPT !.state = "committed", !.provisional = TRUE]
<1>1. /\ order = "sent" /\ order' = "idle" /\ ~mem.intent.confirmed
      /\ trades[last].state \in {"sent", "executed"}
      /\ trades' = [trades EXCEPT ![last].state = v]
      /\ mem' = [mem EXCEPT !.records = Append(@, r), !.intent = t]
      /\ UNCHANGED <<lighter, start, writes, file>>
  BY DEF AcceptedProvisional, Answered, NoSave, saving, process
<1>2. /\ last \in DOMAIN trades /\ mem.intent \in Intent /\ mem.intent # <<>> /\ mem.intent.n = last
      /\ ~mem.intent.provisional /\ start = "up" /\ last \in Numbers
  BY <1>1, OrderIs, BooksAre DEF CurrentIntent
<1>3. t # <<>> /\ t.n = last /\ t.provisional /\ ~t.confirmed
  <2>1. t \in Intent /\ t.n = mem.intent.n /\ t.provisional /\ t.confirmed = mem.intent.confirmed
    BY <1>2 DEF Intent
  <2>2. QED
    BY <1>1, <1>2, <2>1, IntentFields
<1>4. /\ r \in Record /\ r.kind = trades[last].kind /\ OrderOf(r, last)
      /\ RecordTrue(trades, lighter, r)
  <2> DEFINE q == r
  <2>1. Begins(last, "commit", "queued", q)
    BY <1>2 DEF Begins, Hedge
  <2> HIDE DEF q
  <2>2. q \in Record /\ q.kind = trades[last].kind /\ OrderOf(q, last) /\ RecordTrue(trades, lighter, q)
    BY <2>1, BooksAre, TrueNew
  <2>3. QED
    BY <2>2 DEF q
<1>5. v \in {"accepted", "executed"} /\ (v = "executed" <=> trades[last].state = "executed")
  BY <1>1
<1> HIDE DEF t, r, v
<1>6. mem'.records = Append(mem.records, r) /\ mem'.intent = t
  BY <1>1, BooksAre DEF State
<1>7. /\ DOMAIN trades' = DOMAIN trades
      /\ trades'[last].state = v /\ trades'[last].kind = trades[last].kind
      /\ trades'[last].auto = trades[last].auto
      /\ \A k \in DOMAIN trades : k # last =>
            trades'[k] = trades[k] /\ trades[k].state \in {"executed", "void"}
  <2>1. v \in {"quoted", "sent", "accepted", "executed", "void"} /\ order # "idle" /\ TypeInv
    BY <1>1, <1>5, BooksAre
  <2>2. QED
    BY ONLY <1>1, <2>1, LastSet
<1>8. Goes(trades, trades', lighter, lighter) /\ Net(trades') = Net(trades)
  <2>1. Still(trades, trades')
    BY <1>1, <1>5, <1>7 DEF Still, Runs
  <2>2. QED
    BY <1>5, <1>7, <2>1, StillIs DEF Goes
<1>9. \A n \in DOMAIN trades' : Live(trades'[n]) => n \in DOMAIN trades /\ Live(trades[n])
  BY <1>1, <1>7 DEF Live
<1>10. \A n \in DOMAIN trades : trades'[n].state = "executed" => trades[n].state = "executed"
  BY <1>5, <1>7
<1>11. Disk' = Disk
  BY <1>1 DEF Disk
<1>12. DiskBooks'
  BY <1>1, <1>8, <1>9, <1>10, <1>11, DiskGoes
<1>13. Books(trades, lighter, mem)
  BY <1>2, BooksAre DEF MemBooks
<1>14. Books(trades', lighter, mem)
  BY <1>8, <1>9, <1>10, <1>13, BooksAre, BooksGo
<1>15. MemBooks'
  <2>1. RecordTrue(trades', lighter, r)
    BY <1>4, <1>8, RecordTrueKept
  <2>2. Net(trades') = Settles(trades'[last])
        /\ (trades'[last].kind = "close" <=> CurrentOpen(mem.records) # 0)
    BY <1>1, <1>2, <1>14 DEF Books, Accounted, Awaits
  <2>3. Accounted(trades', mem')
    BY <1>3, <1>6, <2>2 DEF Accounted, Awaits
  <2>4. r.kind = "open" => CurrentOpen(mem.records) = 0
    BY <1>4, <1>7, <2>2
  <2>5. \A n : Holds(mem, n) => Holds(mem', n)
    BY <1>2, <1>3, <1>6 DEF Holds, Awaits
  <2>6. Books(trades', lighter, mem')
    BY <1>4, <1>6, <1>14, <2>1, <2>3, <2>4, <2>5, BooksAre, BooksAdded
  <2>7. QED
    BY <1>1, <2>6 DEF MemBooks
<1>16. Vow' /\ AllAuto'
  <2>1. \A n \in DOMAIN trades' : trades'[n].state \in {"sent", "accepted"} =>
           n \in DOMAIN trades /\ trades[n].state \in {"sent", "accepted"}
    BY <1>1, <1>5, <1>7
  <2>2. QED
    BY <1>7, <1>11, <2>1, BooksAre DEF Vow, AllAuto
<1> QED
  BY <1>1, <1>12, <1>15, <1>16, MarkedIdle DEF BooksInv

-----------------------------------------------------------------------------
(* A Commit that is executed no more is rolled back *)

LEMMA TrueSource ==
    ASSUME NEW ts, NEW lt, NEW r \in Record, RecordTrue(ts, lt, r)
    PROVE  RecordTrue(ts, lt, [r EXCEPT !.src = "unconfirmed"])
<1> DEFINE q == [r EXCEPT !.src = "unconfirmed"]
<1>1. /\ q.n = r.n /\ q.kind = r.kind /\ q.src = "unconfirmed" /\ q.hedge = r.hedge
      /\ q.ids = r.ids /\ q.reserved = r.reserved /\ q.filled = r.filled
  BY SetSource DEF Source
<1> HIDE DEF q
<1>2. Role(q) = Role(r)
  BY <1>1 DEF Role
<1> QED
  BY <1>1, <1>2 DEF RecordTrue, q

LEMMA RolledBackBooks ==
    ASSUME NEW ts, NEW lt, NEW s \in State, IsProvisional(s), Chain(ts, s), Books(ts, lt, s),
           ts[s.intent.n].state = "void"
    PROVE  Books(ts, lt, RolledBack(s))
<1> DEFINE p == s.records
           m == RolledBack(s)
           q == m.records
           n == s.intent.n
           i == RecordOf(p, n)
<1>1. Commit(ts, s, i) /\ Paired(p) /\ Tracked(s) = OpenAfter(p)[i - 1]
  BY DEF Chain, Pending, Tracked
<1>2. /\ i \in DOMAIN p /\ p[i].src = "commit" /\ p[i].kind = ts[n].kind /\ OrderOf(p[i], n)
  BY <1>1 DEF Commit
<1>3. /\ p \in Seq(Record) /\ p[i] \in Record /\ DOMAIN p = 1..Len(p)
  BY <1>2, StateFields
<1>4. /\ m.intent = <<>> /\ CurrentOpen(q) = OpenAfter(p)[i - 1]
      /\ \A j \in DOMAIN q : Priced(q[j]) =>
            j \in DOMAIN p /\ q[j] = p[j] /\ OpenAfter(q)[j - 1] = OpenAfter(p)[j - 1]
  BY <1>1, RolledBackChain
<1> HIDE DEF i
<1>5. /\ Grown(p, q)
      /\ \A j \in DOMAIN p : q[j] = IF j = i THEN [p[i] EXCEPT !.src = "unconfirmed"] ELSE p[j]
      /\ \A j \in DOMAIN q \ DOMAIN p : q[j] = Undo(p[i])
      /\ q \in Seq(Record) /\ DOMAIN q = 1..Len(q) /\ Len(p) \in Nat /\ Len(q) \in Nat
  <2>1. /\ m \in State /\ Grown(p, q)
        /\ \A j \in DOMAIN p : q[j] = IF j = i THEN [p[i] EXCEPT !.src = "unconfirmed"] ELSE p[j]
        /\ \A j \in DOMAIN q \ DOMAIN p : q[j] = Undo(p[i])
    BY <1>2, RolledBackIs DEF i, IsProvisional
  <2>2. QED
    BY <2>1, StateFields
<1> HIDE DEF p, q, m, n
<1>6. InTurn(p) /\ AllTrue(ts, lt, p) /\ Accounted(ts, s) /\ Covers(ts, lt, s)
  BY DEF Books, p
<1>7. InTurn(q)
  BY <1>4, <1>6 DEF InTurn
<1>8. ts[n].kind \in {"open", "close"} /\ (ts[n].kind = "open" => OpenAfter(p)[i - 1] = 0)
      /\ (ts[n].kind = "close" => OpenAfter(p)[i - 1] # 0)
  <2>1. Priced(p[i])
    BY <1>2 DEF Priced
  <2>2. PairedAt(p, i)
    BY <1>1, <1>2 DEF Paired, p
  <2>3. QED
    BY <1>2, <1>6, <2>1, <2>2 DEF PairedAt, InTurn
<1>9. Net(ts) = Settles(ts[n]) /\ Awaits(s)
  BY <1>6 DEF Accounted, IsProvisional, n
<1>10. Accounted(ts, m)
  <2>1. Settles(ts[n]) = IF ts[n].kind = "open" THEN 0 ELSE 1
    BY DEF Settles, n
  <2>2. Side(CurrentOpen(q)) = Settles(ts[n])
    BY <1>4, <1>8, <2>1 DEF Side
  <2>3. QED
    BY <1>4, <1>9, <2>2 DEF Accounted, Awaits, q, m
<1>11. AllTrue(ts, lt, q)
  <2> SUFFICES ASSUME NEW j \in DOMAIN q PROVE RecordTrue(ts, lt, q[j])
    BY DEF AllTrue
  <2> DEFINE r == p[i]
  <2>1. r \in Record /\ RecordTrue(ts, lt, r) /\ r.n \in DOMAIN ts
    BY <1>2, <1>3, <1>6 DEF AllTrue, RecordTrue
  <2>2. CASE j \in DOMAIN p
    <3>1. CASE j = i
      <4>1. q[j] = [r EXCEPT !.src = "unconfirmed"]
        BY <1>5, <2>2, <3>1
      <4> HIDE DEF r
      <4>2. QED
        BY <2>1, <4>1, TrueSource
    <3>2. CASE j # i
      BY <1>5, <1>6, <2>2, <3>2 DEF AllTrue
    <3>3. QED
      BY <3>1, <3>2
  <2>3. CASE j \notin DOMAIN p
    <3>1. q[j] = Undo(r)
      BY <1>5, <2>3
    <3> HIDE DEF r
    <3>2. QED
      BY <2>1, <3>1, TrueUndo
  <2>4. QED
    BY <2>2, <2>3
<1>12. ASSUME NEW k \in DOMAIN ts, Live(ts[k]), ~Tells(m, k)
       PROVE  Finished(ts, lt, k)
  <2>1. k # n
    BY <1>12 DEF Live, n
  <2>2. ~Holds(s, k)
    BY <2>1 DEF Holds, n
  <2>3. \A j \in DOMAIN p : OrderOf(p[j], k) => j \in DOMAIN q /\ OrderOf(q[j], k)
    BY <1>3, <1>5 DEF Grown, OrderOf
  <2>4. ~Tells(s, k)
    BY <1>12, <2>2, <2>3 DEF Tells, p, q
  <2>5. QED
    BY <1>6, <1>12, <2>4 DEF Covers
<1>13. Covers(ts, lt, m)
  BY <1>12 DEF Covers
<1> QED
  BY <1>7, <1>10, <1>11, <1>13 DEF Books, m, q

LEMMA RollbackBooks == BooksInv /\ SafeInv' /\ Rollback => BooksInv'
<1> SUFFICES ASSUME BooksInv, SafeInv', Rollback PROVE BooksInv'
  OBVIOUS
<1>1. /\ start = "up" /\ mem.intent # <<>> /\ mem.intent.provisional
      /\ trades[mem.intent.n].state = "void" /\ mem' = RolledBack(mem)
      /\ UNCHANGED <<trades, lighter, order, start, file, writes>>
  BY DEF Rollback, Persist, truth, runtime, process
<1>2. order = "idle"
  BY <1>1, RollbackIs, BooksAre
<1>3. IsProvisional(mem)
  BY <1>1, BooksAre DEF IsProvisional, Promised, Chain
<1>4. Books(trades, lighter, mem')
  BY <1>1, <1>3, BooksAre, RolledBackBooks DEF MemBooks
<1>5. Fills /\ Marked'
  BY <1>1, <1>2, MarkedIdle DEF Fills
<1> QED
  BY <1>1, <1>4, <1>5, RestBooks

LEMMA StaysAmbiguousBooks == BooksInv /\ SafeInv' /\ StaysAmbiguous => BooksInv'
<1> SUFFICES ASSUME BooksInv, SafeInv', StaysAmbiguous PROVE BooksInv'
  OBVIOUS
<1> DEFINE t == [mem.intent EXCEPT !.state = "ambiguous"]
<1>1. /\ start = "up" /\ mem.intent # <<>> /\ mem.intent.state = "committed"
      /\ mem' = [mem EXCEPT !.intent = t, !.paused = PauseFor("lacks")]
      /\ UNCHANGED <<trades, lighter, order, start, file, writes>>
  BY DEF StaysAmbiguous, Persist, truth, runtime, process
<1>2. t # <<>> /\ t.n = mem.intent.n /\ t.provisional = mem.intent.provisional
      /\ t.confirmed = mem.intent.confirmed
  BY <1>1, BooksAre, SetIntentState
<1> HIDE DEF t
<1>3. mem'.records = mem.records /\ mem'.intent = t
  BY <1>1, BooksAre DEF State
<1>4. SameClaim(mem, mem') /\ Reshaped(mem.records, mem'.records)
  BY <1>1, <1>2, <1>3, SameReshaped, BooksAre DEF SameClaim
<1>5. order = "idle"
  BY <1>1, BooksAre, TypeInvParts DEF OrderHolds
<1>6. Fills /\ Marked'
  BY <1>1, <1>5, MarkedIdle DEF Fills
<1> QED
  BY <1>1, <1>3, <1>4, <1>6, HedgeBooks

\* What the portfolio says of the order that is awaited.
LEMMA OutcomeIs ==
    ASSUME BooksInv, start # "down", mem.intent # <<>>, ~mem.intent.confirmed
    PROVE  /\ Outcome = "unfilled" => trades[mem.intent.n].state # "executed"
           /\ Outcome = "filled" => trades[mem.intent.n].state = "executed"
<1> DEFINE t == trades[mem.intent.n]
<1>1. Net(trades) = Settles(t)
  BY BooksAre DEF MemBooks, Books, Accounted, Awaits
<1>2. t.kind \in {"open", "close"}
  BY BooksAre, TradeFields
<1> HIDE DEF t
<1>3. /\ Outcome = "unfilled" => Net(trades) # IF t.kind = "open" THEN 1 ELSE 0
      /\ Outcome = "filled" => Net(trades) = IF t.kind = "open" THEN 1 ELSE 0
  BY PositionIs DEF Outcome, t
<1>4. (Settles(t) = IF t.kind = "open" THEN 1 ELSE 0) <=> t.state = "executed"
  BY <1>2 DEF Settles
<1> QED
  BY <1>1, <1>3, <1>4 DEF t

LEMMA StartHedgesBooks == BooksInv /\ SafeInv' /\ StartHedges => BooksInv'
<1> SUFFICES ASSUME BooksInv, SafeInv', StartHedges PROVE BooksInv'
  OBVIOUS
<1> DEFINE rs == [j \in DOMAIN mem.records |->
                    IF Interrupted(mem.records[j]) THEN [mem.records[j] EXCEPT !.hedge = "queued"]
                    ELSE mem.records[j]]
           m == WithRecords(mem, rs, mem.paused)
<1>1. mem \in State /\ mem.paused \in Pause
      /\ \A j \in DOMAIN mem.records : mem.records[j] \in Record
  BY BooksAre, StateFields
<1>2. [mem EXCEPT !.records = rs] = m
  BY <1>1 DEF State, WithRecords
<1>3. /\ start = "finish" /\ start' = "reconcile"
      /\ \/ mem.intent # <<>> /\ mem.intent.provisional /\ Outcome = "unfilled" /\ mem' = RolledBack(m)
         \/ mem' = m
      /\ UNCHANGED <<trades, lighter, order, file, writes>> /\ waiting \subseteq waiting'
  <2> HIDE DEF m
  <2>1. QED
    BY <1>2 DEF StartHedges, Stage, Persist, NoSave, saving, truth, runtime
<1>4. \A j \in DOMAIN mem.records : \E h \in Hedge :
          /\ rs[j] = [mem.records[j] EXCEPT !.hedge = h]
          /\ h = "filled" => mem.records[j].hedge = "filled"
  <2> TAKE j \in DOMAIN mem.records
  <2> DEFINE r == mem.records[j]
  <2>1. r \in Record
    BY <1>1
  <2>2. rs[j] = IF Interrupted(r) THEN [r EXCEPT !.hedge = "queued"] ELSE r
    OBVIOUS
  <2> HIDE DEF r, rs
  <2>3. r = [r EXCEPT !.hedge = r.hedge] /\ r.hedge \in Hedge /\ "queued" \in Hedge
    BY <2>1 DEF Record, Hedge
  <2>4. QED
    BY <2>2, <2>3 DEF r
<1>5. DOMAIN rs = DOMAIN mem.records /\ rs = [j \in DOMAIN mem.records |-> rs[j]]
  OBVIOUS
<1> HIDE DEF rs
<1>6. Rehedges(mem.records, rs)
  BY <1>4, <1>5 DEF Rehedges
<1>7. Reshaped(mem.records, rs) /\ m \in State /\ m.records = rs /\ m.intent = mem.intent
  <2> DEFINE p == mem.paused
             w == WithRecords(mem, rs, p)
  <2>1. mem \in State /\ p \in Pause /\ Rehedged(mem, rs) /\ Reshaped(mem.records, rs)
    BY <1>1, <1>6, RehedgesIs
  <2>2. m = w
    OBVIOUS
  <2> HIDE DEF p, m
  <2>3. w \in State /\ w.records = rs /\ w.intent = mem.intent
    BY ONLY <2>1, HedgesOnly
  <2> HIDE DEF w
  <2>4. QED
    BY ONLY <2>1, <2>2, <2>3
<1> HIDE DEF m
<1>8. CASE mem' = m
  BY <1>3, <1>6, <1>7, <1>8, StageBooks
<1>9. CASE mem.intent # <<>> /\ mem.intent.provisional /\ Outcome = "unfilled" /\ mem' = RolledBack(m)
  <2>1. SameIntent(mem, m) /\ SameClaim(mem, m)
    BY <1>7, BooksAre, SameIntents, SameClaims DEF Chain
  <2>2. Chain(trades, m)
    BY <1>7, <2>1, BooksAre, ReshapedChain
  <2>3. Books(trades, lighter, mem)
    BY <1>3, BooksAre DEF MemBooks
  <2>4. Books(trades, lighter, m)
    <3>1. AllTrue(trades, lighter, rs)
      BY <1>6, <2>3, BooksAre, RehedgesTrue DEF Books
    <3>2. QED
      BY <1>1, <1>7, <2>1, <2>3, <3>1, BooksReshaped
  <2>5. ~mem.intent.confirmed
    BY <1>9, <2>3 DEF Books, Accounted, Awaits
  <2>6. trades[mem.intent.n].state = "void"
    <3>1. trades[mem.intent.n].state # "executed" /\ mem.intent.n \in DOMAIN trades
      BY <1>3, <1>9, <2>5, BooksAre, OutcomeIs
    <3>2. trades[mem.intent.n].state \in {"executed", "void"}
      BY <1>3, <3>1, BooksAre, TypeInvParts DEF StartHolds
    <3>3. QED
      BY <3>1, <3>2
  <2>7. IsProvisional(m)
    BY <1>7, <1>9 DEF IsProvisional
  <2>8. Books(trades, lighter, mem')
    BY <1>7, <1>9, <2>2, <2>4, <2>6, <2>7, RolledBackBooks
  <2>9. Fills /\ Marked'
    BY <1>3, BooksAre, MarkedRests DEF Fills
  <2>10. QED
    BY <1>3, <2>8, <2>9, RestBooks
<1> QED
  BY <1>3, <1>8, <1>9

-----------------------------------------------------------------------------
(* A fill is entered *)

LEMMA TrueEntered ==
    ASSUME NEW ts, NEW lt, NEW r \in Record, RecordTrue(ts, lt, r), NEW v \in {"event", "portfolio"},
           r.kind # "undo", ts[r.n].state = "executed"
    PROVE  RecordTrue(ts, lt, [r EXCEPT !.src = v])
<1> DEFINE q == [r EXCEPT !.src = v]
<1>1. /\ q.n = r.n /\ q.kind = r.kind /\ q.src = v /\ q.hedge = r.hedge
      /\ q.ids = r.ids /\ q.reserved = r.reserved /\ q.filled = r.filled
  <2>1. v \in Source
    BY DEF Source
  <2>2. QED
    BY <2>1, SetSource
<1> HIDE DEF q
<1>2. Role(q) = Role(r)
  BY <1>1 DEF Role
<1> QED
  BY <1>1, <1>2 DEF RecordTrue, q

LEMMA ConfirmedBooks ==
    ASSUME trades \in Seq(Trade), NEW s \in State, Chain(trades, s), NEW n \in DOMAIN trades,
           n \in Numbers, NEW src \in {"event", "portfolio"}, IsProvisional(s), Holds(s, n),
           trades[n].state = "executed", Books(trades, lighter, s), NEW m, m = Entered(s, n, src)
    PROVE  Books(trades, lighter, m)
<1> DEFINE p == s.records
           q == m.records
           k == RecordOf(p, n)
<1>1. s.intent.n = n
  BY DEF Holds
<1>2. /\ m.intent = <<>>
      /\ CurrentOpen(q) # 0 <=> trades[n].kind = "open"
      /\ DOMAIN q = DOMAIN p
      /\ \A j \in DOMAIN p :
            /\ q[j] = IF j = k THEN [p[j] EXCEPT !.src = src] ELSE p[j]
            /\ q[j].kind = p[j].kind /\ (Priced(q[j]) <=> Priced(p[j]))
            /\ OpenAfter(q)[j - 1] = OpenAfter(p)[j - 1]
  <2>1. /\ m.intent = <<>> /\ Sourced(p, q, k, src)
        /\ CurrentOpen(q) # 0 <=> trades[n].kind = "open"
    BY <1>1, ConfirmedChain
  <2>2. QED
    BY <2>1 DEF Sourced
<1>3. k \in DOMAIN p /\ OrderOf(p[k], n)
  BY <1>1 DEF Chain, Pending, Commit
<1>4. /\ InTurn(p) /\ AllTrue(trades, lighter, p) /\ Accounted(trades, s)
      /\ Covers(trades, lighter, s)
  BY DEF Books
<1>5. \A j \in DOMAIN p : p[j] \in Record
  BY StateFields
<1> HIDE DEF k, p, q
<1>6. InTurn(q)
  BY <1>2, <1>4 DEF InTurn
<1>7. AllTrue(trades, lighter, q)
  <2> SUFFICES ASSUME NEW j \in DOMAIN p PROVE RecordTrue(trades, lighter, q[j])
    BY <1>2 DEF AllTrue
  <2> DEFINE r == p[j]
  <2>1. r \in Record /\ RecordTrue(trades, lighter, r)
    BY <1>4, <1>5 DEF AllTrue
  <2>2. CASE j = k
    <3>1. q[j] = [r EXCEPT !.src = src] /\ r.kind # "undo" /\ r.n = n
      BY <1>2, <1>3, <2>2 DEF OrderOf
    <3> HIDE DEF r
    <3>2. trades[r.n].state = "executed"
      BY <3>1
    <3>3. RecordTrue(trades, lighter, [r EXCEPT !.src = src])
      BY <2>1, <3>1, <3>2, TrueEntered
    <3>4. QED
      BY <3>1, <3>3 DEF r
  <2>3. CASE j # k
    BY <1>2, <2>1, <2>3
  <2>4. QED
    BY <2>2, <2>3
<1>8. Accounted(trades, m)
  <2>1. Net(trades) = Settles(trades[n])
    BY <1>1, <1>4 DEF Accounted, Holds
  <2>2. Settles(trades[n]) = IF trades[n].kind = "open" THEN 1 ELSE 0
    BY DEF Settles
  <2>3. Net(trades) = Side(CurrentOpen(q))
    BY <1>2, <2>1, <2>2 DEF Side
  <2>4. QED
    BY <1>2, <2>3 DEF Accounted, Awaits, q
<1>9. \A x : Tells(s, x) => Tells(m, x)
  <2> SUFFICES ASSUME NEW x, Tells(s, x) PROVE \E j \in DOMAIN q : OrderOf(q[j], x)
    BY DEF Tells, q
  <2>1. \A j \in DOMAIN p : OrderOf(p[j], x) => OrderOf(q[j], x)
    <3> SUFFICES ASSUME NEW j \in DOMAIN p PROVE q[j].n = p[j].n /\ q[j].kind = p[j].kind
      BY DEF OrderOf
    <3> DEFINE r == p[j]
    <3>1. r \in Record /\ src \in Source
      BY <1>5 DEF Source
    <3> HIDE DEF r
    <3>2. [r EXCEPT !.src = src].n = r.n
      BY <3>1, SetSource
    <3>3. QED
      BY <1>2, <3>2 DEF r
  <2>2. CASE Holds(s, x)
    <3>1. x = n
      BY <1>1, <2>2 DEF Holds
    <3>2. QED
      BY <1>2, <1>3, <2>1, <3>1
  <2>3. CASE \E j \in DOMAIN p : OrderOf(p[j], x)
    BY <1>2, <2>1, <2>3
  <2>4. QED
    BY <2>2, <2>3 DEF Tells, p
<1> QED
  BY <1>4, <1>6, <1>7, <1>8, <1>9 DEF Books, Covers, q

LEMMA EnteredBooks ==
    ASSUME trades \in Seq(Trade), NEW s \in State, Chain(trades, s), NEW n \in DOMAIN trades,
           n \in Numbers, NEW src \in {"event", "portfolio"}, Holds(s, n),
           trades[n].state = "executed", Books(trades, lighter, s),
           ~IsProvisional(s) /\ Early(s, n) => trades[n].kind = "close",
           NEW m, m = Entered(s, n, src)
    PROVE  Books(trades, lighter, m)
<1>1. CASE IsProvisional(s)
  BY <1>1, ConfirmedBooks
<1>2. CASE ~IsProvisional(s)
  <2>1. Net(trades) = Settles(trades[n])
        /\ (trades[n].kind = "close" <=> CurrentOpen(s.records) # 0)
    BY <1>2 DEF Books, Accounted, Holds, Awaits, IsProvisional
  <2>2. /\ m.intent = IF Early(s, n) THEN [s.intent EXCEPT !.confirmed = TRUE] ELSE <<>>
        /\ CurrentOpen(m.records) # 0 <=> trades[n].kind = "open"
    BY <1>2, <2>1, AddedChain
  <2>3. \E h \in {"none", "waiting"} :
           m.records = Append(s.records, [NewRecord(n, src) EXCEPT !.hedge = h])
    <3>1. NewRecord(n, src) = [NewRecord(n, src) EXCEPT !.hedge = "none"]
      <4> DEFINE a == NewRecord(n, src)
      <4>1. a \in Record /\ a.hedge = "none"
        <5>1. src \in Source
          BY DEF Source
        <5>2. QED
          BY <5>1, NewRecordIs
      <4> HIDE DEF a
      <4>2. a = [a EXCEPT !.hedge = "none"]
        BY <4>1 DEF Record
      <4>3. QED
        BY <4>2 DEF a
    <3>2. ~(Owned(s, n) /\ s.intent.provisional)
      BY <1>2 DEF Owned, IsProvisional
    <3>3. /\ Early(s, n) => m = Extended(s, [NewRecord(n, src) EXCEPT !.hedge = "waiting"],
                                          [s.intent EXCEPT !.confirmed = TRUE])
          /\ ~Early(s, n) => m = Extended(s, NewRecord(n, src), <<>>)
      BY <3>2, EnteredIs
    <3>4. QED
      BY <3>1, <3>3 DEF Extended
  <2>4. PICK h \in {"none", "waiting"} :
           m.records = Append(s.records, [NewRecord(n, src) EXCEPT !.hedge = h])
    BY <2>3
  <2> DEFINE r == [NewRecord(n, src) EXCEPT !.hedge = h]
  <2>5. Begins(n, src, h, r)
    BY DEF Begins, Hedge
  <2>6. m.records = Append(s.records, r)
    BY <2>4
  <2> HIDE DEF r
  <2>7. /\ r \in Record /\ r.kind = trades[n].kind /\ OrderOf(r, n) /\ RecordTrue(trades, lighter, r)
    BY <2>5, TrueNew
  <2>8. Early(s, n) => m.intent.confirmed /\ ~m.intent.provisional /\ trades[n].kind = "close"
    <3> SUFFICES ASSUME Early(s, n)
                 PROVE  m.intent.confirmed /\ ~m.intent.provisional /\ trades[n].kind = "close"
      OBVIOUS
    <3> DEFINE t == s.intent
    <3>1. t \in Intent /\ ~t.provisional /\ m.intent = [t EXCEPT !.confirmed = TRUE]
      BY <1>2, <2>2, StateFields DEF Early, Owned, IsProvisional
    <3> HIDE DEF t
    <3>2. m.intent.confirmed /\ ~m.intent.provisional
      BY <3>1 DEF Intent
    <3>3. QED
      BY <1>2, <3>2
  <2>9. Accounted(trades, m)
    <3>1. Settles(trades[n]) = IF trades[n].kind = "open" THEN 1 ELSE 0
      BY DEF Settles
    <3>2. Net(trades) = Side(CurrentOpen(m.records))
      BY <2>1, <2>2, <3>1 DEF Side
    <3>3. ~Awaits(m)
      BY <2>2, <2>8 DEF Awaits
    <3>4. m.intent # <<>> => ~m.intent.provisional /\ trades[m.intent.n].kind = "close"
                             /\ CurrentOpen(m.records) = 0
      <4> SUFFICES ASSUME Early(s, n)
                   PROVE  ~m.intent.provisional /\ trades[m.intent.n].kind = "close"
                          /\ CurrentOpen(m.records) = 0
        BY <2>2
      <4> DEFINE t == s.intent
      <4>1. t \in Intent /\ t.n = n /\ m.intent = [t EXCEPT !.confirmed = TRUE]
        BY <2>2, StateFields DEF Early, Owned
      <4> HIDE DEF t
      <4>2. m.intent.n = n
        BY <4>1 DEF Intent
      <4>3. QED
        BY <2>2, <2>8, <4>2
    <3>5. QED
      BY <3>2, <3>3, <3>4 DEF Accounted
  <2>10. \A x : Holds(s, x) => Holds(m, x) \/ OrderOf(r, x)
    BY <2>7 DEF Holds
  <2>11. r.kind = "open" => CurrentOpen(s.records) = 0
    BY <2>1, <2>7, TradeFields
  <2>12. QED
    BY <2>6, <2>7, <2>9, <2>10, <2>11, BooksAdded
<1> QED
  BY <1>1, <1>2

LEMMA FeedEntersBooks ==
    ASSUME BooksInv, SafeInv', "open" \notin Overtakes, NEW n \in events, FeedEnters(n)
    PROVE  BooksInv'
<1>1. /\ start = "up" /\ mem' = Entered(mem, n, "event") /\ waiting \subseteq waiting'
      /\ Early(mem, n) => trades[n].kind \in Overtakes
      /\ UNCHANGED <<trades, lighter, order, start, writes, file>>
  BY DEF FeedEnters, Persist, truth, process
<1>2. n \in DOMAIN trades /\ trades[n].state = "executed" /\ Owns(n) /\ ~mem.intent.confirmed
  BY BooksAre, TypeInvParts DEF EventHolds, WorldTyped, AllAuto
<1>3. n \in Numbers /\ "event" \in {"event", "portfolio"}
  BY <1>2, BooksAre, TypeInvParts DEF WorldTyped, Numbers
<1>4. Holds(mem, n)
  BY <1>2 DEF Holds, Awaits, Owns
<1>5. Early(mem, n) => trades[n].kind = "close"
  BY <1>1, <1>2, BooksAre, TradeFields
<1>6. Books(trades, lighter, mem)
  BY <1>1, BooksAre DEF MemBooks
<1>7. Books(trades, lighter, mem')
  BY <1>1, <1>2, <1>3, <1>4, <1>5, <1>6, BooksAre, EnteredBooks
<1>8. Fills /\ Marked'
  BY <1>1, MarkedRests DEF Fills
<1> QED
  BY <1>1, <1>7, <1>8, RestBooks

LEMMA InspectBooks == BooksInv /\ SafeInv' /\ Inspect => BooksInv'
<1> SUFFICES ASSUME BooksInv, SafeInv', Inspect PROVE BooksInv'
  OBVIOUS
<1>1. /\ start = "inspect" /\ start' = "prepare"
      /\ \/ mem.intent # <<>> /\ Outcome = "filled" /\ mem' = RecoveredFill
         \/ mem' = mem
      /\ UNCHANGED <<trades, lighter, order, file, writes>> /\ waiting \subseteq waiting'
  BY DEF Inspect, Stage, Persist, NoSave, saving, truth, runtime
<1>2. Fills /\ Marked'
  BY <1>1, MarkedRests DEF Fills
<1>3. Books(trades, lighter, mem)
  BY <1>1, BooksAre DEF MemBooks
<1>4. CASE mem' = mem
  BY <1>1, <1>2, <1>3, <1>4, RestBooks
<1>5. CASE mem.intent # <<>> /\ Outcome = "filled" /\ mem' = RecoveredFill
  <2> DEFINE n == mem.intent.n
             s == [mem EXCEPT !.intent.confirmed = FALSE]
             t == [mem.intent EXCEPT !.confirmed = FALSE]
             m == Entered(s, n, "portfolio")
             i == IF mem.intent.provisional THEN RecordOf(m.records, n) ELSE Len(m.records)
             h == IF m.records[i].filled THEN "filled" ELSE "check"
  <2>1. mem.intent \in Intent /\ n \in DOMAIN trades /\ n \in Numbers
    BY <1>5, BooksAre, IntentFields
  <2>2. t \in Intent /\ t.n = n /\ t.state = mem.intent.state /\ t.provisional = mem.intent.provisional
        /\ t # <<>> /\ ~t.confirmed
    <3>1. t \in Intent
      BY <2>1 DEF Intent
    <3>2. QED
      BY <2>1, <3>1, IntentFields DEF Intent
  <2>3. s \in State /\ s.records = mem.records /\ s.intent = t
    BY <2>2, BooksAre DEF State
  <2>4. mem' = [m EXCEPT !.records[i].hedge = h]
    BY <1>5 DEF RecoveredFill
  <2> HIDE DEF s, t
  <2>5. ~mem.intent.confirmed
    <3> SUFFICES ASSUME mem.intent.confirmed PROVE FALSE
      OBVIOUS
    <3>1. ~mem.intent.provisional /\ trades[n].kind = "close" /\ CurrentOpen(mem.records) = 0
      BY <1>3, <1>5 DEF Books, Accounted, Awaits
    <3>2. Outcome = "unknown"
      BY <3>1 DEF Outcome, TrackedOpen
    <3>3. QED
      BY <1>5, <3>2
  <2>6. trades[n].state = "executed"
    BY <1>1, <1>5, <2>5, OutcomeIs
  <2>7. SameClaim(mem, s) /\ SameIntent(mem, s) /\ Reshaped(mem.records, s.records)
        /\ s.intent.n = n
    <3>1. SameClaim(mem, s)
      BY <1>5, <2>1, <2>2, <2>3, <2>5, IntentFields DEF SameClaim
    <3>2. Promised(mem)
      BY BooksAre DEF Chain
    <3>3. Promised(s) /\ (IsProvisional(s) <=> IsProvisional(mem)) /\ s.intent.n = mem.intent.n
      BY <1>5, <2>2, <2>3, <3>2 DEF Promised, IsProvisional
    <3>4. QED
      BY <2>3, <3>1, <3>3, BooksAre, SameReshaped DEF SameIntent
  <2>8. Chain(trades, s)
    BY <2>3, <2>7, BooksAre, ReshapedChain
  <2>9. Books(trades, lighter, s)
    <3>1. AllTrue(trades, lighter, s.records)
      BY <1>3, <2>3 DEF Books
    <3>2. QED
      BY <1>3, <2>3, <2>7, <3>1, BooksAre, BooksReshaped
  <2>10. Holds(s, n)
    BY <2>2, <2>3 DEF Holds, Awaits
  <2>11. mem.intent.state # "committing"
    BY <1>1, <1>5, BooksAre, TypeInvParts DEF IdleHolds, StartHolds
  <2>12. ~Early(s, n) /\ (Owned(s, n) <=> Owned(mem, n)) /\ Owned(s, n)
         /\ (s.intent.provisional <=> mem.intent.provisional)
    BY <1>5, <2>2, <2>3, <2>11 DEF Early, Owned
  <2>13. Books(trades, lighter, m)
    BY <2>1, <2>3, <2>6, <2>8, <2>9, <2>10, <2>12, BooksAre, EnteredBooks
  <2>14. /\ m \in State /\ m.intent = <<>> /\ Len(m.records) > 0
         /\ mem.intent.provisional => RecordOf(m.records, n) \in DOMAIN m.records
    BY <2>1, <2>3, <2>12, BooksAre, EnteredClears
  <2> HIDE DEF m, n
  <2>15. m.records \in Seq(Record) /\ i \in DOMAIN m.records /\ m.records[i] \in Record
    BY <2>14, StateFields
  <2>16. h \in Hedge /\ (h = "filled" => m.records[i].filled)
    BY DEF Hedge
  <2> HIDE DEF i, h
  <2>17. mem'.records = [m.records EXCEPT ![i].hedge = h] /\ mem'.intent = <<>>
    BY <2>4, <2>14 DEF State
  <2>18. Reshaped(m.records, mem'.records) /\ SameClaim(m, mem')
    BY <2>14, <2>15, <2>16, <2>17, HedgeReshaped, SameClaims
  <2>19. AllTrue(trades, lighter, mem'.records)
    <3> DEFINE r == m.records[i]
               q == [r EXCEPT !.hedge = h]
    <3>1. AllTrue(trades, lighter, m.records) /\ RecordTrue(trades, lighter, r)
      BY <2>13, <2>15 DEF Books, AllTrue
    <3>2. RecordTrue(trades, lighter, q)
      BY <2>15, <2>16, <3>1, TrueHedge
    <3>3. mem'.records = [m.records EXCEPT ![i] = q]
      BY <2>17
    <3> HIDE DEF q
    <3>4. QED
      BY <2>15, <3>1, <3>2, <3>3, TrueReplaced
  <2>20. mem' \in State
    BY TypeInvParts DEF SafeInv, TypeInv, Typed, StatesFit, Fits
  <2>21. Books(trades, lighter, mem')
    BY <2>13, <2>14, <2>18, <2>19, <2>20, BooksReshaped
  <2>22. QED
    BY <1>1, <1>2, <2>21, RestBooks
<1> QED
  BY <1>1, <1>4, <1>5

-----------------------------------------------------------------------------
(* Reconciliation *)

\* A match: what is pending has its record, or is not executed.
LEMMA ReconciledBooks ==
    ASSUME BooksInv, SafeInv', Reconciled, start # "down", start' # "down", Marked',
           \A n \in DOMAIN trades : trades[n].state \in {"executed", "void"},
           UNCHANGED <<trades, lighter, file, writes>>
    PROVE  BooksInv'
<1>1. Fills /\ Books(trades, lighter, mem)
  BY BooksAre DEF Fills, MemBooks
<1>2. CASE PositionsMatch
  <2>1. mem'.intent = <<>> /\ mem'.records = mem.records
    <3>1. mem' = [mem EXCEPT !.intent = <<>>, !.paused = IF @ = "other" THEN @ ELSE "-"]
      BY <1>2 DEF Reconciled
    <3>2. QED
      BY <3>1, BooksAre DEF State
  <2>2. Net(trades) = Side(CurrentOpen(mem.records))
    BY <1>2, PositionIs DEF PositionsMatch, Side
  <2>3. Accounted(trades, mem')
    BY <2>1, <2>2 DEF Accounted, Awaits
  <2>4. ASSUME NEW n \in DOMAIN trades, Live(trades[n]), Holds(mem, n)
        PROVE  Tells(mem', n)
    <3>1. mem.intent.n = n /\ mem.intent # <<>> /\ ~mem.intent.confirmed
          /\ trades[n].state = "executed"
      BY <2>4 DEF Holds, Awaits, Live
    <3>2. mem.intent.provisional
      <4> SUFFICES ASSUME ~mem.intent.provisional PROVE FALSE
        OBVIOUS
      <4>1. Net(trades) = Settles(trades[n])
            /\ (trades[n].kind = "close" <=> CurrentOpen(mem.records) # 0)
        BY <1>1, <3>1 DEF Books, Accounted, Awaits
      <4>2. trades[n].kind \in {"open", "close"}
        BY BooksAre, TradeFields
      <4>3. QED
        BY <2>2, <3>1, <4>1, <4>2 DEF Settles, Side
    <3>3. Commit(trades, mem, RecordOf(mem.records, n))
      BY <3>1, <3>2, BooksAre DEF Chain, Pending, IsProvisional
    <3>4. QED
      BY <2>1, <3>1, <3>3 DEF Commit, Tells
  <2>5. Books(trades, lighter, mem')
    BY <1>1, <2>1, <2>3, <2>4, BooksClaim
  <2>6. QED
    BY <1>1, <2>5, RestBooks
<1>3. CASE ~PositionsMatch
  <2>1. mem'.intent = mem.intent /\ mem'.records = mem.records
    <3>1. mem' = [mem EXCEPT !.paused = PauseFor("recon")]
      BY <1>3 DEF Reconciled
    <3>2. QED
      BY <3>1, BooksAre DEF State
  <2>2. SameClaim(mem, mem') /\ Reshaped(mem.records, mem'.records)
    BY <2>1, BooksAre, SameClaims, SameReshaped
  <2>3. QED
    BY <1>1, <2>1, <2>2, HedgeBooks
<1> QED
  BY <1>2, <1>3

LEMMA ReconcileBooks == BooksInv /\ SafeInv' /\ Reconcile => BooksInv'
<1> SUFFICES ASSUME BooksInv, SafeInv', Reconcile PROVE BooksInv'
  OBVIOUS
<1>1. /\ Reconciled /\ order = "idle" /\ start = "up"
      /\ \A n \in DOMAIN trades : trades[n].state \notin {"sent", "accepted"}
      /\ UNCHANGED <<trades, lighter, order, start, writes, file>>
  BY DEF Reconcile, OrderInflight, Persist, truth, process
<1>2. \A n \in DOMAIN trades : trades[n].state \in {"executed", "void"}
  <2> TAKE n \in DOMAIN trades
  <2>1. trades[n].state \in {"quoted", "sent", "accepted", "executed", "void"}
    BY BooksAre, TradeFields
  <2>2. trades[n].state # "quoted"
    BY <1>1, BooksAre, TypeInvParts DEF TradeHolds
  <2>3. QED
    BY <1>1, <2>1, <2>2
<1>3. Marked'
  BY <1>1, MarkedIdle
<1> QED
  BY <1>1, <1>2, <1>3, ReconciledBooks

LEMMA ReconcileAtStartBooks == BooksInv /\ SafeInv' /\ ReconcileAtStart => BooksInv'
<1> SUFFICES ASSUME BooksInv, SafeInv', ReconcileAtStart PROVE BooksInv'
  OBVIOUS
<1>1. /\ Reconciled /\ start = "reconcile" /\ start' = "up"
      /\ UNCHANGED <<trades, lighter, order, writes, file>>
  BY DEF ReconcileAtStart, Stage, Persist, truth
<1>2. /\ order = "idle"
      /\ \A n \in DOMAIN trades : trades[n].state \in {"executed", "void"}
  BY <1>1, BooksAre, TypeInvParts DEF StartHolds
<1>3. Marked'
  BY <1>1, <1>2, MarkedIdle
<1> QED
  BY <1>1, <1>2, <1>3, ReconciledBooks

-----------------------------------------------------------------------------
(* The state file *)

LEMMA LoadBooks == BooksInv /\ SafeInv' /\ Load => BooksInv'
<1> SUFFICES ASSUME BooksInv, SafeInv', Load PROVE BooksInv'
  OBVIOUS
<1> DEFINE rs == [i \in DOMAIN file.records |-> Normalized(RestoredRecord(file.records[i]))]
           p == RestoredPause(file)
           m == WithRecords(file, rs, p)
           t == IF file.intent = <<>> THEN <<>> ELSE [file.intent EXCEPT !.state = Restored(@)]
           u == Unfinished(rs)
<1>1. /\ start = "down" /\ start' = "inspect"
      /\ mem' = [records |-> u, intent |-> t, paused |-> p]
      /\ UNCHANGED <<trades, lighter, order, writes, file>> /\ waiting \subseteq waiting'
  BY DEF Load, Persist, truth, runtime
<1>2. file \in State /\ p \in Pause /\ Chain(trades, file) /\ Books(trades, lighter, file)
  <2>1. file \in State /\ Chain(trades, file) /\ Books(trades, lighter, file)
    BY BooksAre, SafeIs DEF DiskChained, DiskBooks, Disk
  <2>2. QED
    BY <2>1, StateFields DEF RestoredPause, Pause
<1>3. Rehedges(file.records, rs)
  <2>1. \A j \in DOMAIN file.records : \E h \in Hedge :
           /\ rs[j] = [file.records[j] EXCEPT !.hedge = h]
           /\ h = "filled" => file.records[j].hedge = "filled" \/ file.records[j].filled
    <3> TAKE j \in DOMAIN file.records
    <3>1. rs[j] = Reloaded(file.records[j]) /\ file.records[j] \in Record
      BY <1>2, StateFields DEF Reloaded
    <3> HIDE DEF rs
    <3>2. QED
      BY <3>1, ReloadedIs
  <2>2. DOMAIN rs = DOMAIN file.records /\ rs = [j \in DOMAIN file.records |-> rs[j]]
    OBVIOUS
  <2> HIDE DEF rs
  <2>3. QED
    BY <2>1, <2>2 DEF Rehedges
<1> HIDE DEF rs, p
<1>4. Rehedged(file, rs) /\ Reshaped(file.records, rs)
  BY <1>2, <1>3, RehedgesIs
<1>5. m \in State /\ m.records = rs /\ m.intent = file.intent
  BY ONLY <1>2, <1>4, HedgesOnly, ZenonT(40)
<1> HIDE DEF m
<1>6. SameClaim(file, m) /\ SameIntent(file, m)
  BY <1>2, <1>5, SameClaims, SameIntents DEF Chain
<1>7. Chain(trades, m)
  BY <1>2, <1>4, <1>5, <1>6, ReshapedChain
<1>8. Books(trades, lighter, m)
  <2>1. AllTrue(trades, lighter, rs)
    BY <1>2, <1>3, StateFields, RehedgesTrue DEF Books
  <2>2. QED
    BY <1>2, <1>4, <1>5, <1>6, <2>1, BooksReshaped
<1>9. /\ t = <<>> <=> file.intent = <<>>
      /\ t # <<>> => /\ t.n = file.intent.n /\ t.provisional = file.intent.provisional
                     /\ t.confirmed = file.intent.confirmed
  <2>1. CASE file.intent = <<>>
    BY <2>1
  <2>2. CASE file.intent # <<>>
    <3> DEFINE f == file.intent
               v == Restored(f.state)
    <3>1. f \in Intent
      BY <1>2, <2>2, StateFields
    <3>2. t = [f EXCEPT !.state = v]
      BY <2>2
    <3>3. v \in {"quoting", "prepared", "committing", "ambiguous", "committed", "restored"}
      BY <3>1, IntentFields DEF Restored
    <3> HIDE DEF t, v, f
    <3>4. t # <<>> /\ t.n = f.n /\ t.provisional = f.provisional /\ t.confirmed = f.confirmed
      BY <3>1, <3>2, <3>3, SetIntentState
    <3>5. QED
      BY <2>2, <3>4 DEF f
  <2>3. QED
    BY <2>1, <2>2
<1> HIDE DEF u, t
<1>10. mem'.records = Unfinished(m.records) /\ mem'.intent = t
  BY <1>1, <1>5 DEF u
<1>11. SameClaim(m, mem')
  BY <1>5, <1>9, <1>10 DEF SameClaim
<1>12. mem' \in State
  BY TypeInvParts DEF SafeInv, TypeInv, Typed, StatesFit, Fits
<1>13. Books(trades, lighter, mem')
  BY <1>5, <1>7, <1>8, <1>10, <1>11, <1>12, BooksUnfinished DEF Chain
<1>14. Fills /\ Marked'
  BY <1>1, MarkedRests DEF Fills
<1> QED
  BY <1>1, <1>13, <1>14, RestBooks

\* What a write takes of the memory says as much as the memory.
LEMMA SnapshotBooks ==
    ASSUME BooksInv, start # "down"
    PROVE  Snapshot \in State /\ Snapshot.intent = mem.intent /\ Books(trades, lighter, Snapshot)
<1>1. Snapshot \in State /\ Snapshot.records = Unfinished(mem.records) /\ Snapshot.intent = mem.intent
  BY BooksAre, TypeInvParts, SnapshotFits
<1>2. SameClaim(mem, Snapshot)
  BY <1>1, SameClaims
<1>3. Books(trades, lighter, mem) /\ Paired(mem.records)
  BY BooksAre DEF MemBooks, Chain
<1> QED
  BY <1>1, <1>2, <1>3, BooksAre, BooksUnfinished

LEMMA SnapshotHolds ==
    ASSUME BooksInv, start # "down", NEW n \in DOMAIN trades, trades[n].state \in {"sent", "accepted"}
    PROVE  Holds(Snapshot, n)
BY BooksAre, TypeInvParts, SnapshotBooks DEF TradeHolds, Owns, Holds, Awaits

LEMMA TakesBooks == ASSUME BooksInv, SafeInv', NEW w \in waiting, TakeSnapshot(w) PROVE BooksInv'
<1>1. /\ writes = {} /\ writes' = writes \cup {[by |-> w, state |-> Snapshot]}
      /\ UNCHANGED <<trades, lighter, mem, order, start, waiting, file>>
  BY DEF TakeSnapshot, LockFree, truth, runtime, process
<1>2. start # "down"
  BY BooksAre, TypeInvParts DEF DownHolds
<1>3. Disk = {file} /\ Disk' = {file, Snapshot}
      /\ \A x \in writes' : x.state = Snapshot
  BY <1>1 DEF Disk
<1>4. DiskBooks'
  <2>1. Books(trades, lighter, Snapshot) /\ Books(trades, lighter, file)
    BY <1>2, <1>3, SnapshotBooks, BooksAre DEF DiskBooks
  <2>2. QED
    BY <1>1, <1>3, <2>1 DEF DiskBooks
<1>5. MemBooks' /\ AllAuto'
  BY <1>1, BooksAre DEF MemBooks, AllAuto
<1>6. Vow'
  BY <1>1, <1>2, <1>3, BooksAre, SnapshotHolds DEF Vow
<1>7. Marked'
  <2>1. order \in {"marked", "prepared"} => Holds(Snapshot, Len(trades))
    <3> SUFFICES ASSUME order \in {"marked", "prepared"} PROVE Holds(Snapshot, Len(trades))
      OBVIOUS
    <3>1. Holds(mem, Len(trades))
      BY BooksAre, OrderIs, OrderAwaits
    <3>2. QED
      BY <1>2, <3>1, SnapshotBooks DEF Holds, Awaits
  <2>2. Written("order")' <=> Written("order")
    BY <1>1 DEF Written
  <2>3. QED
    BY <1>1, <1>3, <2>1, <2>2, BooksAre DEF Marked
<1> QED
  BY <1>4, <1>5, <1>6, <1>7 DEF BooksInv

LEMMA LandBooks == ASSUME BooksInv, SafeInv', NEW x \in writes, Land(x) PROVE BooksInv'
<1>1. /\ file' = x.state /\ writes' = writes \ {x} /\ waiting' = waiting \ {x.by}
      /\ UNCHANGED <<trades, lighter, mem, order, start>>
  BY DEF Land, truth, runtime, process
<1>2. writes = {x} /\ writes' = {}
  BY <1>1, BooksAre, TypeInvParts DEF OneWrite
<1>3. x.state \in Disk /\ Disk' = {x.state}
  BY <1>1, <1>2 DEF Disk
<1>4. DiskBooks' /\ Vow'
  BY <1>1, <1>3, BooksAre DEF DiskBooks, Vow
<1>5. MemBooks' /\ AllAuto'
  BY <1>1, BooksAre DEF MemBooks, AllAuto
<1>6. Marked'
  <2> SUFFICES ASSUME order \in {"marked", "prepared"}, Written("order")'
               PROVE  Holds(x.state, Len(trades))
    BY <1>1, <1>2, <1>3 DEF Marked
  <2>1. x.by = <<"order", 0>> \/ Written("order")
    BY <1>1 DEF Written
  <2>2. QED
    BY <1>3, <2>1, BooksAre DEF Marked
<1> QED
  BY <1>4, <1>5, <1>6 DEF BooksInv

LEMMA EndsBooks ==
    ASSUME BooksInv, SafeInv', Ends, file' = file \/ file' = Snapshot
    PROVE  BooksInv'
<1> DEFINE us == [n \in DOMAIN trades |->
                    IF trades[n].state = "quoted" THEN [trades[n] EXCEPT !.state = "void"]
                    ELSE trades[n]]
<1>1. /\ start # "down" /\ start' = "down" /\ order' = "idle" /\ writes' = {} /\ trades' = us
      /\ lighter' = lighter
  BY DEF Ends
<1>2. \A n \in DOMAIN trades : /\ us[n].kind = trades[n].kind /\ us[n].auto = trades[n].auto
                               /\ us[n].state = IF trades[n].state = "quoted" THEN "void"
                                                ELSE trades[n].state
  <2> TAKE n \in DOMAIN trades
  <2>1. trades[n] \in Trade
    BY BooksAre
  <2>2. us[n] = IF trades[n].state = "quoted" THEN [trades[n] EXCEPT !.state = "void"]
                ELSE trades[n]
    OBVIOUS
  <2> HIDE DEF us
  <2>3. QED
    BY <2>1, <2>2 DEF Trade
<1>3. DOMAIN us = DOMAIN trades
  OBVIOUS
<1> HIDE DEF us
<1>4. Goes(trades, trades', lighter, lighter) /\ Net(trades') = Net(trades)
  <2>1. Still(trades, trades')
    BY <1>1, <1>2, <1>3 DEF Still, Runs
  <2>2. QED
    BY <1>1, <1>2, <1>3, <2>1, StillIs DEF Goes
<1>5. /\ \A n \in DOMAIN trades' : Live(trades'[n]) => n \in DOMAIN trades /\ Live(trades[n])
      /\ \A n \in DOMAIN trades : trades'[n].state = "executed" => trades[n].state = "executed"
  BY <1>1, <1>2, <1>3 DEF Live
<1>6. Books(trades, lighter, file') /\ (file'.intent # <<>> => file'.intent.n \in DOMAIN trades)
  <2>1. file \in Disk
    BY DEF Disk
  <2>2. CASE file' = file
    BY <2>1, <2>2, BooksAre DEF DiskBooks
  <2>3. CASE file' = Snapshot
    BY <1>1, <2>3, SnapshotBooks, BooksAre
  <2>4. QED
    BY <2>2, <2>3
<1>7. Disk' = {file'}
  BY <1>1 DEF Disk
<1>8. DiskBooks'
  <2>1. Books(trades', lighter, file')
    BY <1>4, <1>5, <1>6, BooksGo
  <2>2. QED
    BY <1>1, <1>7, <2>1 DEF DiskBooks
<1>9. Vow'
  <2> SUFFICES ASSUME NEW n \in DOMAIN trades', trades'[n].state \in {"sent", "accepted"}
               PROVE  Holds(file', n)
    BY <1>7 DEF Vow
  <2>1. n \in DOMAIN trades /\ trades[n].state \in {"sent", "accepted"}
    BY <1>1, <1>2, <1>3
  <2>2. Holds(file, n) /\ Holds(Snapshot, n)
    BY <1>1, <2>1, BooksAre, SnapshotHolds DEF Vow, Disk
  <2>3. QED
    BY <2>2
<1>10. MemBooks' /\ AllAuto' /\ Marked'
  BY <1>1, <1>2, <1>3, BooksAre, MarkedIdle DEF MemBooks, AllAuto
<1> QED
  BY <1>8, <1>9, <1>10 DEF BooksInv

-----------------------------------------------------------------------------
(* Every step *)

LEMMA InitBooks == Init => BooksInv
<1> SUFFICES ASSUME Init PROVE BooksInv
  OBVIOUS
<1>1. trades = <<>> /\ mem = Empty /\ file = Empty /\ writes = {} /\ order = "idle"
  BY DEF Init
<1>2. Empty.records = <<>> /\ Empty.intent = <<>> /\ DOMAIN trades = {}
  BY <1>1 DEF Empty
<1>3. Net(trades) = 0
  <2>1. ExecutedAs(trades, "open") = {} /\ ExecutedAs(trades, "close") = {}
    BY <1>2 DEF ExecutedAs
  <2>2. QED
    BY <2>1, FS_EmptySet DEF Net
<1>4. CurrentOpen(Empty.records) = 0
  <2>1. Len(Empty.records) = 0 /\ 0 \in Nat
    BY <1>2
  <2>2. QED
    BY <2>1, OpenSteps DEF CurrentOpen
<1>5. Books(trades, lighter, Empty)
  BY <1>2, <1>3, <1>4 DEF Books, InTurn, Accounted, Awaits, Side, AllTrue, Covers
<1>6. Disk = {Empty}
  BY <1>1 DEF Disk
<1> QED
  BY <1>1, <1>2, <1>5, <1>6, InitSafe DEF BooksInv, AllAuto, DiskBooks, MemBooks, Vow, Marked

LEMMA NextBooks ==
    ASSUME ~Manual, "open" \notin Overtakes
    PROVE  BooksInv /\ [Next]_vars => BooksInv'
<1> SUFFICES ASSUME BooksInv, [Next]_vars PROVE BooksInv'
  OBVIOUS
<1>0. SafeInv'
  BY NextSafe, BooksAre
<1>1. CASE Coroutine
  BY <1>0, <1>1, MarkIntentBooks, PrepareIntentBooks, GiveUpBooks, SendCommitBooks,
     AcceptedMergesBooks, AcceptedProvisionalBooks, RefusedBooks, AmbiguousBooks DEF Coroutine
<1>2. CASE Rollback \/ StaysAmbiguous \/ FeedFollows \/ \E n \in events : FeedEnters(n)
  BY <1>0, <1>2, RollbackBooks, StaysAmbiguousBooks, FeedFollowsBooks, FeedEntersBooks
<1>3. CASE Hedging
  <2>1. CASE \E i \in DOMAIN mem.records : \E id \in IdsOf(mem.records[i]) : Report(i, id)
    <3>1. PICK i \in DOMAIN mem.records : \E id \in IdsOf(mem.records[i]) : Report(i, id)
      BY <2>1
    <3>2. PICK id \in IdsOf(mem.records[i]) : Report(i, id)
      BY <3>1
    <3>3. Reports(i, id) /\ start' = start
      BY <3>2 DEF Report, Reports, process
    <3>4. QED
      BY <1>0, <3>3, ReportsBooks
  <2>2. CASE Requeue \/ \E i \in DOMAIN mem.records : Allocate(i) \/ Send(i)
    BY <1>0, <2>2, RequeueBooks, AllocateBooks, SendBooks
  <2>3. QED
    BY <1>3, <2>1, <2>2 DEF Hedging
<1>4. CASE Reconcile
  BY <1>0, <1>4, ReconcileBooks
<1>5. CASE (\E w \in waiting : TakeSnapshot(w)) \/ (\E x \in writes : Land(x))
  BY <1>0, <1>5, TakesBooks, LandBooks
<1>6. CASE Exchanges
  <2>1. CASE \E i \in Ids : LighterExecutes(i)
    BY <1>0, <2>1, LighterExecutesBooks
  <2>2. CASE \E n \in DOMAIN trades : VarExecutes(n) \/ VarDrops(n)
    BY <1>0, <2>2, VarExecutesBooks, VarDropsBooks
  <2>3. ~OperatorCloses
    BY DEF OperatorCloses
  <2>4. QED
    BY <1>6, <2>1, <2>2, <2>3 DEF Exchanges
<1>7. CASE Crash \/ Stop
  BY <1>0, <1>7, EndsBooks DEF Crash, Stop
<1>8. CASE Starting
  <2>1. CASE \E i \in DOMAIN mem.records : \E id \in IdsOf(mem.records[i]) : ProbeFinds(i, id)
    <3>1. PICK i \in DOMAIN mem.records : \E id \in IdsOf(mem.records[i]) : ProbeFinds(i, id)
      BY <2>1
    <3>2. PICK id \in IdsOf(mem.records[i]) : ProbeFinds(i, id)
      BY <3>1
    <3>3. Reports(i, id) /\ start' = start
      BY <3>2 DEF ProbeFinds, Reports, process
    <3>4. QED
      BY <1>0, <3>3, ReportsBooks
  <2>2. CASE Load \/ Inspect \/ PrepareRestored \/ ProbeEnds \/ StartHedges \/ ReconcileAtStart
    BY <1>0, <2>2, LoadBooks, InspectBooks, PrepareRestoredBooks, ProbeEndsBooks, StartHedgesBooks,
       ReconcileAtStartBooks
  <2>3. QED
    BY <1>8, <2>1, <2>2 DEF Starting
<1>9. CASE UNCHANGED vars
  <2>1. UNCHANGED <<trades, lighter, mem, order, start, file, writes, waiting>>
    BY <1>9 DEF vars
  <2>2. Fills /\ Marked'
    BY <2>1, MarkedRests DEF Fills
  <2>3. QED
    BY <1>0, <2>1, <2>2, SameBooks
<1> QED
  BY <1>1, <1>2, <1>3, <1>4, <1>5, <1>6, <1>7, <1>8, <1>9 DEF Next

\* What a round that is finished makes of the property's words.
LEMMA FinishedDone ==
    ASSUME BooksInv, NEW n \in DOMAIN trades, Finished(trades, lighter, n)
    PROVE  Done(n)
<1>1. \A m \in DOMAIN trades : FilledAs(lighter, m) => Filled(m, "hedge") # {}
  <2> TAKE m \in DOMAIN trades
  <2> SUFFICES ASSUME FilledAs(lighter, m) PROVE Filled(m, "hedge") # {}
    OBVIOUS
  <2>1. PICK i \in Ids : i[1] = m /\ i[2] = "hedge" /\ lighter[i] = "filled"
    BY DEF FilledAs
  <2>2. i \in {m} \X {"hedge"} \X (0 .. MaxTries + MaxCrashes)
    BY <2>1 DEF Ids
  <2>3. QED
    BY <2>1, <2>2 DEF Filled
<1>2. PICK m \in DOMAIN trades : trades[m].kind # trades[n].kind /\ Ended(trades, lighter, m)
  BY DEF Finished
<1>3. m \in DOMAIN trades \ {n} /\ Ended(trades, lighter, n)
  BY <1>2 DEF Finished
<1> QED
  BY <1>1, <1>2, <1>3 DEF Done, Ended, Executed

LEMMA BooksName == BooksInv => NothingForgotten
<1> SUFFICES ASSUME BooksInv, NEW n \in DOMAIN trades,
                    trades[n].state \in {"sent", "accepted", "executed"}, ~Done(n)
             PROVE  (file.intent # <<>> /\ file.intent.n = n) \/ RecordOf(file.records, n) # 0
  BY DEF NothingForgotten
<1>1. file \in State /\ Books(trades, lighter, file)
  BY BooksAre DEF DiskBooks, Disk
<1>2. Tells(file, n)
  BY <1>1, FinishedDone DEF Books, Covers, Live
<1>3. RecordOf(file.records, n) = 0 => \A i \in DOMAIN file.records : ~OrderOf(file.records[i], n)
  BY <1>1, StateFields, RecordOfIs
<1> QED
  BY <1>2, <1>3 DEF Tells, Holds, Awaits

\* Whenever the process ends, and wherever it ends, the state file names every order of the strategy
\* whose Commit was sent and whose round is not executed and hedged on both legs: the intent
\* that is awaited, or a record (prepare_pending_var_intent and mark_and_persist_var_intent write
\* before the send, persist_runtime_state takes one snapshot of intent and records and drops a
\* round only when both its legs are settled). The hypotheses: nobody closes by hand, and no
\* open's fill is entered before the answer of its Commit.
THEOREM NothingForgottenHolds ==
    ASSUME ~Manual, "open" \notin Overtakes
    PROVE  Spec => []NothingForgotten
<1>1. Init => BooksInv
  BY InitBooks
<1>2. BooksInv /\ [Next]_vars => BooksInv'
  BY NextBooks
<1> QED
  BY <1>1, <1>2, BooksName, PTL DEF Spec

=============================================================================
