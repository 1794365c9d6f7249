---------------------------- MODULE MarketProofs ----------------------------
(***************************************************************************)
(* Market for any number of updates, notifications and fills and any batch *)
(* size: a frame is made of one true book, and the two loops that drain    *)
(* the fills process each of them once and in order.                       *)
(***************************************************************************)
EXTENDS Market, TLAPS

-----------------------------------------------------------------------------
(* The book                                                                *)

\* An update gives a side its own number as level or leaves it as it was.
History ==
    /\ feed \in Seq([Sides -> Nat])
    /\ \A i \in 1..Len(feed) : \A s \in Sides :
           feed[i][s] = i \/ feed[i][s] = LevelAt(s, i - 1)

\* A book in use that no error has cut short is the exchange's as of its
\* offset, what is cached is what it holds, and no nonce is ahead of it.
Copy ==
    /\ offset \in 0..Len(feed)
    /\ nonce \in {None} \union 0..offset
    /\ book \in [Sides -> Nat] /\ DOMAIN cache = Sides
    /\ ready /\ conn # "torn" => \A s \in Sides :
           book[s] = LevelAt(s, offset) /\ cache[s] \in {None, book[s]}

BookInv == History /\ Copy

\* A level of the history is a number.
LEMMA LevelInNat ==
    ASSUME History, NEW s \in Sides, NEW v \in 0..Len(feed)
    PROVE  LevelAt(s, v) \in Nat
<1>1. CASE v = 0
  BY <1>1 DEF LevelAt
<1>2. CASE v # 0
  <2>1. v \in 1..Len(feed)
    BY <1>2
  <2>2. feed[v] \in [Sides -> Nat]
    BY <2>1 DEF History
  <2> QED
    BY <1>2, <2>2 DEF LevelAt
<1> QED
  BY <1>1, <1>2

\* Before the first snapshot there is nothing to be wrong.
LEMMA InitBook ==
    ASSUME Init
    PROVE  BookInv
BY DEF Init, BookInv, History, Copy, Empty, NotCached, None

\* The history only grows: earlier books stay what they were.
LEMMA TradeKeepsBook ==
    ASSUME BookInv, Trade
    PROVE  BookInv'
<1> DEFINE n == Len(feed)
<1>1. PICK sides \in Changes :
          feed' = Append(feed, [s \in Sides |->
                      IF s \in sides THEN n + 1 ELSE LevelAt(s, n)])
  BY DEF Trade
<1> DEFINE new == [s \in Sides |-> IF s \in sides THEN n + 1 ELSE LevelAt(s, n)]
<1>2. feed \in Seq([Sides -> Nat]) /\ n \in Nat
  BY DEF BookInv, History
<1>3. new \in [Sides -> Nat]
  <2>1. \A s \in Sides : LevelAt(s, n) \in Nat
    BY <1>2, LevelInNat DEF BookInv
  <2> QED
    BY <2>1, <1>2
<1>4. /\ feed' = Append(feed, new)
      /\ feed' \in Seq([Sides -> Nat]) /\ Len(feed') = n + 1
      /\ \A i \in 1..n : feed'[i] = feed[i]
      /\ feed'[n + 1] = new
  <2> HIDE DEF new
  <2>1. feed' = Append(feed, new)
    BY <1>1 DEF new
  <2> QED
    BY <2>1, <1>2, <1>3
<1>5. \A s \in Sides : \A v \in 0..n : LevelAt(s, v)' = LevelAt(s, v)
  BY <1>4, <1>2 DEF LevelAt
<1>6. History'
  <2> SUFFICES ASSUME NEW i \in 1..(n + 1), NEW s \in Sides
               PROVE  feed'[i][s] = i \/ feed'[i][s] = LevelAt(s, i - 1)'
    BY <1>4 DEF History
  <2>1. CASE i = n + 1
    BY <2>1, <1>2, <1>4, <1>5
  <2>2. CASE i \in 1..n
    <3>1. i - 1 \in 0..n
      BY <2>2, <1>2
    <3>2. LevelAt(s, i - 1)' = LevelAt(s, i - 1) /\ feed'[i] = feed[i]
      BY <3>1, <2>2, <1>4, <1>5
    <3> QED
      BY <3>2, <2>2 DEF BookInv, History
  <2> QED
    BY <2>1, <2>2, <1>2
<1>7. UNCHANGED <<offset, nonce, book, cache, ready, conn>>
  BY DEF Trade, bookVars
<1>8. Copy'
  <2>1. offset \in 0..n
    BY DEF BookInv, Copy
  <2> QED
    BY <1>2, <1>4, <1>5, <1>7, <2>1 DEF BookInv, Copy
<1> QED
  BY <1>6, <1>8 DEF BookInv

\* A book that was reset is not in use.
LEMMA ResetKeepsBook ==
    ASSUME BookInv, Reset, UNCHANGED feed
    PROVE  BookInv'
<1>1. History'
  BY DEF BookInv, History, LevelAt
<1>2. Len(feed) \in Nat
  BY DEF BookInv, History
<1> QED
  BY <1>1, <1>2 DEF BookInv, Copy, Reset, Empty, NotCached, None

\* What concerns neither the stream nor a frame leaves the book alone.
LEMMA UntouchedKeepsBook ==
    ASSUME BookInv, UNCHANGED <<feed, conn, bookVars>>
    PROVE  BookInv'
BY DEF BookInv, History, Copy, LevelAt, bookVars

\* A book whose stream ended stays what it was.
LEMMA DisconnectKeepsBook ==
    ASSUME BookInv, Disconnect
    PROVE  BookInv'
BY DEF BookInv, History, Copy, LevelAt, bookVars, Disconnect

\* A snapshot is the whole book as of its offset.
LEMMA SnapshotKeepsBook ==
    ASSUME BookInv, NEW v \in 0..Len(feed), NEW named \in BOOLEAN,
           NEW whole \in BOOLEAN, Snapshot(v, named, whole)
    PROVE  BookInv'
<1>1. feed' = feed /\ (\A s \in Sides, i \in Int : LevelAt(s, i)' = LevelAt(s, i))
  BY DEF Snapshot, LevelAt
<1>2. History'
  BY DEF BookInv, History, LevelAt, Snapshot
<1>3. \A s \in Sides : LevelAt(s, v) \in Nat
  BY LevelInNat DEF BookInv
<1>4. offset' = v /\ nonce' \in {None} \union 0..v
  BY DEF Snapshot, BookInv, History
<1>5. book' \in [Sides -> Nat] /\ cache' = [s \in Sides |-> None]
  BY <1>3 DEF Snapshot, NotCached
<1>6. CASE whole
  <2>1. \A s \in Sides : book'[s] = LevelAt(s, v)
    BY <1>6 DEF Snapshot
  <2> QED
    BY <1>1, <1>2, <1>4, <1>5, <2>1 DEF BookInv, Copy
<1>7. CASE ~whole
  <2>1. conn' = "torn"
    BY <1>7 DEF Snapshot
  <2> QED
    BY <1>1, <1>2, <1>4, <1>5, <2>1 DEF BookInv, Copy
<1> QED
  BY <1>6, <1>7

\* The update that is accepted is the one that follows.
LEMMA AcceptedFollows ==
    ASSUME BookInv, NEW i \in DOMAIN feed, NEW named \in BOOLEAN,
           i <= offset + 1 \/ (named /\ nonce # None), Validates(i, named)
    PROVE  i = offset + 1
<1>1. offset \in Nat /\ nonce \in {None} \union 0..offset /\ i \in Nat
  BY DEF BookInv, Copy, History
<1>2. CASE i <= offset + 1
  BY <1>1, <1>2 DEF Validates
<1>3. CASE named /\ nonce # None
  BY <1>1, <1>3 DEF Validates
<1> QED
  BY <1>2, <1>3

\* The update that follows takes the book one step along the history.
LEMMA UpdateKeepsBook ==
    ASSUME BookInv, NEW i \in DOMAIN feed, NEW named \in BOOLEAN,
           NEW whole \in BOOLEAN, Update(i, named, whole)
    PROVE  BookInv'
<1>1. i = offset + 1 /\ i \in 1..Len(feed) /\ offset \in Nat /\ Len(feed) \in Nat
  BY AcceptedFollows DEF Update, BookInv, Copy, History
<1>2. feed' = feed /\ ready /\ conn = "streaming"
  BY DEF Update
<1>3. \A s \in Sides, v \in Int : LevelAt(s, v)' = LevelAt(s, v)
  BY <1>2 DEF LevelAt
<1>4. History'
  BY <1>2 DEF BookInv, History, LevelAt
<1>5. book \in [Sides -> Nat] /\ DOMAIN cache = Sides
  BY DEF BookInv, Copy
<1>6. \A s \in Sides :
          book[s] = LevelAt(s, offset) /\ cache[s] \in {None, book[s]}
  BY <1>2 DEF BookInv, Copy
<1>7. CASE whole
  <2>1. ApplyLevels(i, Changed(i)) /\ offset' = i
        /\ nonce' \in {nonce, i} /\ conn' = conn
    BY <1>7 DEF Update
  <2>2. nonce' \in {None} \union 0..i
    BY <1>1, <2>1 DEF BookInv, Copy
  <2>3. /\ book' = [s \in Sides |-> IF s \in Changed(i) THEN i ELSE book[s]]
        /\ book' \in [Sides -> Nat]
        /\ cache' = IF book' = book THEN cache ELSE [s \in Sides |-> None]
    BY <1>1, <1>5, <2>1 DEF ApplyLevels, NotCached
  <2>4. \A s \in Sides : book'[s] = LevelAt(s, i)
    <3> SUFFICES ASSUME NEW s \in Sides
                 PROVE  book'[s] = LevelAt(s, i)
      OBVIOUS
    <3>1. LevelAt(s, i) = feed[i][s]
      BY <1>1 DEF LevelAt
    <3>2. feed[i][s] = i \/ feed[i][s] = LevelAt(s, offset)
      <4>1. i - 1 = offset
        BY <1>1
      <4>2. feed[i][s] = i \/ feed[i][s] = LevelAt(s, i - 1)
        BY <1>1 DEF BookInv, History
      <4> QED
        BY <4>1, <4>2
    <3>3. book'[s] = IF feed[i][s] = i THEN i ELSE LevelAt(s, offset)
      BY <2>3, <1>6 DEF Changed
    <3> QED
      BY <3>1, <3>2, <3>3
  <2>5. DOMAIN cache' = Sides /\ \A s \in Sides : cache'[s] \in {None, book'[s]}
    <3>1. CASE book' = book
      BY <3>1, <2>3, <1>5, <1>6
    <3>2. CASE book' # book
      BY <3>2, <2>3
    <3> QED
      BY <3>1, <3>2
  <2> QED
    BY <1>1, <1>2, <1>3, <1>4, <2>1, <2>2, <2>3, <2>4, <2>5 DEF BookInv, Copy
<1>8. CASE ~whole
  <2>1. /\ ApplyLevels(i, Changed(i) \ {"asks"})
        /\ offset' = offset /\ nonce' = nonce /\ conn' = "torn"
    BY <1>8 DEF Update
  <2>2. book' \in [Sides -> Nat] /\ DOMAIN cache' = Sides
    BY <2>1, <1>1, <1>5 DEF ApplyLevels, NotCached
  <2> QED
    BY <1>2, <1>4, <2>1, <2>2 DEF BookInv, Copy
<1> QED
  BY <1>7, <1>8

\* Reading a frame caches what the book holds.
LEMMA FrameKeepsBook ==
    ASSUME BookInv, NEW c \in Loops, Frame(c)
    PROVE  BookInv'
<1>1. UNCHANGED <<feed, conn, book, offset, nonce, ready>>
  BY DEF Frame
<1>2. \A s \in Sides, v \in Int : LevelAt(s, v)' = LevelAt(s, v)
  BY <1>1 DEF LevelAt
<1>3. History'
  BY <1>1 DEF BookInv, History, LevelAt
<1>4. cache' \in {cache, [s \in Sides |-> Execution(s)]}
  BY DEF Frame
<1>5. offset \in Int
  BY DEF BookInv, Copy
<1>6. CASE cache' = cache
  BY <1>1, <1>2, <1>3, <1>5, <1>6 DEF BookInv, Copy
<1>7. CASE cache' = [s \in Sides |-> Execution(s)]
  <2>1. DOMAIN cache' = Sides /\ \A s \in Sides : cache'[s] = Execution(s)
    BY <1>7
  <2>2. ready /\ conn # "torn" => \A s \in Sides : Execution(s) = book[s]
    BY DEF BookInv, Copy, Execution
  <2> QED
    BY <1>1, <1>2, <1>3, <1>5, <2>1, <2>2 DEF BookInv, Copy
<1> QED
  BY <1>4, <1>6, <1>7

\* Every step keeps the book.
LEMMA NextKeepsBook ==
    ASSUME BookInv, [Next]_vars
    PROVE  BookInv'
<1>1. CASE Trade
  BY <1>1, TradeKeepsBook
<1>2. CASE Quote \/ Fill
  BY <1>2, UntouchedKeepsBook DEF Quote, Fill
<1>3. CASE Stream
  <2>1. CASE Disconnect
    BY <2>1, DisconnectKeepsBook
  <2>2. CASE Reconnect
    BY <2>2, ResetKeepsBook DEF Reconnect
  <2>3. CASE \E v \in 0..Len(feed), named, whole \in BOOLEAN :
                 Snapshot(v, named, whole)
    BY <2>3, SnapshotKeepsBook
  <2>4. CASE \E i \in DOMAIN feed, named, whole \in BOOLEAN :
                 Update(i, named, whole)
    BY <2>4, UpdateKeepsBook
  <2>5. CASE \E i \in DOMAIN feed, named \in BOOLEAN : Gap(i, named)
    BY <2>5, ResetKeepsBook DEF Gap
  <2>6. CASE Ahead
    BY <2>6, UntouchedKeepsBook DEF Ahead
  <2> QED
    BY <1>3, <2>1, <2>2, <2>3, <2>4, <2>5, <2>6 DEF Stream
<1>4. CASE \E c \in Loops : Step(c) \/ Lock(c)
  <2> SUFFICES ASSUME NEW c \in Loops, Step(c) \/ Lock(c)
               PROVE  BookInv'
    BY <1>4
  <2>1. CASE Look(c) \/ Yield(c) \/ Arm(c) \/ Fallback(c)
    BY <2>1, UntouchedKeepsBook DEF Look, Yield, Arm, Fallback, Return
  <2>2. CASE Process(c) \/ Lock(c)
    BY <2>2, UntouchedKeepsBook DEF Process, Lock
  <2>3. CASE Frame(c)
    BY <2>3, FrameKeepsBook
  <2> QED
    BY <2>1, <2>2, <2>3 DEF Step
<1>5. CASE UNCHANGED vars
  BY <1>5, UntouchedKeepsBook DEF vars
<1> QED
  BY <1>1, <1>2, <1>3, <1>4, <1>5 DEF Next

\* A frame of such a book is the exchange's.
LEMMA BookIsFrame ==
    ASSUME BookInv
    PROVE  FrameIsFeed
BY DEF BookInv, Copy, FrameIsFeed, Usable, Execution

\* Whatever is repeated, omitted or cut short on the market stream, and however
\* often it is made anew, a frame outside the second after an error is made of
\* the exchange's book as of one of its updates.
THEOREM FrameCorrect == Spec => []FrameIsFeed
<1>1. Spec => []BookInv
  BY InitBook, NextKeepsBook, PTL DEF Spec
<1> QED
  BY <1>1, BookIsFrame, PTL

-----------------------------------------------------------------------------
(* The fills                                                               *)

Numbers(n) == [i \in 1..n |-> i]

\* Only the holder of the drain lock processes; its batch is what follows the
\* cursor, and what has been processed is all up to it, or one fill more.
Drain ==
    /\ cursor \in Nat /\ fills \in Nat /\ cursor <= fills
    /\ DOMAIN pc = Loops /\ DOMAIN batch = Loops
    /\ drainer \in Loops \union {"free"}
    /\ \A c \in Loops : pc[c] = "process" <=> drainer = c
    /\ \A c \in Loops : drainer = c =>
           \E n \in Nat \ {0} : /\ batch[c] = [i \in 1..n |-> cursor + i]
                                /\ cursor + n <= fills
    /\ processed = Numbers(IF drainer = "free" THEN cursor ELSE cursor + 1)

\* One fill more is processed at the end.
LEMMA NumbersGrow ==
    ASSUME NEW n \in Nat
    PROVE  /\ Len(Numbers(n)) = n
           /\ Append(Numbers(n), n + 1) = Numbers(n + 1)
BY DEF Numbers

\* A batch starts with the fill after the cursor and goes on with those after it.
LEMMA BatchGoesOn ==
    ASSUME NEW k \in Nat, NEW n \in Nat \ {0}
    PROVE  LET b == [i \in 1..n |-> k + i]
           IN  /\ Len(b) = n /\ Head(b) = k + 1
               /\ n > 1 => Tail(b) = [i \in 1..(n - 1) |-> (k + 1) + i]
<1> DEFINE b == [i \in 1..n |-> k + i]
<1>1. b \in Seq(Nat) /\ Len(b) = n /\ Head(b) = k + 1
  OBVIOUS
<1>2. ASSUME n > 1
      PROVE  Tail(b) = [i \in 1..(n - 1) |-> (k + 1) + i]
  <2>1. Tail(b) = [i \in 1..(n - 1) |-> b[i + 1]]
    BY <1>1, <1>2
  <2>2. \A i \in 1..(n - 1) : b[i + 1] = (k + 1) + i
    OBVIOUS
  <2> QED
    BY <2>1, <2>2
<1> QED
  BY <1>1, <1>2

\* At first nothing has been processed.
LEMMA InitDrain ==
    ASSUME Init
    PROVE  Drain
<1>1. Numbers(0) = <<>>
  BY DEF Numbers
<1> QED
  BY <1>1 DEF Init, Drain, Loops

\* Steps of others move a loop between places that are not "process".
LEMMA ElsewhereKeepsDrain ==
    ASSUME Drain, UNCHANGED drainVars, fills' \in {fills, fills + 1},
           DOMAIN pc' = Loops,
           \A c \in Loops : pc'[c] = "process" <=> pc[c] = "process"
    PROVE  Drain'
<1>1. cursor' = cursor /\ drainer' = drainer /\ batch' = batch
      /\ processed' = processed
  BY DEF drainVars
<1>2. fills' \in Nat /\ cursor' <= fills' /\ fills <= fills'
  BY <1>1 DEF Drain
<1>3. ASSUME NEW c \in Loops, drainer' = c
      PROVE  \E n \in Nat \ {0} : /\ batch'[c] = [i \in 1..n |-> cursor' + i]
                                  /\ cursor' + n <= fills'
  <2>1. PICK n \in Nat \ {0} : /\ batch[c] = [i \in 1..n |-> cursor + i]
                               /\ cursor + n <= fills
    BY <1>1, <1>3 DEF Drain
  <2>2. cursor + n <= fills'
    BY <2>1, <1>2 DEF Drain
  <2> QED
    BY <2>1, <2>2, <1>1
<1> QED
  BY <1>1, <1>2, <1>3 DEF Drain

\* A notification only wakes loops that wait.
LEMMA NotifyKeepsDrain ==
    ASSUME Drain, Notify, UNCHANGED drainVars, fills' \in {fills, fills + 1}
    PROVE  Drain'
<1>1. DOMAIN pc' = Loops /\ \A c \in Loops :
          pc'[c] = "process" <=> pc[c] = "process"
  BY DEF Notify
<1> QED
  BY <1>1, ElsewhereKeepsDrain

\* A loop that does not process moves on.
LEMMA GotoKeepsDrain ==
    ASSUME Drain, NEW c \in Loops, NEW place, pc[c] # "process",
           place # "process", Goto(c, place), UNCHANGED <<fills, drainVars>>
    PROVE  Drain'
<1>1. DOMAIN pc' = Loops /\ \A d \in Loops :
          pc'[d] = "process" <=> pc[d] = "process"
  BY DEF Goto, Drain
<1>2. UNCHANGED drainVars /\ fills' \in {fills, fills + 1}
  OBVIOUS
<1> QED
  BY <1>1, <1>2, ElsewhereKeepsDrain

\* The three ways a drain goes on, from a state in which every fill up to the
\* new cursor has been processed and no other loop holds the lock.
LEMMA LeaveKeepsDrain ==
    ASSUME Drain, NEW c \in Loops, Leave(c), drainer \in {c, "free"},
           UNCHANGED fills, cursor' \in Nat, cursor' <= fills,
           processed = Numbers(cursor')
    PROVE  Drain'
<1>1. drainer' = "free" /\ processed' = processed
  BY DEF Leave
<1>2. \A d \in Loops : d # "free"
  BY DEF Loops
<1>3. DOMAIN pc' = Loops /\ \A d \in Loops : pc'[d] # "process"
  BY <1>2 DEF Leave, Goto, Drain
<1>4. DOMAIN batch' = Loops
  BY DEF Leave, Drain
<1> QED
  BY <1>1, <1>2, <1>3, <1>4 DEF Drain

\* Arithmetic, stated for rigid numbers.
LEMMA Successor ==
    ASSUME NEW k \in Nat, NEW h, h = k + 1
    PROVE  h > k
OBVIOUS

\* A batch is begun, or gone on with.
LEMMA StartKeepsDrain ==
    ASSUME Drain, NEW c \in Loops, NEW left, Start(c, left),
           drainer \in {c, "free"}, UNCHANGED fills, cursor' \in Nat,
           processed = Numbers(cursor'),
           NEW n \in Nat \ {0}, left = [i \in 1..n |-> cursor' + i],
           cursor' + n <= fills
    PROVE  Drain'
<1>1. Head(left) = cursor' + 1
  BY BatchGoesOn
<1>2. processed' = Numbers(cursor' + 1)
  <2>1. processed' = Append(processed, cursor' + 1)
    <3>1. Head(left) > cursor'
      BY <1>1, Successor
    <3>2. processed' = Append(processed, Head(left))
      BY <3>1 DEF Start
    <3> QED
      BY <1>1, <3>2
  <2>2. Append(Numbers(cursor'), cursor' + 1) = Numbers(cursor' + 1)
    BY NumbersGrow
  <2> QED
    BY <2>1, <2>2
<1>3. drainer' = c /\ c # "free"
  BY DEF Start, Loops
<1>4. DOMAIN pc' = Loops /\ \A d \in Loops : pc'[d] = "process" <=> d = c
  BY DEF Start, Goto, Drain, Loops
<1>5. DOMAIN batch' = Loops /\ batch'[c] = left
  BY DEF Start, Drain
<1>6. fills' = fills /\ cursor' <= fills'
  BY DEF Drain
<1> QED
  BY <1>2, <1>3, <1>4, <1>5, <1>6 DEF Drain

\* Arithmetic, stated for rigid numbers.
LEMMA Remainder ==
    ASSUME NEW k \in Nat, NEW l \in Nat, NEW m \in Nat, l <= m, ~(l <= k)
    PROVE  l - k \in Nat \ {0} /\ k + (l - k) <= m
OBVIOUS

\* The next batch is fetched, or there is none.
LEMMA FetchKeepsDrain ==
    ASSUME Drain, NEW c \in Loops, Fetch(c), drainer \in {c, "free"},
           UNCHANGED fills, cursor' \in Nat, cursor' <= fills,
           processed = Numbers(cursor')
    PROVE  Drain'
<1> DEFINE end == cursor' + BatchLimit
           last == IF fills < end THEN fills ELSE end
<1>1. last \in Nat /\ last <= fills
  BY BoundAssumption DEF Drain
<1>2. CASE last <= cursor'
  BY <1>2, LeaveKeepsDrain DEF Fetch
<1>3. CASE ~(last <= cursor')
  <2>1. last - cursor' \in Nat \ {0} /\ cursor' + (last - cursor') <= fills
    <3>1. fills \in Nat
      BY DEF Drain
    <3> HIDE DEF last, end
    <3> QED
      BY <1>1, <1>3, <3>1, Remainder
  <2>2. Start(c, [i \in 1..(last - cursor') |-> cursor' + i])
    BY <1>3 DEF Fetch
  <2> QED
    BY <2>1, <2>2, StartKeepsDrain
<1> QED
  BY <1>2, <1>3

\* A drain begins.
LEMMA LockKeepsDrain ==
    ASSUME Drain, NEW c \in Loops, Lock(c)
    PROVE  Drain'
<1>1. drainer = "free" /\ cursor' = cursor /\ fills' = fills /\ Fetch(c)
  BY DEF Lock, MayDrain
<1>2. cursor' \in Nat /\ cursor' <= fills /\ processed = Numbers(cursor')
  BY <1>1 DEF Drain
<1> QED
  BY <1>1, <1>2, FetchKeepsDrain

\* A fill is done, and the drain goes on or ends.
LEMMA ProcessKeepsDrain ==
    ASSUME Drain, NEW c \in Loops, Process(c)
    PROVE  Drain'
<1>1. drainer = c /\ drainer # "free" /\ fills' = fills
  BY DEF Process, Drain, Loops
<1>2. PICK n \in Nat \ {0} : /\ batch[c] = [i \in 1..n |-> cursor + i]
                             /\ cursor + n <= fills
  BY <1>1 DEF Drain
<1>3. cursor \in Nat /\ fills \in Nat
  BY DEF Drain
<1>4. /\ Len(batch[c]) = n /\ Head(batch[c]) = cursor + 1
      /\ n > 1 => Tail(batch[c]) = [i \in 1..(n - 1) |-> (cursor + 1) + i]
  BY <1>2, <1>3, BatchGoesOn
<1>5. cursor' = cursor + 1
  BY <1>3, <1>4 DEF Process
<1>6. cursor' \in Nat /\ cursor' <= fills /\ processed = Numbers(cursor')
  BY <1>1, <1>2, <1>3, <1>5 DEF Drain
<1>7. CASE n > 1
  <2>1. Start(c, Tail(batch[c]))
    BY <1>4, <1>7 DEF Process
  <2>2. Tail(batch[c]) = [i \in 1..(n - 1) |-> cursor' + i]
    BY <1>4, <1>5, <1>7
  <2>3. n - 1 \in Nat \ {0} /\ cursor' + (n - 1) <= fills
    BY <1>2, <1>3, <1>5, <1>7
  <2> QED
    BY <1>1, <1>6, <2>1, <2>2, <2>3, StartKeepsDrain
<1>8. CASE ~(n > 1)
  <2>1. Fetch(c) \/ Leave(c)
    BY <1>4, <1>8 DEF Process
  <2> QED
    BY <1>1, <1>6, <2>1, FetchKeepsDrain, LeaveKeepsDrain
<1> QED
  BY <1>7, <1>8

\* Every step keeps the drain.
LEMMA NextKeepsDrain ==
    ASSUME Drain, [Next]_vars
    PROVE  Drain'
<1>1. CASE Trade \/ Disconnect \/ Reconnect \/ UNCHANGED vars
  <2>1. UNCHANGED <<pc, fills, drainVars>>
    BY <1>1 DEF Trade, Disconnect, Reconnect, vars, loopVars
  <2> QED
    BY <2>1, ElsewhereKeepsDrain DEF Drain
<1>2. CASE Quote \/ Fill \/ Ahead
  <2>1. Notify /\ UNCHANGED drainVars /\ fills' \in {fills, fills + 1}
    BY <1>2 DEF Quote, Fill, Ahead
  <2> QED
    BY <2>1, NotifyKeepsDrain
<1>3. CASE \E v \in 0..Len(feed), named, whole \in BOOLEAN :
               Snapshot(v, named, whole)
  <2>1. (Notify \/ UNCHANGED pc) /\ UNCHANGED <<fills, drainVars>>
    BY <1>3 DEF Snapshot, loopVars
  <2> QED
    BY <2>1, NotifyKeepsDrain, ElsewhereKeepsDrain DEF Drain
<1>4. CASE \E i \in DOMAIN feed, named, whole \in BOOLEAN :
               Update(i, named, whole)
  <2>1. (Notify \/ UNCHANGED pc) /\ UNCHANGED <<fills, drainVars>>
    BY <1>4 DEF Update, loopVars
  <2> QED
    BY <2>1, NotifyKeepsDrain, ElsewhereKeepsDrain DEF Drain
<1>5. CASE \E i \in DOMAIN feed, named \in BOOLEAN : Gap(i, named)
  BY <1>5, NotifyKeepsDrain DEF Gap
<1>6. CASE \E c \in Loops : Step(c) \/ Lock(c)
  <2> SUFFICES ASSUME NEW c \in Loops, Step(c) \/ Lock(c)
               PROVE  Drain'
    BY <1>6
  <2>1. CASE Look(c)
    <3>1. PICK place \in {"yield", "arming"} : Goto(c, place)
      BY <2>1 DEF Look
    <3> QED
      BY <2>1, <3>1, GotoKeepsDrain DEF Look
  <2>2. CASE Yield(c) \/ Fallback(c)
    <3>1. PICK place \in {"drain", "frame"} : Goto(c, place)
      BY <2>2 DEF Yield, Fallback, Return
    <3> QED
      BY <2>2, <3>1, GotoKeepsDrain DEF Yield, Fallback, FallsBack, Return
  <2>3. CASE Arm(c)
    <3>1. PICK place \in {"look", "waiting"} : Goto(c, place)
      BY <2>3 DEF Arm
    <3> QED
      BY <2>3, <3>1, GotoKeepsDrain DEF Arm
  <2>4. CASE Frame(c)
    BY <2>4, GotoKeepsDrain DEF Frame
  <2> QED
    BY <2>1, <2>2, <2>3, <2>4, LockKeepsDrain, ProcessKeepsDrain DEF Step
<1> QED
  BY <1>1, <1>2, <1>3, <1>4, <1>5, <1>6 DEF Next, Stream

\* What is processed is then each fill once, in order.
LEMMA DrainIsOnce ==
    ASSUME Drain
    PROVE  DrainedOnce
<1> DEFINE n == IF drainer = "free" THEN cursor ELSE cursor + 1
<1>1. n \in Nat /\ processed = Numbers(n) /\ Len(processed) = n
  <2>1. n \in Nat /\ processed = Numbers(n)
    BY DEF Drain
  <2> HIDE DEF n
  <2> QED
    BY <2>1, NumbersGrow
<1>2. processed = [i \in 1..Len(processed) |-> i]
  BY <1>1 DEF Numbers
<1>3. drainer = "free" <=> ~\E c \in Loops : pc[c] = "process"
  BY DEF Drain, Loops
<1> QED
  BY <1>1, <1>2, <1>3 DEF DrainedOnce

\* The two loops, whatever wakes them, process every fill once and in order.
THEOREM DrainCorrect == Spec => []DrainedOnce
<1>1. Spec => []Drain
  BY InitDrain, NextKeepsDrain, PTL DEF Spec
<1> QED
  BY <1>1, DrainIsOnce, PTL

-----------------------------------------------------------------------------
(* The types                                                               *)

\* No level is higher than the updates made, on the exchange or in the copy.
Levels ==
    /\ feed \in Seq([Sides -> 0..MaxUpdates]) /\ Len(feed) <= MaxUpdates
    /\ book \in [Sides -> 0..MaxUpdates]
    /\ cache \in [Sides -> {None} \union 0..MaxUpdates]
    /\ conn \in {"streaming", "down", "torn"} /\ ready \in BOOLEAN

\* No loop has seen more than there was, and a batch is its holder's.
Turns ==
    /\ event \in BOOLEAN /\ signal \in 0..MaxSignals /\ fills \in 0..MaxFills
    /\ pc \in [Loops -> {"look", "yield", "arming", "waiting", "drain",
                         "process", "frame"}]
    /\ seen \in [Loops -> 0..signal] /\ fillsSeen \in 0..fills
    /\ full \in [Loops -> BOOLEAN]
    /\ \A c \in Loops : drainer # c => batch[c] = <<>>

\* The book's steps keep the levels.
LEMMA NextKeepsLevels ==
    ASSUME BookInv, Levels, [Next]_vars
    PROVE  Levels'
<1>1. \A s \in Sides, v \in 0..Len(feed) : LevelAt(s, v) \in 0..MaxUpdates
  BY BoundAssumption DEF LevelAt, Levels
<1>2. MaxUpdates \in Nat /\ Len(feed) \in Nat /\ feed \in Seq([Sides -> 0..MaxUpdates])
  BY BoundAssumption DEF Levels
<1>3. CASE Trade
  <2> DEFINE n == Len(feed)
  <2>1. PICK sides \in Changes :
            feed' = Append(feed, [s \in Sides |->
                        IF s \in sides THEN n + 1 ELSE LevelAt(s, n)])
    BY <1>3 DEF Trade
  <2>2. n + 1 \in 0..MaxUpdates
    BY <1>2, <1>3 DEF Trade
  <2> DEFINE new == [s \in Sides |-> IF s \in sides THEN n + 1 ELSE LevelAt(s, n)]
  <2>3. new \in [Sides -> 0..MaxUpdates]
    <3>1. n \in 0..n
      BY <1>2
    <3>2. \A s \in Sides : LevelAt(s, n) \in 0..MaxUpdates
      BY <1>1, <3>1
    <3> HIDE DEF n
    <3> QED
      BY <2>2, <3>2
  <2>4. feed' \in Seq([Sides -> 0..MaxUpdates]) /\ Len(feed') = n + 1
    <3>1. feed' = Append(feed, new)
      BY <2>1
    <3> HIDE DEF new
    <3> QED
      BY <3>1, <1>2, <2>3
  <2> QED
    BY <2>2, <2>4, <1>2, <1>3 DEF Levels, Trade, bookVars
<1>4. CASE UNCHANGED <<feed, conn, bookVars>>
  BY <1>4 DEF Levels, bookVars
<1>5. CASE Disconnect
  BY <1>5 DEF Levels, Disconnect, bookVars
<1>6. CASE Reset /\ UNCHANGED feed /\ conn' \in {"streaming", "down"}
  <2>1. book' = Empty /\ cache' = NotCached /\ ready' = FALSE /\ feed' = feed
    BY <1>6 DEF Reset
  <2>2. Empty \in [Sides -> 0..MaxUpdates]
    BY <1>2 DEF Empty
  <2>3. NotCached \in [Sides -> {None} \union 0..MaxUpdates]
    BY DEF NotCached
  <2> QED
    BY <1>6, <2>1, <2>2, <2>3 DEF Levels
<1>7. ASSUME NEW v \in 0..Len(feed), NEW named \in BOOLEAN,
             NEW whole \in BOOLEAN, Snapshot(v, named, whole)
      PROVE  Levels'
  <2>1. book' \in [Sides -> 0..MaxUpdates]
    BY <1>1, <1>2, <1>7 DEF Snapshot
  <2>2. feed' = feed /\ cache' = NotCached /\ conn' \in {conn, "torn"}
        /\ ready' \in {ready, TRUE}
    BY <1>7 DEF Snapshot
  <2> QED
    BY <2>1, <2>2 DEF Levels, NotCached
<1>8. ASSUME NEW i \in DOMAIN feed, NEW named \in BOOLEAN,
             NEW whole \in BOOLEAN, Update(i, named, whole)
      PROVE  Levels'
  <2>1. i \in 0..MaxUpdates
    BY <1>2 DEF Levels
  <2>2. PICK sides : ApplyLevels(i, sides)
    BY <1>8 DEF Update
  <2>3. book' \in [Sides -> 0..MaxUpdates]
    BY <2>1, <2>2 DEF ApplyLevels, Levels
  <2>4. cache' \in [Sides -> {None} \union 0..MaxUpdates]
    BY <2>2 DEF ApplyLevels, Levels, NotCached
  <2>5. UNCHANGED <<feed, ready>> /\ conn' \in {conn, "torn"}
    BY <1>8 DEF Update
  <2> QED
    BY <2>3, <2>4, <2>5 DEF Levels
<1>9. ASSUME NEW c \in Loops, Frame(c)
      PROVE  Levels'
  <2>1. cache' \in [Sides -> {None} \union 0..MaxUpdates]
    BY <1>9 DEF Frame, Execution, Levels
  <2> QED
    BY <2>1, <1>9 DEF Frame, Levels
<1>10. CASE Quote \/ Fill \/ Ahead \/ UNCHANGED vars
  BY <1>4, <1>10 DEF Quote, Fill, Ahead, vars
<1>11. CASE Reconnect \/ \E i \in DOMAIN feed, named \in BOOLEAN : Gap(i, named)
  BY <1>6, <1>11 DEF Reconnect, Gap
<1>12. CASE \E c \in Loops : Step(c) \/ Lock(c)
  <2> SUFFICES ASSUME NEW c \in Loops, Step(c) \/ Lock(c)
               PROVE  Levels'
    BY <1>12
  <2>1. CASE Look(c) \/ Yield(c) \/ Arm(c) \/ Fallback(c) \/ Process(c) \/ Lock(c)
    BY <1>4, <2>1 DEF Look, Yield, Arm, Fallback, Return, Process, Lock
  <2> QED
    BY <2>1, <1>9 DEF Step
<1> QED
  BY <1>3, <1>5, <1>7, <1>8, <1>10, <1>11, <1>12 DEF Next, Stream

\* A notification is one more, for every loop.
LEMMA NotifyKeepsTurns ==
    ASSUME Turns, Drain, Notify, UNCHANGED drainVars,
           fills' = fills \/ (fills < MaxFills /\ fills' = fills + 1)
    PROVE  Turns'
<1>1. MaxSignals \in Nat /\ MaxFills \in Nat
  BY BoundAssumption
<1>2. signal' \in 0..MaxSignals /\ \A n \in 0..signal : n \in 0..signal'
  BY <1>1 DEF Turns, Notify
<1>3. fills' \in 0..MaxFills /\ \A n \in 0..fills : n \in 0..fills'
  BY <1>1 DEF Turns
<1>4. seen' \in [Loops -> 0..signal'] /\ fillsSeen' \in 0..fills'
  BY <1>2, <1>3 DEF Turns, Notify
<1>5. pc' \in [Loops -> {"look", "yield", "arming", "waiting", "drain",
                         "process", "frame"}] /\ event' \in BOOLEAN
  BY DEF Turns, Notify
<1> QED
  BY <1>2, <1>3, <1>4, <1>5 DEF Turns, drainVars

\* What concerns neither the signal nor a loop.
LEMMA UntouchedKeepsTurns ==
    ASSUME Turns, UNCHANGED <<fills, signalVars, loopVars, drainVars>>
    PROVE  Turns'
BY DEF Turns, signalVars, loopVars, drainVars

\* A loop that takes the revision of the moment.
LEMMA ReturnKeepsTurns ==
    ASSUME Turns, NEW c \in Loops, Return(c)
    PROVE  Turns'
<1>1. signal \in Nat
  BY DEF Turns
<1>2. seen' \in [Loops -> 0..signal]
  BY <1>1 DEF Turns, Return
<1> QED
  BY <1>2 DEF Turns, Return, Goto, signalVars, drainVars

\* The ways a drain goes on: its batch is the holder's.
LEMMA LeaveKeepsTurns ==
    ASSUME Turns, Drain, NEW c \in Loops, Leave(c), drainer \in {c, "free"},
           UNCHANGED <<fills, signalVars, seen>>
    PROVE  Turns'
<1>1. batch' = [batch EXCEPT ![c] = <<>>] /\ full' = full
  BY DEF Leave
<1>2. \A d \in Loops : batch'[d] = <<>>
  <2> TAKE d \in Loops
  <2>1. CASE d = c
    BY <1>1, <2>1 DEF Drain
  <2>2. CASE d # c
    <3>1. drainer # d
      BY <2>2 DEF Loops
    <3> QED
      BY <1>1, <2>2, <3>1 DEF Drain, Turns
  <2> QED
    BY <2>1, <2>2
<1>3. pc' \in [Loops -> {"look", "yield", "arming", "waiting", "drain",
                         "process", "frame"}] /\ fillsSeen' \in 0..fills
  <2>1. fills \in 0..fills
    BY DEF Drain
  <2> QED
    BY <2>1 DEF Turns, Leave, Goto
<1> QED
  BY <1>1, <1>2, <1>3 DEF Turns, signalVars

LEMMA StartKeepsTurns ==
    ASSUME Turns, Drain, NEW c \in Loops, NEW left, Start(c, left),
           drainer \in {c, "free"}, UNCHANGED <<fills, signalVars, seen>>,
           full' = full \/ \E b \in BOOLEAN : full' = [full EXCEPT ![c] = b]
    PROVE  Turns'
<1>1. drainer' = c /\ \A d \in Loops : d # c => batch'[d] = <<>>
  BY DEF Start, Drain, Turns, Loops
<1>2. full' \in [Loops -> BOOLEAN]
  <2>1. full \in [Loops -> BOOLEAN]
    BY DEF Turns
  <2>2. CASE full' = full
    BY <2>1, <2>2
  <2>3. CASE \E b \in BOOLEAN : full' = [full EXCEPT ![c] = b]
    BY <2>1, <2>3
  <2> QED
    BY <2>2, <2>3
<1>3. pc' \in [Loops -> {"look", "yield", "arming", "waiting", "drain",
                         "process", "frame"}]
  BY DEF Turns, Start, Goto
<1>4. UNCHANGED <<fills, signal, event, seen, fillsSeen>>
  BY DEF Start, signalVars
<1> QED
  BY <1>1, <1>2, <1>3, <1>4 DEF Turns

LEMMA FetchKeepsTurns ==
    ASSUME Turns, Drain, NEW c \in Loops, Fetch(c), drainer \in {c, "free"},
           UNCHANGED <<fills, signalVars, seen>>
    PROVE  Turns'
<1> DEFINE end == cursor' + BatchLimit
           last == IF fills < end THEN fills ELSE end
<1>1. CASE last <= cursor'
  BY <1>1, LeaveKeepsTurns DEF Fetch
<1>2. CASE ~(last <= cursor')
  <2>1. Start(c, [i \in 1..(last - cursor') |-> cursor' + i])
    BY <1>2 DEF Fetch
  <2>2. \E b \in BOOLEAN : full' = [full EXCEPT ![c] = b]
    <3>1. full' = [full EXCEPT ![c] = last = end]
      BY <1>2 DEF Fetch
    <3>2. (last = end) \in BOOLEAN
      OBVIOUS
    <3> QED
      BY <3>1, <3>2
  <2> QED
    BY <2>1, <2>2, StartKeepsTurns
<1> QED
  BY <1>1, <1>2

\* Every step of a loop keeps its turns.
LEMMA LoopKeepsTurns ==
    ASSUME Turns, Drain, NEW c \in Loops, Step(c) \/ Lock(c)
    PROVE  Turns'
<1>1. CASE Look(c)
  BY <1>1 DEF Look, Goto, Turns, drainVars
<1>2. CASE Yield(c) \/ Fallback(c)
  BY <1>2, ReturnKeepsTurns DEF Yield, Fallback
<1>3. CASE Arm(c)
  BY <1>3 DEF Arm, Goto, Turns, drainVars, signalVars
<1>4. CASE Frame(c)
  BY <1>4 DEF Frame, Goto, Turns, drainVars, signalVars
<1>5. CASE Lock(c)
  BY <1>5, FetchKeepsTurns DEF Lock, MayDrain
<1>6. CASE Process(c)
  <2>1. drainer = c /\ UNCHANGED <<fills, signalVars, seen>>
    BY <1>6 DEF Process, Drain
  <2>2. \/ Start(c, Tail(batch[c])) /\ full' = full
        \/ Fetch(c) \/ Leave(c)
    BY <1>6 DEF Process
  <2> QED
    BY <2>1, <2>2, StartKeepsTurns, FetchKeepsTurns, LeaveKeepsTurns
<1> QED
  BY <1>1, <1>2, <1>3, <1>4, <1>5, <1>6 DEF Step

\* Every step keeps the turns.
LEMMA NextKeepsTurns ==
    ASSUME Turns, Drain, [Next]_vars
    PROVE  Turns'
<1>1. CASE Trade \/ Disconnect \/ Reconnect \/ UNCHANGED vars
  BY <1>1, UntouchedKeepsTurns DEF Trade, Disconnect, Reconnect, vars
<1>2. CASE Quote \/ Fill \/ Ahead
  BY <1>2, NotifyKeepsTurns DEF Quote, Fill, Ahead
<1>3. CASE \E v \in 0..Len(feed), named, whole \in BOOLEAN :
               Snapshot(v, named, whole)
  BY <1>3, NotifyKeepsTurns, UntouchedKeepsTurns DEF Snapshot
<1>4. CASE \E i \in DOMAIN feed, named, whole \in BOOLEAN :
               Update(i, named, whole)
  BY <1>4, NotifyKeepsTurns, UntouchedKeepsTurns DEF Update
<1>5. CASE \E i \in DOMAIN feed, named \in BOOLEAN : Gap(i, named)
  BY <1>5, NotifyKeepsTurns DEF Gap
<1> QED
  BY <1>1, <1>2, <1>3, <1>4, <1>5, LoopKeepsTurns DEF Next, Stream

\* Together they are the types.
LEMMA PartsAreTypes ==
    ASSUME BookInv, Drain, Levels, Turns
    PROVE  TypeOK
<1>1. \A c \in Loops : /\ batch[c] \in Seq(1..fills)
                       /\ pc[c] = "process" <=> batch[c] # <<>>
                       /\ pc[c] = "process" <=> drainer = c
  <2> SUFFICES ASSUME NEW c \in Loops
               PROVE  /\ batch[c] \in Seq(1..fills)
                      /\ drainer = c <=> batch[c] # <<>>
    BY DEF Drain
  <2>1. CASE drainer = c
    <3>1. PICK n \in Nat \ {0} : /\ batch[c] = [i \in 1..n |-> cursor + i]
                                 /\ cursor + n <= fills
      BY <2>1 DEF Drain
    <3>2. \A i \in 1..n : cursor + i \in 1..fills
      BY <3>1 DEF Drain
    <3>3. [i \in 1..n |-> cursor + i] \in Seq(1..fills)
          /\ [i \in 1..n |-> cursor + i] # <<>>
      BY <3>2
    <3> QED
      BY <2>1, <3>1, <3>3
  <2>2. CASE drainer # c
    <3>1. batch[c] = <<>>
      BY <2>2 DEF Turns
    <3>2. <<>> \in Seq(1..fills)
      OBVIOUS
    <3> QED
      BY <2>2, <3>1, <3>2
  <2> QED
    BY <2>1, <2>2
<1>2. processed \in Seq(1..fills)
  <2> DEFINE n == IF drainer = "free" THEN cursor ELSE cursor + 1
  <2>1. n \in Nat /\ n <= fills
    <3>1. CASE drainer = "free"
      BY <3>1 DEF Drain
    <3>2. CASE drainer # "free"
      <4>1. PICK m \in Nat \ {0} : cursor + m <= fills
        BY <3>2 DEF Drain
      <4> QED
        BY <4>1, <3>2 DEF Drain
    <3> QED
      BY <3>1, <3>2
  <2>2. processed = [i \in 1..n |-> i]
    BY DEF Drain, Numbers
  <2> HIDE DEF n
  <2>3. \A i \in 1..n : i \in 1..fills
    BY <2>1 DEF Drain
  <2> QED
    BY <2>1, <2>2, <2>3
<1>3. cursor \in 0..fills
  BY DEF Drain
<1> QED
  BY <1>1, <1>2, <1>3 DEF TypeOK, BookInv, Copy, Drain, Levels, Turns

\* Every variable keeps its type; the drain lock's holder alone has a batch.
THEOREM TypeCorrect == Spec => []TypeOK
<1>1. Init => BookInv /\ Drain /\ Levels /\ Turns
  <2> SUFFICES ASSUME Init
               PROVE  Levels /\ Turns
    BY InitBook, InitDrain
  <2>1. Levels
    <3>1. /\ feed = <<>> /\ book = Empty /\ cache = NotCached
          /\ conn = "streaming" /\ ready = FALSE
      BY DEF Init
    <3>2. Empty \in [Sides -> 0..MaxUpdates]
      BY BoundAssumption DEF Empty
    <3>3. NotCached \in [Sides -> {None} \union 0..MaxUpdates]
      BY DEF NotCached
    <3>4. Len(feed) <= MaxUpdates /\ feed \in Seq([Sides -> 0..MaxUpdates])
      BY <3>1, BoundAssumption
    <3> QED
      BY <3>1, <3>2, <3>3, <3>4 DEF Levels
  <2>2. Turns
    BY BoundAssumption DEF Init, Turns
  <2> QED
    BY <2>1, <2>2
<1>2. BookInv /\ Drain /\ Levels /\ Turns /\ [Next]_vars
          => BookInv' /\ Drain' /\ Levels' /\ Turns'
  BY NextKeepsBook, NextKeepsDrain, NextKeepsLevels, NextKeepsTurns
<1>3. Spec => [](BookInv /\ Drain /\ Levels /\ Turns)
  BY <1>1, <1>2, PTL DEF Spec
<1> QED
  BY <1>3, PartsAreTypes, PTL

=============================================================================
