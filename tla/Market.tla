------------------------------- MODULE Market -------------------------------
(***************************************************************************)
(* What wakes the decisions of src/main.py, and what they are computed     *)
(* from: the copy of Lighter's order book kept by handle_lighter_market_ws,*)
(* the executions cached from it, the shared market signal on which        *)
(* strategy_signal_loop and trade_loop wait, and the list of Variational's *)
(* fills that both of them drain.                                          *)
(*                                                                         *)
(* The exchange's book is kept as its history: update number i gives some  *)
(* of the two sides a new level, and the level is called i after it.  The  *)
(* executable price of an order is told by the level of the side it would  *)
(* hit.  Times of receipt, flows and features are left out.                *)
(*                                                                         *)
(* Sections under one asyncio lock without an await inside are one step;   *)
(* a loop is suspended where it waits for the event, for the drain lock,   *)
(* in sleep(0) and while it processes a fill.                              *)
(***************************************************************************)
EXTENDS Integers, Sequences

CONSTANTS
    Changes,       \* the sides of the book one update may change
    MaxUpdates,    \* bound: updates of the exchange's book
    MaxSignals,    \* bound: notifications of the market signal
    MaxFills,      \* bound: fills Variational reports
    BatchLimit     \* fills fetched at once (500 in the code)

Sides == {"bids", "asks"}
Loops == {"strategy", "trades"}
None == -1

ASSUME BoundAssumption ==
    /\ Changes \subseteq SUBSET Sides
    /\ MaxUpdates \in Nat /\ MaxSignals \in Nat /\ MaxFills \in Nat
    /\ BatchLimit \in Nat \ {0}

VARIABLES
    feed,          \* the exchange: its book after each of its updates
    conn,          \* the market stream's task
    book,          \* lighter_order_book: the level of each side, 0 when empty
    offset,        \* lighter_order_book_offset
    nonce,         \* lighter_order_book_nonce
    ready,         \* lighter_order_book_ready and lighter_snapshot_loaded
    cache,         \* lighter_vwap_cache, by the side of the book it read
    fills,         \* fills appended to the monitor's trade_events so far
    signal,        \* _market_signal_revision
    event,         \* _market_signal_event is set
    pc,            \* where each loop stands
    seen,          \* the signal_revision each loop waits with
    fillsSeen,     \* trade_signal_revision of the strategy's loop
    drainer,       \* the holder of _trade_event_drain_lock
    batch,         \* the fills each loop has fetched and not finished
    full,          \* that batch was as long as BatchLimit
    cursor,        \* trade_event_cursor
    processed      \* the fills processed, in order

bookVars == <<book, offset, nonce, ready, cache>>
signalVars == <<signal, event>>
drainVars == <<drainer, batch, full, cursor, processed>>
loopVars == <<pc, seen, fillsSeen>>
vars == <<feed, conn, bookVars, fills, signalVars, loopVars, drainVars>>

\* The level of a side of the exchange's book after update v.
LevelAt(s, v) == IF v = 0 THEN 0 ELSE feed[v][s]

\* The sides update i has changed.
Changed(i) == {s \in Sides : feed[i][s] = i}

Empty == [s \in Sides |-> 0]
NotCached == [s \in Sides |-> None]

\* The loops start after a drain.  A fill may have come in between, quotes
\* have set the event, and the loops take the revisions as they find them.
Init ==
    /\ feed = <<>> /\ conn = "streaming"
    /\ book = Empty /\ offset = 0 /\ nonce = None
    /\ ready = FALSE /\ cache = NotCached
    /\ fills \in {n \in 0..1 : n <= MaxFills} /\ signal = 0 /\ event = TRUE
    /\ pc = [c \in Loops |-> "look"] /\ seen = [c \in Loops |-> 0]
    /\ fillsSeen = fills
    /\ drainer = "free" /\ batch = [c \in Loops |-> <<>>]
    /\ full = [c \in Loops |-> FALSE]
    /\ cursor = 0 /\ processed = <<>>

-----------------------------------------------------------------------------
(* The signal                                                              *)

\* notify_market_signal: Event.set() wakes every loop that already waits.
Notify ==
    /\ signal < MaxSignals
    /\ signal' = signal + 1
    /\ event' = TRUE
    /\ pc' = [c \in Loops |-> IF pc[c] = "waiting" THEN "look" ELSE pc[c]]
    /\ UNCHANGED <<seen, fillsSeen>>

\* A quote arrives (notify_variational_quote_signal).
Quote == Notify /\ UNCHANGED <<feed, conn, bookVars, fills, drainVars>>

\* A fill arrives (notify_trade_signal; its revision is the number of fills).
Fill ==
    /\ fills < MaxFills
    /\ fills' = fills + 1
    /\ Notify
    /\ UNCHANGED <<feed, conn, bookVars, drainVars>>

-----------------------------------------------------------------------------
(* The order book                                                          *)

\* Lighter's book changes.
Trade ==
    /\ Len(feed) < MaxUpdates
    /\ \E sides \in Changes :
           LET v == Len(feed)
           IN  feed' = Append(feed, [s \in Sides |->
                           IF s \in sides THEN v + 1 ELSE LevelAt(s, v)])
    /\ UNCHANGED <<conn, bookVars, fills, signalVars, loopVars, drainVars>>

\* reset_lighter_order_book
Reset ==
    /\ book' = Empty /\ offset' = 0 /\ nonce' = None
    /\ ready' = FALSE /\ cache' = NotCached

\* The connection ends, or was never made: the task sleeps, and the book stays
\* as it is until the task starts over.
Disconnect ==
    /\ conn = "streaming" /\ conn' = "down"
    /\ UNCHANGED <<feed, bookVars, fills, signalVars, loopVars, drainVars>>

Reconnect ==
    /\ conn \in {"down", "torn"} /\ conn' = "streaming"
    /\ Reset
    /\ UNCHANGED <<feed, fills, signalVars, loopVars, drainVars>>

\* subscribed/order_book: the book as of update v, with or without its nonce,
\* once on a connection.
\* A level that is not aligned (whole is FALSE, the asks hold it) raises after
\* the bids are applied, and nothing is announced.
Snapshot(v, named, whole) ==
    /\ conn = "streaming" /\ ~ready
    /\ book' = [s \in Sides |->
                    IF s = "bids" \/ whole THEN LevelAt(s, v) ELSE 0]
    /\ offset' = v
    /\ nonce' = IF named THEN v ELSE None
    /\ cache' = NotCached
    /\ IF whole
         THEN ready' = TRUE /\ Notify /\ UNCHANGED conn
         ELSE conn' = "torn" /\ UNCHANGED <<ready, signalVars, loopVars>>
    /\ UNCHANGED <<feed, fills, drainVars>>

\* validate_order_book_update, for update i with or without nonces.
AnyOffset(i, named) == named /\ nonce # None => i - 1 = nonce
AnyNonce(i, named) == i > offset

Validates(i, named) ==
    /\ i > offset
    /\ named /\ nonce # None => i - 1 = nonce

\* update_lighter_order_book: update i's levels on the sides named; what was
\* cached goes when a level changed.
ApplyLevels(i, sides) ==
    /\ book' = [s \in Sides |-> IF s \in sides THEN i ELSE book[s]]
    /\ cache' = IF book' = book THEN cache ELSE NotCached

\* update/order_book.  The exchange may repeat updates at will; it may omit
\* some only where the code can tell: where both nonces are there.
Update(i, named, whole) ==
    /\ conn = "streaming" /\ ready
    /\ i <= offset + 1 \/ (named /\ nonce # None)
    /\ Validates(i, named)
    /\ IF whole
         THEN /\ ApplyLevels(i, Changed(i))
              /\ offset' = i
              /\ nonce' = IF named THEN i ELSE nonce
              /\ Notify
              /\ UNCHANGED conn
         ELSE /\ "asks" \in Changed(i)
              /\ ApplyLevels(i, Changed(i) \ {"asks"})
              /\ conn' = "torn"
              /\ UNCHANGED <<offset, nonce, signalVars, loopVars>>
    /\ UNCHANGED <<feed, ready, fills, drainVars>>

\* An update that does not follow: announced, then the book is reset.
Gap(i, named) ==
    /\ conn = "streaming" /\ ready
    /\ ~Validates(i, named)
    /\ Notify
    /\ Reset
    /\ conn' = "down"
    /\ UNCHANGED <<feed, fills, drainVars>>

\* An update ahead of the snapshot is announced and not applied.
Ahead ==
    /\ conn = "streaming" /\ ~ready
    /\ feed # <<>>
    /\ Notify
    /\ UNCHANGED <<feed, conn, bookVars, fills, drainVars>>

Stream ==
    \/ Disconnect
    \/ Reconnect
    \/ \E v \in 0..Len(feed), named, whole \in BOOLEAN : Snapshot(v, named, whole)
    \/ \E i \in DOMAIN feed, named, whole \in BOOLEAN : Update(i, named, whole)
    \/ \E i \in DOMAIN feed, named \in BOOLEAN : Gap(i, named)
    \/ Ahead

-----------------------------------------------------------------------------
(* Waiting for the signal                                                  *)

Goto(c, place) == pc' = [pc EXCEPT ![c] = place]

\* wait_for_market_signal: news is taken one turn later (sleep(0)); without
\* any the event is cleared and the loop goes to wait.
Look(c) ==
    /\ pc[c] = "look"
    /\ IF signal # seen[c]
         THEN Goto(c, "yield") /\ UNCHANGED event
         ELSE event' = FALSE /\ Goto(c, "arming")
    /\ UNCHANGED <<feed, conn, bookVars, fills, signal, seen, fillsSeen,
                   drainVars>>

\* The call returns the revision of the moment.  trade_loop then drains,
\* strategy_signal_loop only when the fills' revision is not the one it knows.
Drains(c) == c = "trades" \/ fills # fillsSeen

Return(c) ==
    /\ seen' = [seen EXCEPT ![c] = signal]
    /\ Goto(c, IF Drains(c) THEN "drain" ELSE "frame")
    /\ UNCHANGED <<feed, conn, bookVars, fills, signalVars, fillsSeen, drainVars>>

Yield(c) == pc[c] = "yield" /\ Return(c)

\* asyncio.wait_for of Python 3.11 runs event.wait() as a task of its own, a
\* turn later, so that another loop can come between (3.12's does not).
Arm(c) ==
    /\ pc[c] = "arming"
    /\ Goto(c, IF event THEN "look" ELSE "waiting")
    /\ UNCHANGED <<feed, conn, bookVars, fills, signalVars, seen, fillsSeen,
                   drainVars>>

\* EVENT_SIGNAL_FALLBACK_SECONDS pass without the event.
NoFallback(c) == FALSE
FallsBack(c) == pc[c] = "waiting"
Fallback(c) == FallsBack(c) /\ Return(c)

-----------------------------------------------------------------------------
(* drain_pending_trade_events                                              *)

AnyDrain == TRUE
MayDrain == drainer = "free"

\* The lock is released; only now the strategy notes the fills' revision.
Leave(c) ==
    /\ drainer' = "free"
    /\ batch' = [batch EXCEPT ![c] = <<>>]
    /\ UNCHANGED <<full, processed>>
    /\ IF c = "trades"
         THEN Goto(c, "look") /\ UNCHANGED fillsSeen
         ELSE Goto(c, "frame") /\ fillsSeen' = fills

\* process_variational_trade_event starts with the first fill of what is left
\* of a batch, unless the cursor has passed it, and suspends.
Start(c, left) ==
    /\ drainer' = c
    /\ batch' = [batch EXCEPT ![c] = left]
    /\ processed' = IF Head(left) > cursor'
                      THEN Append(processed, Head(left)) ELSE processed
    /\ Goto(c, "process")
    /\ UNCHANGED fillsSeen

\* get_trade_events_since(trade_event_cursor, limit)
Fetch(c) ==
    LET end == cursor' + BatchLimit
        last == IF fills < end THEN fills ELSE end
    IN  IF last <= cursor'
          THEN Leave(c)
          ELSE /\ Start(c, [i \in 1..(last - cursor') |-> cursor' + i])
               /\ full' = [full EXCEPT ![c] = last = end]

Lock(c) ==
    /\ pc[c] = "drain" /\ MayDrain
    /\ UNCHANGED cursor
    /\ Fetch(c)
    /\ UNCHANGED <<feed, conn, bookVars, fills, signalVars, seen>>

\* A fill is processed and the cursor moves.  After the last of a full batch
\* the rest is fetched, after that of a shorter one the drain is over.
Process(c) ==
    /\ pc[c] = "process"
    /\ cursor' = IF Head(batch[c]) > cursor THEN Head(batch[c]) ELSE cursor
    /\ IF Len(batch[c]) > 1 THEN Start(c, Tail(batch[c])) /\ UNCHANGED full
       ELSE IF full[c] THEN Fetch(c)
       ELSE Leave(c)
    /\ UNCHANGED <<feed, conn, bookVars, fills, signalVars, seen>>

\* current_adaptive_market_frame: with a book that can be used, the executions
\* of both sides are read through the cache, which keeps them.
Usable == ready /\ nonce # None

Execution(s) == IF cache[s] # None THEN cache[s] ELSE book[s]

Frame(c) ==
    /\ pc[c] = "frame"
    /\ cache' = IF Usable THEN [s \in Sides |-> Execution(s)] ELSE cache
    /\ Goto(c, "look")
    /\ UNCHANGED <<feed, conn, book, offset, nonce, ready, fills, signalVars,
                   seen, fillsSeen, drainVars>>

-----------------------------------------------------------------------------
Step(c) ==
    \/ Look(c) \/ Yield(c) \/ Arm(c) \/ Fallback(c)
    \/ Process(c) \/ Frame(c)

Next ==
    \/ Trade \/ Quote \/ Fill
    \/ Stream
    \/ \E c \in Loops : Step(c) \/ Lock(c)

\* The event loop runs what is ready and fires its timers; asyncio.Lock serves
\* those who wait in turn.  Nothing is assumed of the exchanges.
Fairness == \A c \in Loops : WF_vars(Step(c)) /\ SF_vars(Lock(c))

Spec == Init /\ [][Next]_vars /\ Fairness

-----------------------------------------------------------------------------
\* Every variable has its type; the holder of the drain lock, and only it, has a batch.
TypeOK ==
    /\ feed \in Seq([Sides -> 0..MaxUpdates]) /\ Len(feed) <= MaxUpdates
    /\ conn \in {"streaming", "down", "torn"}
    /\ book \in [Sides -> 0..MaxUpdates] /\ offset \in 0..Len(feed)
    /\ nonce \in {None} \union 0..offset
    /\ ready \in BOOLEAN /\ event \in BOOLEAN
    /\ cache \in [Sides -> {None} \union 0..MaxUpdates]
    /\ fills \in 0..MaxFills /\ signal \in 0..MaxSignals
    /\ pc \in [Loops -> {"look", "yield", "arming", "waiting", "drain",
                         "process", "frame"}]
    /\ seen \in [Loops -> 0..signal] /\ fillsSeen \in 0..fills
    /\ drainer \in Loops \union {"free"}
    /\ \A c \in Loops : /\ batch[c] \in Seq(1..fills)
                        /\ pc[c] = "process" <=> batch[c] # <<>>
                        /\ pc[c] = "process" <=> drainer = c
    /\ full \in [Loops -> BOOLEAN]
    /\ cursor \in 0..fills /\ processed \in Seq(1..fills)

\* What a frame computed now would be made of is the exchange's book as it was
\* after the update whose offset is kept, on both sides: neither an omitted or
\* repeated update nor an execution cached from an older book is in it.  The
\* second in which a failed update leaves the book half applied is excepted.
FrameIsFeed ==
    Usable /\ conn # "torn" => \A s \in Sides : Execution(s) = LevelAt(s, offset)

\* Although two loops drain the same list, each fill is processed once and in
\* the order reported, and the cursor is past a fill only when that is done.
DrainedOnce ==
    /\ processed = [i \in 1..Len(processed) |-> i]
    /\ Len(processed) = IF \E c \in Loops : pc[c] = "process"
                          THEN cursor + 1 ELSE cursor

\* Both loops see every notification in the end, whichever of them cleared the
\* event they share, and every fill is processed.
NewsArrives ==
    /\ \A c \in Loops : []<>(seen[c] = signal)
    /\ []<>(cursor = fills)
=============================================================================
