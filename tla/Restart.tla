------------------------------ MODULE Restart -------------------------------
(***************************************************************************)
(* The state file, and what a restart makes of it (main.py).               *)
(*                                                                         *)
(* The runtime writes one file, data of its memory: the records that are   *)
(* not settled, the pending Var intent and the pause.  A handler changes   *)
(* the memory and waits in persist_runtime_state, beside other handlers;   *)
(* a write is a snapshot taken under _state_write_lock, which replaces the *)
(* file later.  The process may end at any moment and leaves the file and  *)
(* what it has sent to both exchanges.  The next one loads the file, asks  *)
(* Variational's portfolio for the pending order and Lighter for orders it *)
(* may have sent, and reconciles.                                          *)
(*                                                                         *)
(* Every trade is of one unit; Variational's fill events, Lighter's        *)
(* reports and the coroutines are as in VarIntent and LighterHedge, less   *)
(* the orders of arrival those modules are about.                          *)
(***************************************************************************)
EXTENDS Integers, FiniteSets, SequencesExt

CONSTANTS
    MaxTrades,      \* bound: Var orders of the runtime and manual closes
    MaxCrashes,     \* bound: how often the process ends, by a crash or in order
    MaxTries,       \* lighter_hedge_max_attempts
    Unfilled,       \* kinds of orders whose accepted Commit may stay unexecuted
    Overtakes,      \* kinds of orders whose fill event may precede the answer
    Manual          \* whether the operator closes a position by hand, while paused

ASSUME ConstantsAssumption ==
    /\ {MaxTrades, MaxCrashes} \subseteq Nat /\ MaxTries \in Nat \ {0}
    /\ Unfilled \subseteq {"open", "close"} /\ Overtakes \subseteq {"open", "close"}
    /\ Manual \in BOOLEAN

VARIABLES
    trades,     \* Variational: every order and manual trade, and what became of it
    events,     \* fill events the runtime has not processed
    lighter,    \* Lighter: what became of each client order id
    refilled,   \* history: an order id was filled a second time
    mem,        \* records, pending_var_intent, automation_pause_reason
    ready,      \* automation_ready
    order,      \* where the strategy's coroutine is suspended
    follow,     \* the record whose hedge the event drain decides after its write
    retry,      \* the record the report writer queues again after its write
    waiting,    \* who waits in persist_runtime_state
    writes,     \* snapshots taken and not yet on disk
    file,       \* runtime_state.json
    start,      \* how far the start is: "down", a stage, or "up"
    crashes

truth == <<trades, lighter, refilled>>
saving == <<waiting, writes, file>>
runtime == <<ready, order, follow, retry>>
process == <<start, crashes>>
vars == <<trades, events, lighter, refilled, mem, ready, order, follow, retry,
          waiting, writes, file, start, crashes>>

-----------------------------------------------------------------------------
Numbers == 1..MaxTrades
Ids == Numbers \X {"hedge", "undo"} \X (0 .. MaxTries + MaxCrashes)
Trade == [kind : {"open", "close"}, auto : BOOLEAN,
          state : {"quoted", "sent", "accepted", "executed", "void"}]
Intent == [n : Numbers, provisional : BOOLEAN, confirmed : BOOLEAN,
           state : {"quoting", "prepared", "committing", "ambiguous", "committed", "restored"}]
Record == [n : Numbers, kind : {"open", "close", "undo"}, auto : BOOLEAN,
           src : {"commit", "event", "portfolio", "unconfirmed", "undo"},
           hedge : {"none", "waiting", "queued", "submitting", "submitted", "was",
                    "retrying", "filled", "error", "check", "required", "skipped"},
           ids : Seq(Ids), reserved : BOOLEAN, final : SUBSET Ids, filled : BOOLEAN]
State == [records : Seq(Record), intent : Intent \cup {<<>>}, paused : {"-", "recon", "lacks", "other"}]
Empty == [records |-> <<>>, intent |-> <<>>, paused |-> "-"]
Savers == {"order", "feed", "report", "dog", "start"} \X {0}
          \cup {"task"} \X (Nat \ {0})

\* Every variable has its type, on disk as in memory.
TypeOK ==
    /\ trades \in Seq(Trade) /\ Len(trades) <= MaxTrades /\ events \subseteq Numbers
    /\ lighter \in [Ids -> {"none", "sent", "filled", "dead"}] /\ refilled \in BOOLEAN
    /\ {mem, file} \subseteq State /\ ready \in BOOLEAN
    /\ order \in {"idle", "marked", "prepared", "sent"}
    /\ {follow, retry} \subseteq 0 .. Len(mem.records)
    /\ waiting \subseteq Savers
    /\ \A w \in writes : w.by \in waiting /\ w.state \in State
    /\ start \in {"down", "inspect", "prepare", "probe", "finish", "reconcile", "up"}
    /\ crashes \in 0..MaxCrashes

Init ==
    /\ trades = <<>> /\ events = {} /\ lighter = [i \in Ids |-> "none"] /\ refilled = FALSE
    /\ mem = Empty /\ ready = TRUE /\ order = "idle" /\ follow = 0 /\ retry = 0
    /\ waiting = {} /\ writes = {} /\ file = Empty /\ start = "up" /\ crashes = 0

-----------------------------------------------------------------------------
(* Rounds: what is open, and what is settled *)

Priced(r) == r.src \in {"commit", "event", "portfolio"}

\* build_trade_rounds: the open record (its index, or 0) after each of them ...
Completes(records, open, i) ==
    Priced(records[i]) /\ open # 0 /\ records[open].kind # records[i].kind
NextOpen(records, open, i) ==
    IF ~Priced(records[i]) THEN open ELSE IF Completes(records, open, i) THEN 0 ELSE i
OpenAfter(records) ==
    LET Open[i \in 0..Len(records)] == IF i = 0 THEN 0 ELSE NextOpen(records, Open[i - 1], i)
    IN  Open

CurrentOpen(records) == OpenAfter(records)[Len(records)]

\* ... and the completed pairs
Rounds(records) ==
    LET open == OpenAfter(records)
    IN  {<<open[i - 1], i>> : i \in {j \in DOMAIN records : Completes(records, open[j - 1], j)}}

Complete(r) == r.src \in {"event", "portfolio"} /\ r.hedge = "filled"

\* mutant: a leg that is complete is dropped without its partner
CompleteLegs(records) ==
    LET Legs == {i \in DOMAIN records : Complete(records[i])}
    IN  {i \in Legs : \E p \in Rounds(records) : i \in {p[1], p[2]}}

Settled(records) ==
    UNION {{p[1], p[2]} : p \in {q \in Rounds(records) :
                                    Complete(records[q[1]]) /\ Complete(records[q[2]])}}

\* runtime_recovery_records: the records that are left, up to each of them
KeptAfter(records, settled) ==
    LET Kept[i \in 0..Len(records)] ==
            IF i = 0 THEN <<>>
            ELSE IF i \in settled THEN Kept[i - 1] ELSE Append(Kept[i - 1], records[i])
    IN  Kept
Unfinished(records) == KeptAfter(records, Settled(records))[Len(records)]

RecordOf(records, n) ==
    LET Mine == {i \in DOMAIN records : records[i].n = n /\ records[i].kind # "undo"}
    IN  IF Mine = {} THEN 0 ELSE CHOOSE i \in Mine : \A j \in Mine : i <= j

ReservedId(n) == <<n, "hedge", 0>>
IdsOf(r) == Range(r.ids) \cup (IF r.reserved THEN {ReservedId(r.n)} ELSE {})
Role(r) == IF r.kind = "undo" THEN "undo" ELSE "hedge"

-----------------------------------------------------------------------------
(* The state file *)

Snapshot == [mem EXCEPT !.records = Unfinished(mem.records)]

\* The caller goes on only when its write has landed.
Persist(who) == waiting' = waiting \cup {<<who, 0>>} /\ UNCHANGED <<writes, file>>
NoSave == UNCHANGED saving
Written(who) == <<who, 0>> \notin waiting

\* mutant: snapshots are taken although a write is under way
AnyTime == TRUE
LockFree == writes = {}

TakeSnapshot(w) ==
    /\ w \in waiting /\ LockFree
    /\ \A x \in writes : x.by # w
    /\ writes' = writes \cup {[by |-> w, state |-> Snapshot]}
    /\ UNCHANGED <<truth, events, mem, runtime, waiting, file, process>>

\* _write_json_atomic: the new file replaces the old one as a whole.
Land(x) ==
    /\ file' = x.state
    /\ writes' = writes \ {x} /\ waiting' = waiting \ {x.by}
    /\ UNCHANGED <<truth, events, mem, runtime, process>>

-----------------------------------------------------------------------------
(* The exchanges *)

Position == Cardinality({n \in DOMAIN trades : trades[n].kind = "open" /\ trades[n].state = "executed"})
          - Cardinality({n \in DOMAIN trades : trades[n].kind = "close" /\ trades[n].state = "executed"})

\* Lighter's position against Variational's: hedged opens less hedged closes, undone ones not.
Hedges(kind, role) ==
    Cardinality({i \in Ids : lighter[i] = "filled" /\ i[2] = role /\ trades[i[1]].kind = kind})
Hedged == Hedges("open", "hedge") - Hedges("close", "hedge")
          - Hedges("open", "undo") + Hedges("close", "undo")

VarExecutes(n) ==
    /\ trades[n].state \in {"sent", "accepted"}
    /\ trades' = [trades EXCEPT ![n].state = "executed"]
    /\ events' = IF start = "down" THEN events ELSE events \cup {n}
    /\ UNCHANGED <<lighter, refilled, mem, runtime, saving, process>>

\* Variational does not execute it: refused, lost, or accepted in vain.
VarDrops(n) ==
    /\ \/ trades[n].state = "sent"
       \/ trades[n].state = "accepted" /\ trades[n].kind \in Unfilled
    /\ trades' = [trades EXCEPT ![n].state = "void"]
    /\ UNCHANGED <<events, lighter, refilled, mem, runtime, saving, process>>

LighterExecutes(i) ==
    /\ lighter[i] = "sent"
    /\ \E s \in {"filled", "dead"} : lighter' = [lighter EXCEPT ![i] = s]
    /\ UNCHANGED <<trades, refilled, events, mem, runtime, saving, process>>

\* The operator closes, by hand, a hedged position while the automation is paused.
OperatorCloses ==
    /\ Manual /\ Len(trades) < MaxTrades /\ start = "up" /\ mem.paused # "-" /\ events = {}
    /\ mem.intent = <<>> /\ Position = 1 /\ Hedged = 1 /\ CurrentOpen(mem.records) # 0
    /\ trades' = Append(trades, [kind |-> "close", auto |-> FALSE, state |-> "executed"])
    /\ events' = {Len(trades')}
    /\ UNCHANGED <<lighter, refilled, mem, runtime, saving, process>>

-----------------------------------------------------------------------------
(* The strategy's order *)

\* A reason whose text the next start does not recognise loses its owner: "lacks".
PauseFor(reason) == IF mem.paused = "other" THEN "other" ELSE reason

Busy == {"queued", "submitting", "submitted", "was", "retrying"}
\* _auto_var_order_inflight: until the coroutine's last write has landed
OrderInflight == order # "idle" \/ ~Written("order")
\* mutant: a pending intent without a hedge under way does not count
OrderOrHedge == OrderInflight \/ \E i \in DOMAIN mem.records : mem.records[i].hedge \in Busy
TransitionInProgress ==
    mem.intent # <<>> \/ OrderInflight \/ \E i \in DOMAIN mem.records : mem.records[i].hedge \in Busy
CurrentIntent == mem.intent # <<>> /\ mem.intent.n = Len(trades)

\* mark_and_persist_var_intent
MarkIntent ==
    /\ start = "up" /\ ready /\ mem.paused = "-" /\ ~TransitionInProgress
    /\ Len(trades) < MaxTrades /\ order' = "marked"
    /\ LET open == CurrentOpen(mem.records)
       IN  trades' = Append(trades, [kind |-> IF open = 0 THEN "open" ELSE "close",
                                     auto |-> TRUE, state |-> "quoted"])
    /\ mem' = [mem EXCEPT !.intent = [n |-> Len(trades'), state |-> "quoting",
                                      provisional |-> FALSE, confirmed |-> FALSE]]
    /\ Persist("order")
    /\ UNCHANGED <<events, lighter, refilled, ready, follow, retry, process>>

\* The firm quote has come: the order gets Lighter's deterministic id, and is written.
PrepareIntent ==
    /\ order = "marked" /\ Written("order") /\ CurrentIntent
    /\ mem' = [mem EXCEPT !.intent.state = "prepared"]
    /\ order' = "prepared" /\ Persist("order")
    /\ UNCHANGED <<truth, events, ready, follow, retry, process>>

\* The quote fails, or the order may not be committed any more.
GiveUp ==
    /\ order \in {"marked", "prepared"} /\ Written("order")
    /\ mem' = IF CurrentIntent THEN [mem EXCEPT !.intent = <<>>] ELSE mem
    /\ trades' = [trades EXCEPT ![Len(trades)].state = "void"]
    /\ order' = "idle" /\ Persist("order")
    /\ UNCHANGED <<events, lighter, refilled, ready, follow, retry, process>>

\* The last gate, and the Commit; this change of the intent is not written first.
SendCommit ==
    /\ order = "prepared" /\ Written("order") /\ CurrentIntent
    /\ mem.intent.state = "prepared" /\ mem.paused = "-"
    /\ mem' = [mem EXCEPT !.intent.state = "committing"]
    /\ trades' = [trades EXCEPT ![Len(trades)].state = "sent"]
    /\ order' = "sent"
    /\ NoSave /\ UNCHANGED <<events, lighter, refilled, ready, follow, retry, process>>

Answered == order = "sent" /\ order' = "idle"

NewRecord(n, src) ==
    [n |-> n, kind |-> trades[n].kind, auto |-> trades[n].auto, src |-> src, hedge |-> "none",
     ids |-> <<>>, reserved |-> trades[n].auto, final |-> {}, filled |-> FALSE]

\* start_committed_var_hedge, for a Commit whose fill has been bound to it already
AcceptedMerges ==
    /\ Answered /\ CurrentIntent /\ mem.intent.confirmed
    /\ LET i == RecordOf(mem.records, Len(trades))
       IN  mem' = [mem EXCEPT !.intent = <<>>, !.records[i].hedge = "queued"]
    /\ NoSave /\ UNCHANGED <<truth, events, ready, follow, retry, process>>

\* ... and otherwise: a provisional record, hedged before Variational has confirmed it.
\* Nothing is written here: the prepared intent on disk carries the id of the hedge.
AcceptedProvisional ==
    /\ Answered /\ CurrentIntent /\ ~mem.intent.confirmed
    /\ trades[Len(trades)].state \in {"sent", "executed"}
    /\ trades' = [trades EXCEPT ![Len(trades)].state = IF @ = "sent" THEN "accepted" ELSE @]
    /\ mem' = [mem EXCEPT !.records = Append(@, [NewRecord(Len(trades), "commit")
                                                    EXCEPT !.hedge = "queued"]),
                          !.intent.state = "committed", !.intent.provisional = TRUE]
    /\ NoSave /\ UNCHANGED <<events, lighter, refilled, ready, follow, retry, process>>

Refused ==
    /\ Answered /\ trades[Len(trades)].state = "void"
    /\ mem' = IF CurrentIntent THEN [mem EXCEPT !.intent = <<>>] ELSE mem
    /\ Persist("order")
    /\ UNCHANGED <<truth, events, ready, follow, retry, process>>

\* mark_pending_var_intent_commit_ambiguous: a fill bound to the Commit is released.
Ambiguous ==
    /\ Answered
    /\ mem' = [mem EXCEPT
                 !.paused = "other",
                 !.intent = IF ~CurrentIntent THEN @
                            ELSE IF @.confirmed THEN <<>> ELSE [@ EXCEPT !.state = "ambiguous"],
                 !.records = IF CurrentIntent /\ mem.intent.confirmed
                             THEN [@ EXCEPT ![RecordOf(@, Len(trades))].hedge = "queued"] ELSE @]
    /\ Persist("order")
    /\ UNCHANGED <<truth, events, ready, follow, retry, process>>

\* rollback_unconfirmed_var_commit: what the hedge has filled is undone.
Undo(r) == [r EXCEPT !.kind = "undo", !.src = "undo", !.hedge = "queued", !.ids = <<>>,
                     !.reserved = FALSE, !.final = {}, !.filled = FALSE, !.auto = FALSE]
Undone(records, r) == \E i \in DOMAIN records : records[i].kind = "undo" /\ records[i].n = r.n

RolledBack(m) ==
    LET i == RecordOf(m.records, m.intent.n)
        r == m.records[i]
    IN  [m EXCEPT !.intent = <<>>, !.paused = "other",
                  !.records = [@ EXCEPT ![i].src = "unconfirmed"]
                              \o (IF r.filled THEN <<Undo(r)>> ELSE <<>>)]

\* The watchdog, or a refresh, finds the accepted Commit not executed.
Rollback ==
    /\ start = "up" /\ Written("dog") /\ mem.intent # <<>> /\ mem.intent.provisional
    /\ trades[mem.intent.n].state = "void"
    /\ mem' = RolledBack(mem)
    /\ Persist("dog")
    /\ UNCHANGED <<truth, events, runtime, process>>

\* mark_unconfirmed_var_commit_ambiguous: a Commit that this process saw accepted ("restored":
\* an earlier one) stays unconfirmed, and the portfolio does not tell.
StaysAmbiguous ==
    /\ start = "up" /\ Written("dog") /\ mem.intent # <<>> /\ mem.intent.state = "committed"
    /\ mem' = [mem EXCEPT !.intent.state = "ambiguous", !.paused = PauseFor("lacks")]
    /\ Persist("dog")
    /\ UNCHANGED <<truth, events, runtime, process>>

-----------------------------------------------------------------------------
(* Fill events *)

\* process_variational_trade_event: the record of a fill, created or confirmed
Owned(m, n) == m.intent # <<>> /\ m.intent.n = n
Early(m, n) == Owned(m, n) /\ m.intent.state = "committing"
Entered(m, n, src) ==
    IF Owned(m, n) /\ m.intent.provisional
    THEN [m EXCEPT !.intent = <<>>, !.records[RecordOf(m.records, n)].src = src]
    ELSE IF Early(m, n)
    THEN [m EXCEPT !.intent.confirmed = TRUE,
                   !.records = Append(@, [NewRecord(n, src) EXCEPT !.hedge = "waiting"])]
    ELSE [m EXCEPT !.intent = <<>>, !.records = Append(@, NewRecord(n, src))]

FeedEnters(n) ==
    /\ start = "up" /\ n \in events /\ follow = 0 /\ Written("feed")
    /\ Early(mem, n) => trades[n].kind \in Overtakes
    /\ events' = events \ {n}
    /\ mem' = Entered(mem, n, "event")
    /\ follow' = RecordOf(mem'.records, n)
    /\ Persist("feed")
    /\ UNCHANGED <<truth, ready, order, retry, process>>

\* After the write: the hedge of a new fill; a close only if its open is hedged.
FeedFollows ==
    /\ follow # 0 /\ Written("feed") /\ follow' = 0
    /\ LET r == mem.records[follow]
           mayHedge == \A p \in Rounds(mem.records) :
                          p[2] = follow => mem.records[p[1]].hedge = "filled"
       IN  /\ mem' = IF r.hedge # "none" THEN mem
                     ELSE IF mayHedge THEN [mem EXCEPT !.records[follow].hedge = "queued"]
                     ELSE [mem EXCEPT !.records[follow].hedge = "skipped",
                                      !.paused = PauseFor("recon")]
           /\ IF r.hedge = "none" THEN Persist("feed") ELSE NoSave
    /\ UNCHANGED <<truth, events, ready, order, retry, process>>

-----------------------------------------------------------------------------
(* Hedging *)

NextId(r) == IF r.ids = <<>> /\ r.reserved THEN ReservedId(r.n) ELSE <<r.n, Role(r), Len(r.ids)>>
Occupied(i) == \E j \in DOMAIN mem.records \ {i} : NextId(mem.records[i]) \in IdsOf(mem.records[j])

\* The first attempt of an order whose intent is pending: its id is on disk with the intent.
PreparedPrimary(r) == r.ids = <<>> /\ r.reserved /\ Owned(mem, r.n) /\ mem.intent.state # "quoting"

\* An id that was filled stays filled: a second order is another fill, and takes nothing back.
Reach(id) ==
    /\ lighter' = [lighter EXCEPT ![id] = IF @ = "filled" THEN @ ELSE "sent"]
    /\ refilled' = (refilled \/ lighter[id] = "filled")

\* mutant: the id is sent before it is on disk
NothingToSave(i) == TRUE
IdIsDurable(i) == <<"task", i>> \notin waiting
PersistHedge(i) == waiting' = waiting \cup {<<"task", i>>} /\ UNCHANGED <<writes, file>>

\* place_lighter_order, up to the write before the send, or to the answer of the send
Allocate(i) ==
    /\ mem.records[i].hedge = "queued" /\ <<"task", i>> \notin waiting
    /\ LET r == mem.records[i]
           sends == ~r.filled /\ ~Occupied(i)
       IN  /\ mem' = IF r.filled THEN [mem EXCEPT !.records[i].hedge = "filled"]
                     ELSE IF ~sends THEN [mem EXCEPT !.records[i].hedge = "error",
                                                     !.paused = PauseFor("recon")]
                     ELSE [mem EXCEPT
                             !.records[i].hedge = IF PreparedPrimary(r) THEN "submitted" ELSE "submitting",
                             !.records[i].ids = Append(@, NextId(r))]
           /\ IF r.filled THEN NoSave ELSE PersistHedge(i)
           /\ IF sends /\ PreparedPrimary(r) THEN Reach(NextId(r)) ELSE UNCHANGED <<lighter, refilled>>
    /\ UNCHANGED <<trades, events, runtime, process>>

\* The send and its answer, written in turn.
Send(i) ==
    /\ mem.records[i].hedge = "submitting" /\ IdIsDurable(i)
    /\ Reach(Last(mem.records[i].ids))
    /\ mem' = [mem EXCEPT !.records[i].hedge = "submitted"]
    /\ PersistHedge(i) /\ UNCHANGED <<trades, events, runtime, process>>

\* handle_lighter_fill_update: an order that ended, of a record that knows it or checks for it
Concerns(r, id) ==
    /\ lighter[id] \in {"filled", "dead"} /\ id \notin r.final
    /\ id \in Range(r.ids) \/ (r.hedge = "check" /\ r.ids = <<>> /\ id = ReservedId(r.n))

\* mutant: the attempts are not counted
AnyAttempt(r) == TRUE
MayRetry(r) == Len(r.ids) < MaxTries

Updated(r, id) ==
    LET known == [r EXCEPT !.ids = IF id \in Range(@) THEN @ ELSE Append(@, id),
                           !.final = @ \cup {id}, !.filled = @ \/ lighter[id] = "filled"]
    IN  [known EXCEPT !.hedge = IF known.filled THEN "filled"
                                ELSE IF @ = "submitting" THEN @
                                ELSE IF ~(Range(known.ids) \subseteq known.final) THEN "submitted"
                                ELSE IF MayRetry(known) THEN "retrying" ELSE "error"]

Reports(i, id) ==
    /\ retry = 0 /\ Written("report")
    /\ Concerns(mem.records[i], id)
    /\ LET r == Updated(mem.records[i], id)
           undo == r.src = "unconfirmed" /\ r.filled /\ ~Undone(mem.records, r)
       IN  /\ mem' = [mem EXCEPT
                        !.records = [@ EXCEPT ![i] = r] \o (IF undo THEN <<Undo(r)>> ELSE <<>>),
                        !.paused = IF r.hedge = "error" THEN PauseFor("recon") ELSE @]
           /\ retry' = IF r.hedge = "retrying" /\ r.src # "unconfirmed" THEN i ELSE 0
    /\ Persist("report")
    /\ UNCHANGED <<truth, events, ready, order, follow, process>>

Report(i, id) == start = "up" /\ Reports(i, id)

\* queue_lighter_retry_after_current, after the write of the report
Requeue ==
    /\ retry # 0 /\ Written("report")
    /\ mem' = IF mem.records[retry].hedge = "filled" THEN mem
              ELSE [mem EXCEPT !.records[retry].hedge = "queued"]
    /\ retry' = 0
    /\ NoSave /\ UNCHANGED <<truth, events, ready, order, follow, process>>

-----------------------------------------------------------------------------
(* Reconciliation *)

\* mutant: the accounts are not compared
NeverCompared == TRUE
PositionsMatch ==
    /\ Position = (IF CurrentOpen(mem.records) = 0 THEN 0 ELSE 1)
    /\ Hedged = Position /\ \A i \in Ids : lighter[i] # "sent"

\* A match clears an intent that is still pending, and a pause reconciliation owns.
Reconciled ==
    IF PositionsMatch
    THEN /\ mem' = [mem EXCEPT !.intent = <<>>, !.paused = IF @ = "other" THEN @ ELSE "-"]
         /\ ready' = TRUE
    ELSE /\ mem' = [mem EXCEPT !.paused = PauseFor("recon")]
         /\ ready' = FALSE

\* While running: when nothing is in flight and Variational has settled.
Reconcile ==
    /\ start = "up" /\ ~OrderInflight /\ events = {} /\ follow = 0 /\ retry = 0
    /\ \A n \in DOMAIN trades : trades[n].state \notin {"sent", "accepted"}
    /\ mem.intent # <<>> => mem.intent.state = "ambiguous"
    /\ \A i \in DOMAIN mem.records : mem.records[i].hedge \notin Busy
    /\ Reconciled /\ <<mem', ready'>> # <<mem, ready>>
    /\ Persist("dog")
    /\ UNCHANGED <<truth, events, order, follow, retry, process>>

-----------------------------------------------------------------------------
(* The end of the process and the next start *)

Ends ==
    /\ start # "down" /\ crashes < MaxCrashes
    /\ crashes' = crashes + 1 /\ start' = "down"
    /\ mem' = Empty /\ ready' = FALSE /\ order' = "idle" /\ follow' = 0 /\ retry' = 0
    /\ events' = {} /\ waiting' = {} /\ writes' = {}
    /\ trades' = [n \in DOMAIN trades |->
                    IF trades[n].state = "quoted" THEN [trades[n] EXCEPT !.state = "void"]
                    ELSE trades[n]]
    /\ UNCHANGED <<lighter, refilled>>

Crash == Ends /\ UNCHANGED file

\* An orderly end cancels the coroutines and writes a last time; a Commit that is cancelled
\* has become ambiguous before.
Stop == start = "up" /\ order # "sent" /\ Ends /\ file' = Snapshot

\* The checks of load_runtime_state that a file of this runtime could fail.
IdsAreDistinct(f) ==
    \A i, j \in DOMAIN f.records : i # j => IdsOf(f.records[i]) \cap IdsOf(f.records[j]) = {}

OpenBefore(f, i) == OpenAfter(f.records)[i - 1]
ClosesFollowOpens(f) ==
    \A i \in DOMAIN f.records :
        f.records[i].kind = "close" /\ f.records[i].auto
            => OpenBefore(f, i) # 0 /\ f.records[OpenBefore(f, i)].kind = "open"

ReportsFitIds(f) ==
    \A i \in DOMAIN f.records : LET r == f.records[i]
                               IN  r.final \subseteq Range(r.ids) /\ (r.filled => r.final # {})

Named(f) == IF f.intent.provisional \/ f.intent.confirmed THEN RecordOf(f.records, f.intent.n) ELSE 0
IntentFits(f) ==
    f.intent # <<>> =>
        /\ f.intent.provisional \/ f.intent.confirmed => Named(f) # 0
        /\ f.intent.state \in {"committed", "restored"} => f.intent.provisional
        /\ f.intent.state # "quoting" =>
              /\ \A i \in DOMAIN f.records \ {Named(f)} :
                    ReservedId(f.intent.n) \notin IdsOf(f.records[i])
              /\ trades[f.intent.n].kind = "close" =>
                    OpenBefore(f, IF Named(f) = 0 THEN Len(f.records) + 1 ELSE Named(f)) # 0

Loadable(f) == IdsAreDistinct(f) /\ ClosesFollowOpens(f) /\ ReportsFitIds(f) /\ IntentFits(f)

\* The time of a Commit's acceptance is not in the file.
Restored(state) == IF state = "committing" THEN "ambiguous"
                   ELSE IF state = "committed" THEN "restored" ELSE state

\* What was sent has settled by the time the next process looks (an assumption).
SettledBeforeStart ==
    /\ \A i \in Ids : lighter[i] # "sent"
    /\ \A n \in DOMAIN trades : trades[n].state \notin {"sent", "accepted"}

RestoredRecord(r) == [r EXCEPT !.hedge = IF @ \in {"queued", "submitting"} THEN "was" ELSE @]
Normalized(r) == [r EXCEPT !.hedge = IF r.filled THEN "filled" ELSE @]
RestoredPause(f) ==
    IF f.paused = "lacks" THEN "other"
    ELSE IF f.intent # <<>> /\ f.paused = "-" THEN "recon" ELSE f.paused

Load ==
    /\ start = "down" /\ SettledBeforeStart /\ Loadable(file)
    /\ mem' = [records |-> Unfinished([i \in DOMAIN file.records |->
                                         Normalized(RestoredRecord(file.records[i]))]),
               intent |-> IF file.intent = <<>> THEN <<>>
                          ELSE [file.intent EXCEPT !.state = Restored(@)],
               paused |-> RestoredPause(file)]
    /\ start' = "inspect" /\ Persist("start")
    /\ UNCHANGED <<truth, events, runtime, crashes>>

Stage(from, to) == start = from /\ Written("start") /\ start' = to

\* inspect_pending_var_intent_from_portfolio, for the restored intent
TrackedOpen ==
    CurrentOpen(IF mem.intent.provisional
                THEN [mem.records EXCEPT ![RecordOf(mem.records, mem.intent.n)].src = "unconfirmed"]
                ELSE mem.records)
Outcome ==
    LET kind == trades[mem.intent.n].kind
    IN  IF kind = "close" /\ TrackedOpen = 0 THEN "unknown"
        ELSE IF Position = (IF kind = "open" THEN 1 ELSE 0) THEN "filled" ELSE "unfilled"

\* The portfolio shows it filled: entered, and Lighter is asked for the reserved id.
RecoveredFill ==
    LET m == Entered([mem EXCEPT !.intent.confirmed = FALSE], mem.intent.n, "portfolio")
        i == IF mem.intent.provisional THEN RecordOf(m.records, mem.intent.n) ELSE Len(m.records)
    IN  [m EXCEPT !.records[i].hedge = IF m.records[i].filled THEN "filled" ELSE "check"]

\* The portfolio may be too old to tell: then the intent stays.
Inspect ==
    /\ Stage("inspect", "prepare")
    /\ \/ mem.intent # <<>> /\ Outcome = "filled" /\ mem' = RecoveredFill /\ Persist("start")
       \/ UNCHANGED mem /\ NoSave
    /\ UNCHANGED <<truth, events, runtime, crashes>>

\* prepare_restored_lighter_recovery.  A provisional record "can only reconcile or roll back".
ReduceOnly(r) == r.kind = "close" \/ (r.kind = "undo" /\ trades[r.n].kind = "open")
Unproven(r) == Owned(mem, r.n) /\ mem.intent.provisional /\ r.src = "commit"
Interrupted(r) == r.hedge \in {"none", "was"} /\ ~Unproven(r)

SafeWithoutProbe(r) == r.ids = <<>> /\ ~r.reserved

Resumed(r) ==
    IF ~Interrupted(r) THEN r
    ELSE IF ReduceOnly(r) /\ r.ids = <<>> THEN [r EXCEPT !.hedge = "required"]
    ELSE IF SafeWithoutProbe(r) THEN r
    ELSE [r EXCEPT !.hedge = "check"]

PrepareRestored ==
    /\ Stage("prepare", "probe")
    /\ LET records == [i \in DOMAIN mem.records |-> Resumed(mem.records[i])]
           lacking == {i \in DOMAIN records :
                          records[i].hedge = "required" /\ mem.records[i].hedge # "required"}
       IN  /\ mem' = [mem EXCEPT !.records = records,
                                 !.paused = IF lacking = {} THEN @ ELSE PauseFor("lacks")]
           /\ IF records = mem.records THEN NoSave ELSE Persist("start")
    /\ UNCHANGED <<truth, events, runtime, crashes>>

\* mutant: the id an intent reserved is not asked for
KnownIds(r, id) == r.ids # <<>> /\ (r.hedge \in Busy \/ (r.hedge = "check" /\ id = Last(r.ids)))

\* refresh_pending_lighter_orders: what Lighter knows of the ids is reported ...
Asked(r, id) == r.hedge \in Busy \/ (r.hedge = "check" /\ id = (IF r.ids = <<>> THEN ReservedId(r.n)
                                                               ELSE Last(r.ids)))
ProbeFinds(i, id) == start = "probe" /\ Asked(mem.records[i], id) /\ Reports(i, id)

\* ... and a check for an id it does not know ends.
ProbeEnds ==
    /\ Stage("probe", "finish") /\ retry = 0 /\ Written("report")
    /\ \A i \in DOMAIN mem.records : \A id \in IdsOf(mem.records[i]) :
          ~(Asked(mem.records[i], id) /\ Concerns(mem.records[i], id))
    /\ mem' = [mem EXCEPT !.records = [i \in DOMAIN @ |->
                  IF @[i].hedge = "check" THEN [@[i] EXCEPT !.hedge = "none"] ELSE @[i]]]
    /\ IF mem' = mem THEN NoSave ELSE Persist("start")
    /\ UNCHANGED <<truth, events, runtime, crashes>>

\* The interrupted hedges are scheduled, and a Commit the inspection proved unfilled is
\* rolled back.
StartHedges ==
    /\ Stage("finish", "reconcile")
    /\ LET m == [mem EXCEPT !.records = [i \in DOMAIN @ |->
                    IF Interrupted(@[i]) THEN [@[i] EXCEPT !.hedge = "queued"] ELSE @[i]]]
           unfilled == mem.intent # <<>> /\ mem.intent.provisional /\ Outcome = "unfilled"
       IN  \/ unfilled /\ mem' = RolledBack(m) /\ Persist("start")
           \/ mem' = m /\ NoSave
    /\ UNCHANGED <<truth, events, runtime, crashes>>

ReconcileAtStart ==
    /\ Stage("reconcile", "up")
    /\ Reconciled /\ Persist("dog")
    /\ UNCHANGED <<truth, events, order, follow, retry, crashes>>

-----------------------------------------------------------------------------
Coroutine ==
    \/ MarkIntent \/ PrepareIntent \/ GiveUp \/ SendCommit
    \/ AcceptedMerges \/ AcceptedProvisional \/ Refused \/ Ambiguous
Hedging ==
    \/ \E i \in DOMAIN mem.records : Allocate(i) \/ Send(i) \/ (\E id \in IdsOf(mem.records[i]) : Report(i, id))
    \/ Requeue
Starting ==
    \/ Load \/ Inspect \/ PrepareRestored \/ ProbeEnds \/ StartHedges \/ ReconcileAtStart
    \/ \E i \in DOMAIN mem.records : \E id \in IdsOf(mem.records[i]) : ProbeFinds(i, id)
Exchanges ==
    \/ \E n \in DOMAIN trades : VarExecutes(n) \/ VarDrops(n)
    \/ \E i \in Ids : LighterExecutes(i)
    \/ OperatorCloses

Next ==
    \/ Coroutine \/ Rollback \/ StaysAmbiguous \/ FeedFollows \/ (\E n \in events : FeedEnters(n))
    \/ Hedging \/ Reconcile
    \/ (\E w \in waiting : TakeSnapshot(w)) \/ (\E x \in writes : Land(x))
    \/ Exchanges \/ Crash \/ Stop \/ Starting

Spec == Init /\ [][Next]_vars

-----------------------------------------------------------------------------
(* Properties *)

Filled(n, role) == {i \in {n} \X {role} \X (0 .. MaxTries + MaxCrashes) : lighter[i] = "filled"}

\* A settled trade: both legs of its round are executed and hedged.  A close by hand is
\* entered for an order of the strategy that is pending: the portfolio names no order.
Executed(n) ==
    \/ trades[n].state = "executed"
    \/ \E m \in DOMAIN trades : ~trades[m].auto /\ trades[m].kind = trades[n].kind
Done(n) ==
    \E m \in DOMAIN trades \ {n} :
        /\ trades[n].kind # trades[m].kind /\ Executed(n) /\ Executed(m)
        /\ Filled(n, "hedge") # {} /\ Filled(m, "hedge") # {}

\* Whatever moment the process ends at: the file names every order whose Commit was sent and
\* that may still matter (persist_runtime_state, prepare_pending_var_intent).
NothingForgotten ==
    \A n \in DOMAIN trades :
        trades[n].auto /\ trades[n].state \in {"sent", "accepted", "executed"} /\ ~Done(n)
            => \/ file.intent # <<>> /\ file.intent.n = n
               \/ RecordOf(file.records, n) # 0

\* The next process can ask Lighter for every order that was sent and may still matter: its
\* id is in the file, with the record or as the one reserved by the intent.
OrdersFindable ==
    \A i \in Ids :
        lighter[i] \in {"sent", "filled"} /\ ~Done(i[1])
            => \/ \E k \in DOMAIN file.records : i \in IdsOf(file.records[k])
               \/ file.intent # <<>> /\ file.intent.n = i[1] /\ i = ReservedId(i[1])

\* No order is hedged twice, and no hedge undone twice, over any number of restarts.
HedgedOnce ==
    /\ ~refilled
    /\ \A n \in DOMAIN trades, role \in {"hedge", "undo"} : Cardinality(Filled(n, role)) <= 1

\* A restart never leads to a second open or a second close of a position.
NeverDoubles == Position \in {0, 1}

\* Every file the runtime writes is one its next start accepts (load_runtime_state).
FileLoads == Loadable(file)

\* While a start has not yet found a provisional Commit executed, it sends no new hedge for
\* it: such a record "can only reconcile or roll back an existing Lighter order, never create
\* one" (prepare_restored_lighter_recovery).
Provisional(n) == mem.intent # <<>> /\ mem.intent.n = n /\ mem.intent.provisional
RestoredNeverCreates ==
    [][ \A i \in Ids :
          start \notin {"up", "down"} /\ Provisional(i[1]) /\ i[2] = "hedge"
              => ~(lighter[i] = "none" /\ lighter'[i] = "sent") ]_vars

=============================================================================
