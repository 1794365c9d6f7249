----------------------------- MODULE VarIntent ------------------------------
(***************************************************************************)
(* The Variational side of an order (main.py): one pending VarOrderIntent, *)
(* from the candidate to the fill that is confirmed, and the               *)
(* OrderLifecycle records it leaves.                                       *)
(*                                                                         *)
(* Concurrent actors: the strategy loop that quotes, prepares and commits  *)
(* an open or a close; emergency_flatten_var; the drain of Variational     *)
(* trade events; the intent watchdog, which asks the portfolio; and the    *)
(* hedge tasks, of which only start and end are kept (LighterHedge has the *)
(* rest).  Each step is what an actor does between two points where it is  *)
(* suspended.  Variational is the environment: it executes a Commit late   *)
(* or not at all, whatever its HTTP answer was; its events and portfolio   *)
(* snapshots come late, and events repeatedly; and the operator trades on  *)
(* the same page.                                                          *)
(*                                                                         *)
(* A quantity of 1 is the amount of one order.  The strategy opens to the  *)
(* buy side; the sell side is symmetric.                                   *)
(***************************************************************************)
EXTENDS Integers, Sequences, FiniteSetsExt

CONSTANTS
    MaxIntents,     \* bound: automatic Commits considered
    Mixes,          \* "strategy": it trades alone; "operator": one Commit and one manual trade
    Naming,         \* do Commits' answers name the order (orderId, rfq)? some, all or none
    HedgesFail,     \* may Lighter refuse a hedge?
    StaleSnapshots  \* may a snapshot be older than the flatten it is asked about?

ASSUME BoundAssumption == MaxIntents \in Nat /\ Mixes \subseteq {"strategy", "operator"}
ASSUME ChoiceAssumption == Naming \subseteq BOOLEAN /\ {HedgesFail, StaleSnapshots} \subseteq BOOLEAN

VARIABLES
    intents,        \* every VarOrderIntent so far; an index is its identity
    pending,        \* pending_var_intent: an index, or 0 for None
    records,        \* self.records in record_order
    auto,           \* the strategy loop: where it is, and its intent
    flats,          \* the calls of emergency_flatten_var: the same, and who awaits
    inflight,       \* _auto_var_order_inflight
    feed,           \* drain_pending_trade_events: where it is, and the record
    dog,            \* var_intent_watchdog_loop: the same
    failed,         \* records whose hedge failed, flatten not yet decided
    paused,         \* automation_paused and who owns the pause
    orders,         \* Variational: every order it was asked for
    snap,           \* Variational's latest portfolio snapshot
    mix             \* which of Mixes this behavior has

loops == <<auto, flats, inflight>>
handlers == <<feed, dog, failed>>
state == <<intents, pending, records, loops, handlers, paused, orders, snap>>
vars == <<state, mix>>

-----------------------------------------------------------------------------
(* Types *)

Phases == {"open", "close", "emergency", "recovery", "none"}
Sides == {"buy", "sell"}
Opposite(side) == IF side = "buy" THEN "sell" ELSE "buy"

\* rfq: the intent whose Commit's rfq it expects a fill to name, or 0.
\* soon: it was prepared within two seconds of the last fill before it.
Intent == [phase : Phases, side : Sides, qty : Nat, open : Nat,
           st : {"QUOTING", "PREPARED", "COMMITTING", "COMMITTED", "AMBIGUOUS"},
           accepted : BOOLEAN, rfq : Nat, prov : Nat, confirmed : Nat,
           soon : BOOLEAN]
\* trade: the exchange's order, if known.  quote: the intent of its Firm Quote.
\* at: how many intents there were when the fill that the portfolio showed is dated.
Record == [side : Sides, qty : Nat, phase : Phases, reduce : BOOLEAN, trade : Nat,
           quote : Nat, at : Nat, src : {"http", "event", "portfolio", "unconfirmed"},
           hedge : {"none", "waiting", "hedging", "check", "done", "error",
                    "required", "waitopen", "skipped"}]
\* at: how many intents there were when the order filled.  named: the answer names it.
Order == [intent : Nat, side : Sides, qty : Nat, at : Nat, named : BOOLEAN,
          st : {"sent", "filled", "refused"}]

IntentIds == DOMAIN intents
RecordIds == DOMAIN records
OrderIds == DOMAIN orders

Sign(side) == IF side = "buy" THEN 1 ELSE -1
Sum(S, f(_)) == MapThenSumSet(f, S)
Filled == {o \in OrderIds : orders[o].st = "filled"}
Effect(order) == IF order.st = "filled" THEN Sign(order.side) * order.qty ELSE 0
PositionAfter(placed) ==
    LET upTo[n \in 0..Len(placed)] ==
          IF n = 0 THEN 0 ELSE upTo[n - 1] + Effect(placed[n])
    IN  upTo[Len(placed)]
Position == PositionAfter(orders)
LastFill == Max({0} \cup {orders[o].at : o \in Filled})

TypeOK ==
    /\ intents \in Seq(Intent) /\ records \in Seq(Record) /\ orders \in Seq(Order)
    /\ pending \in {0} \cup IntentIds
    /\ auto.pc \in {"idle", "quote", "prepared", "commit"} /\ auto.id \in {0} \cup IntentIds
    /\ flats \subseteq [pc : {"quote", "prepared", "commit"}, id : IntentIds,
                        by : {"feed", "dog", "task"}]
    /\ inflight \in BOOLEAN
    /\ feed.pc \in {"idle", "follow", "flatten", "unsupported"}
    /\ dog.pc \in {"idle", "follow", "flatten", "refresh", "page"}
    /\ {feed.rec, feed.open, dog.rec, dog.open} \subseteq {0} \cup RecordIds
    /\ dog.id \in {0} \cup IntentIds
    /\ failed \subseteq RecordIds
    /\ paused \in {"none", "reconcile", "automation"}
    /\ snap \in [pos : Int, at : Nat, fresh : BOOLEAN]

FeedIdle == [pc |-> "idle", rec |-> 0, open |-> 0]
DogIdle == [pc |-> "idle", id |-> 0, rec |-> 0, open |-> 0]

IntentBound == IF mix = "operator" THEN 1 ELSE MaxIntents

Init ==
    /\ intents = <<>> /\ pending = 0 /\ records = <<>> /\ orders = <<>>
    /\ auto = [pc |-> "idle", id |-> 0]
    /\ flats = {}
    /\ inflight = FALSE /\ feed = FeedIdle /\ dog = DogIdle /\ failed = {}
    /\ paused = "none" /\ snap = [pos |-> 0, at |-> 0, fresh |-> TRUE]
    /\ mix \in Mixes

PauseForReconciliation(p) == IF p = "automation" THEN p ELSE "reconcile"

\* build_trade_rounds pairs the confirmed records in their order; the last one
\* that is not closed is the tracked position.
NextOpen(recs, excluded, open, r) ==
    IF recs[r].src = "unconfirmed" \/ r = excluded THEN open
    ELSE IF open = 0 \/ recs[open].side = recs[r].side THEN r
    ELSE IF recs[open].qty = recs[r].qty THEN 0
    ELSE open
OpenAfter(recs, excluded) ==
    LET open[r \in 0..Len(recs)] ==
          IF r = 0 THEN 0 ELSE NextOpen(recs, excluded, open[r - 1], r)
    IN  open[Len(recs)]
CurrentOpen == OpenAfter(records, 0)

\* schedule_lighter_order, when the record's hedge has not been started.
Scheduled(recs, r) == [recs EXCEPT ![r].hedge = "hedging"]

ClearAny(id) == 0                                     \* mutant: no identity check
\* clear_matching_var_intent, forced, for one identical intent.
ClearSame(id) == IF pending = id THEN 0 ELSE pending

\* Only a fill of its own side could be taken for the intent's.
Soon(side) == IF \E o \in Filled : orders[o].at = Len(intents) /\ orders[o].side = side
              THEN BOOLEAN ELSE {FALSE}
NewIntent(phase, side, qty, open, soon) ==
    [phase |-> phase, side |-> side, qty |-> qty, open |-> open, st |-> "QUOTING",
     accepted |-> FALSE, rfq |-> 0, prov |-> 0, confirmed |-> 0, soon |-> soon]

-----------------------------------------------------------------------------
(* The strategy loop: _evaluate_auto_open_once and _evaluate_auto_close_once *)

CanSubmitAnyway ==                                    \* mutant: pending not asked
    auto.pc = "idle" /\ paused = "none" /\ Len(intents) < IntentBound

CanSubmit == /\ auto.pc = "idle" /\ ~inflight /\ paused = "none" /\ pending = 0
             /\ \A r \in RecordIds : records[r].hedge # "hedging"
             /\ Len(intents) < IntentBound

Submit(phase, side, qty, open) ==
    /\ \E soon \in Soon(side) :
          intents' = Append(intents, NewIntent(phase, side, qty, open, soon))
    /\ pending' = Len(intents) + 1
    /\ auto' = [pc |-> "quote", id |-> Len(intents) + 1]
    /\ inflight' = TRUE
    /\ snap' = [snap EXCEPT !.fresh = FALSE]
    /\ UNCHANGED <<records, flats, handlers, paused, orders>>

SubmitOpen == CanSubmit /\ CurrentOpen = 0 /\ snap.pos = 0 /\ Submit("open", "buy", 1, 0)
\* A position that no Commit opened (strategy_tag "manual") is left to the operator.
SubmitClose ==
    /\ CanSubmit /\ CurrentOpen # 0 /\ records[CurrentOpen].hedge = "done"
    /\ records[CurrentOpen].quote # 0
    /\ LET open == records[CurrentOpen]
       IN  Submit("close", Opposite(open.side), open.qty, CurrentOpen)

\* The close branch gives up on a tracked position whose hedge does not come.
StalledOpen ==
    /\ CanSubmit /\ CurrentOpen # 0 /\ records[CurrentOpen].hedge # "done"
    /\ paused' = "reconcile"
    /\ UNCHANGED <<intents, pending, records, loops, handlers, orders, snap>>

\* The Firm Quote fails or is rejected.
AutoQuoteFails ==
    /\ auto.pc = "quote"
    /\ pending' = ClearSame(auto.id)
    /\ auto' = [pc |-> "idle", id |-> 0] /\ inflight' = FALSE
    /\ UNCHANGED <<intents, records, flats, handlers, paused, orders, snap>>

\* prepare_pending_var_intent, for exactly the intent that was marked.
MayPrepare(id) == pending = id /\ intents[id].st = "QUOTING"
Prepare(id) == intents' = [intents EXCEPT ![id].st = "PREPARED"]
AutoPrepare ==
    /\ auto.pc = "quote" /\ MayPrepare(auto.id) /\ Prepare(auto.id)
    /\ auto' = [auto EXCEPT !.pc = "prepared"]
    /\ UNCHANGED <<pending, records, flats, inflight, handlers, paused, orders, snap>>

\* pending_var_commit_precondition_error finds nothing, and the Commit goes out.
StillOpen(id) == CurrentOpen = intents[id].open       \* for an open: still flat
Unpaused == paused = "none"
MayCommit(id) == /\ pending = id /\ intents[id].st = "PREPARED"
                 /\ Unpaused /\ StillOpen(id)
Dispatch(id) ==
    /\ intents' = [intents EXCEPT ![id].st = "COMMITTING"]
    /\ \E named \in (IF mix = "operator" THEN BOOLEAN ELSE Naming) :
          orders' = Append(orders, [intent |-> id, side |-> intents[id].side, st |-> "sent",
                             qty |-> intents[id].qty, at |-> 0, named |-> named])
AutoCommit ==
    /\ auto.pc = "prepared" /\ MayCommit(auto.id) /\ Dispatch(auto.id)
    /\ auto' = [auto EXCEPT !.pc = "commit"]
    /\ UNCHANGED <<pending, records, flats, inflight, handlers, paused, snap>>

AutoCommitRefused ==
    /\ auto.pc \in {"quote", "prepared"}
    /\ IF auto.pc = "quote" THEN ~MayPrepare(auto.id) ELSE ~MayCommit(auto.id)
    /\ pending' = ClearSame(auto.id)
    /\ auto' = [pc |-> "idle", id |-> 0] /\ inflight' = FALSE
    /\ UNCHANGED <<intents, records, flats, handlers, paused, orders, snap>>

-----------------------------------------------------------------------------
(* The answer to a Commit *)

OrderOf(id) == CHOOSE o \in OrderIds : orders[o].intent = id
Named(id) == orders[OrderOf(id)].named
\* The rfq that it names goes to whatever intent is pending by then.
Rfq == IF Named(auto.id) THEN auto.id ELSE 0
RfqNoted == intents' = IF pending = 0 THEN intents
                       ELSE [intents EXCEPT ![pending].rfq = Rfq]
AutoEnds == /\ auto' = [pc |-> "idle", id |-> 0] /\ inflight' = FALSE
            /\ UNCHANGED <<flats, handlers, orders>>

\* A record of a confirmed fill that start_committed_var_hedge takes for this
\* Commit's: the one the intent was told of, or the latest that looks like it.
LooksLike(r, id) ==
    /\ records[r].side = intents[id].side /\ records[r].qty = intents[id].qty
    /\ records[r].src \in {"event", "portfolio"}
    /\ records[r].phase = intents[id].phase
    /\ records[r].quote \in {0, id}
    /\ Named(id) => records[r].trade \in {0, OrderOf(id)}
Candidates(id) ==
    LET known == IF pending # 0 THEN intents[pending].confirmed ELSE 0
    IN  IF known # 0 THEN {known} ELSE {r \in RecordIds : LooksLike(r, id)}

\* The answer releases a fill that has waited for it.
Released(hedge) == IF hedge = "waiting" THEN "none" ELSE hedge

\* The fill that was seen before the answer is another order's.
AutoAcceptedMismatch ==
    /\ auto.pc = "commit" /\ orders[OrderOf(auto.id)].st \in {"sent", "filled"}
    /\ pending # 0 /\ intents[pending].confirmed # 0
    /\ Named(auto.id) /\ records[intents[pending].confirmed].trade \notin {0, OrderOf(auto.id)}
    /\ records' = [records EXCEPT ![intents[pending].confirmed].hedge = "required"]
    /\ intents' = [intents EXCEPT ![pending].accepted = @ \/ pending = auto.id,
                                   ![pending].rfq = auto.id]
    /\ paused' = "automation" /\ snap' = [snap EXCEPT !.fresh = FALSE]
    /\ AutoEnds /\ UNCHANGED pending

\* A confirmed fill is there already: the Commit's metadata goes to its record.
AutoAcceptedMerge ==
    /\ auto.pc = "commit" /\ orders[OrderOf(auto.id)].st \in {"sent", "filled"}
    /\ Candidates(auto.id) # {}
    /\ LET r     == Max(Candidates(auto.id))
           mine  == pending # 0 /\ intents[pending].side = intents[auto.id].side
                                /\ intents[pending].phase = intents[auto.id].phase
           hedge == Released(records[r].hedge)
       IN  /\ Named(auto.id) => records[r].trade \in {0, OrderOf(auto.id)}
           /\ records' = [records EXCEPT ![r].quote = auto.id,
                            ![r].hedge = IF mine /\ hedge = "none" THEN "hedging"
                                         ELSE hedge]
           /\ pending' = IF mine THEN 0 ELSE pending
    /\ RfqNoted /\ AutoEnds /\ UNCHANGED <<paused, snap>>

\* No fill yet: a provisional record, whose hedge starts at once.
AutoAcceptedProvisional ==
    /\ auto.pc = "commit" /\ orders[OrderOf(auto.id)].st \in {"sent", "filled"}
    /\ pending = auto.id /\ Candidates(auto.id) = {}
    /\ records' = Append(records,
         [side |-> intents[auto.id].side, qty |-> intents[auto.id].qty,
          phase |-> intents[auto.id].phase, reduce |-> intents[auto.id].phase # "open",
          trade |-> IF Named(auto.id) THEN OrderOf(auto.id) ELSE 0, quote |-> auto.id,
          at |-> 0, src |-> "http", hedge |-> "hedging"])
    /\ intents' = [intents EXCEPT ![auto.id] = [@ EXCEPT !.st = "COMMITTED",
                     !.accepted = TRUE, !.rfq = Rfq, !.prov = Len(records) + 1]]
    /\ snap' = [snap EXCEPT !.fresh = FALSE]
    /\ AutoEnds /\ UNCHANGED <<pending, paused>>

\* Another handler has taken the intent away, and no record looks like the fill.
AutoAcceptedOrphan ==
    /\ auto.pc = "commit" /\ orders[OrderOf(auto.id)].st \in {"sent", "filled"}
    /\ pending # auto.id /\ Candidates(auto.id) = {}
    /\ RfqNoted /\ AutoEnds /\ UNCHANGED <<pending, records, paused, snap>>

\* A definitive failure.
AutoFailed ==
    /\ auto.pc = "commit" /\ orders[OrderOf(auto.id)].st = "refused"
    /\ pending' = ClearSame(auto.id)
    /\ AutoEnds /\ UNCHANGED <<intents, records, paused, snap>>

\* mark_pending_var_intent_commit_ambiguous: a fill seen before the answer is
\* released to be hedged; an emergency close is left to reconciliation.
MarkAmbiguous(id) ==
    IF pending # id \/ intents[id].st # "COMMITTING"
    THEN UNCHANGED <<intents, pending, records>>
    ELSE LET r == intents[id].confirmed
             release == r # 0 /\ records[r].hedge = "waiting"
             hedge == IF intents[id].phase = "emergency" THEN "required" ELSE "hedging"
         IN  /\ intents' = [intents EXCEPT ![id].st = "AMBIGUOUS"]
             /\ records' = IF release THEN [records EXCEPT ![r].hedge = hedge] ELSE records
             /\ pending' = IF release THEN 0 ELSE pending

\* A timeout, a disconnect or an exception: whatever becomes of the order.
AutoAmbiguous ==
    /\ auto.pc = "commit" /\ MarkAmbiguous(auto.id)
    /\ paused' = "automation"
    /\ AutoEnds /\ UNCHANGED snap

-----------------------------------------------------------------------------
(* emergency_flatten_var of record r, awaited by the feed, the watchdog or a task *)

FlattenStarts(r, by) ==
    /\ ~records[r].reduce /\ pending = 0 /\ CurrentOpen = r
    /\ Len(intents) < IntentBound
    /\ \E soon \in Soon(Opposite(records[r].side)) :
          intents' = Append(intents, NewIntent("emergency", Opposite(records[r].side),
                                               records[r].qty, r, soon))
    /\ pending' = Len(intents) + 1
    /\ flats' = flats \cup {[pc |-> "quote", id |-> Len(intents) + 1, by |-> by]}
    /\ inflight' = TRUE /\ UNCHANGED paused
    /\ snap' = [snap EXCEPT !.fresh = @ /\ StaleSnapshots]

\* It has nothing to do, or cannot: another position, or no command channel.
FlattenReturns(r) ==
    /\ UNCHANGED <<intents, pending, flats, inflight, snap>>
    /\ \/ (records[r].reduce \/ pending # 0) /\ UNCHANGED paused
       \/ ~records[r].reduce /\ pending = 0 /\ paused' = "automation"

FlatGoes(t, pc) == /\ flats' = (flats \ {t}) \cup {[t EXCEPT !.pc = pc]}
                   /\ UNCHANGED <<pending, records, auto, inflight, handlers, paused, snap>>
FlatEnds(t) == /\ flats' = flats \ {t} /\ inflight' = FALSE
               /\ feed' = IF t.by = "feed" THEN FeedIdle ELSE feed
               /\ dog' = IF t.by = "dog" THEN DogIdle ELSE dog
               /\ UNCHANGED <<auto, failed, orders>>

FlatQuoteFails(t) ==
    /\ t.pc = "quote"
    /\ pending' = ClearSame(t.id) /\ paused' = "automation"
    /\ FlatEnds(t) /\ UNCHANGED <<intents, records, snap>>

FlatPrepare(t) ==
    /\ t.pc = "quote" /\ MayPrepare(t.id) /\ Prepare(t.id)
    /\ FlatGoes(t, "prepared") /\ UNCHANGED orders

\* The pause does not stop it: it is the pause's own remedy.
FlatMayCommit(id) == pending = id /\ intents[id].st = "PREPARED" /\ StillOpen(id)
FlatCommit(t) ==
    /\ t.pc = "prepared" /\ FlatMayCommit(t.id) /\ Dispatch(t.id)
    /\ FlatGoes(t, "commit")

FlatRefused(t) ==
    /\ t.pc \in {"quote", "prepared"}
    /\ IF t.pc = "quote" THEN ~MayPrepare(t.id) ELSE ~FlatMayCommit(t.id)
    /\ pending' = ClearSame(t.id) /\ paused' = "automation"
    /\ FlatEnds(t) /\ UNCHANGED <<intents, records, snap>>

\* The order's fill, or the portfolio, completes it.
FlatAccepted(t) ==
    /\ t.pc = "commit" /\ orders[OrderOf(t.id)].st \in {"sent", "filled"}
    /\ IF pending = t.id
       THEN intents' = [intents EXCEPT ![t.id].accepted = TRUE]
            /\ snap' = [snap EXCEPT !.fresh = FALSE]
       ELSE UNCHANGED <<intents, snap>>
    /\ FlatEnds(t) /\ UNCHANGED <<pending, records, paused>>

FlatFailed(t) ==
    /\ t.pc = "commit" /\ orders[OrderOf(t.id)].st = "refused"
    /\ pending' = ClearSame(t.id) /\ paused' = "automation"
    /\ FlatEnds(t) /\ UNCHANGED <<intents, records, snap>>

FlatAmbiguous(t) ==
    /\ t.pc = "commit" /\ MarkAmbiguous(t.id)
    /\ paused' = "automation"
    /\ FlatEnds(t) /\ UNCHANGED snap

-----------------------------------------------------------------------------
(* process_variational_trade_event, up to its first suspension *)

\* An event is [trade, side, qty, at, recovered]; the last for those that the
\* watchdog makes from the portfolio.
FillOf(o) == [trade |-> o, side |-> orders[o].side, qty |-> orders[o].qty,
              at |-> orders[o].at, recovered |-> FALSE]

\* var_event_matches_intent: only a Commit that was dispatched owns a fill, one at
\* most two seconds older than its intent, of its quantity and, if known, its order.
Bindable(id, e) == \/ intents[id].st \in {"COMMITTING", "AMBIGUOUS", "COMMITTED"}
                   \/ e.recovered /\ intents[id].st = "PREPARED"
Matches(id, e) ==
    /\ Bindable(id, e)
    /\ e.side = intents[id].side /\ e.qty = intents[id].qty
    /\ e.at >= id \/ (intents[id].soon /\ e.at = id - 1)
    /\ ~e.recovered /\ intents[id].rfq # 0 => orders[e.trade].intent = intents[id].rfq

ByTrade(e) == {r \in RecordIds : records[r].trade = e.trade /\ e.trade # 0
                                 /\ records[r].src # "unconfirmed"}
NeverRecovered(e) == {}                               \* mutant: no deduplication
\* A fill that the portfolio has shown already, at about the same time.
Recovered(e) ==
    {r \in RecordIds :
        /\ ~e.recovered /\ records[r].src = "portfolio"
        /\ records[r].side = e.side /\ records[r].qty = e.qty
        /\ \/ records[r].at - e.at \in 0..1
           \/ orders[e.trade].intent # 0 /\ orders[e.trade].intent = records[r].quote}
Known(e) == Recovered(e) # {} \/ \E r \in RecordIds : records[r].trade = e.trade
                                                      /\ e.trade # 0

IsPrecommit == pending # 0 /\ intents[pending].st \in {"QUOTING", "PREPARED"}
MayBeManual == pending = 0 \/ IsPrecommit
ManualClose(e) == /\ MayBeManual /\ CurrentOpen # 0
                  /\ records[CurrentOpen].side # e.side
                  /\ records[CurrentOpen].qty = e.qty
ManualOpen(e) == MayBeManual /\ CurrentOpen = 0 /\ ~Known(e) /\ ~e.recovered
PendingMatches(e) == pending # 0 /\ Matches(pending, e)
Unsupported(e) == /\ ~e.recovered /\ ~Known(e) /\ ~PendingMatches(e)
                  /\ ~ManualOpen(e) /\ ~ManualClose(e)

\* A manual change that cannot be hedged safely: a record that asks for recovery.
\* The pause follows when it is written.
RecordUnsupported(e) ==
    /\ Unsupported(e)
    /\ records' = Append(records,
         [side |-> e.side, qty |-> e.qty, phase |-> "recovery", reduce |-> FALSE,
          trade |-> e.trade, quote |-> 0, at |-> 0, src |-> "event", hedge |-> "required"])

\* The intent that is left after a manual fill has cancelled a candidate.
Left(e) == IF IsPrecommit /\ (ManualOpen(e) \/ ManualClose(e)) THEN 0 ELSE pending
Bound(e) == IF Left(e) # 0 /\ Matches(Left(e), e) THEN Left(e) ELSE 0
WaitsForCommit(id) == id # 0 /\ intents[id].st = "COMMITTING" /\ ~intents[id].accepted
MatchedOpen(e) ==
    IF CurrentOpen # 0 /\ records[CurrentOpen].side # e.side THEN CurrentOpen ELSE 0

RecordBeyond(e) == Len(records) + 2                   \* mutant: the wrong index
\* The record a fill belongs to: its own, the provisional one of its Commit, the
\* one the portfolio recovered, or a new one.
Provisional(e) == IF Bound(e) # 0 THEN intents[Bound(e)].prov ELSE 0
RecordFor(e) ==
    IF ByTrade(e) # {} THEN Max(ByTrade(e))
    ELSE IF Provisional(e) # 0 THEN Provisional(e)
    ELSE IF Recovered(e) # {} THEN Max(Recovered(e))
    ELSE Len(records) + 1

FreshRecord(e) ==
    [side |-> e.side, qty |-> e.qty, reduce |-> MatchedOpen(e) # 0, trade |-> e.trade,
     phase |-> IF ManualOpen(e) THEN "open" ELSE IF ManualClose(e) THEN "close" ELSE "none",
     quote |-> 0, at |-> 0, src |-> "event", hedge |-> "none"]

\* _apply_intent_metadata_locked and the hedge the fill asks for.
WithIntent(rec, id, e) ==
    LET phase == IF rec.phase = "none" THEN intents[id].phase ELSE rec.phase
    IN  [rec EXCEPT !.phase = phase,
           !.quote = IF @ = 0 THEN id ELSE @,
           !.reduce = @ \/ intents[id].phase # "open",
           !.hedge = IF WaitsForCommit(id) THEN "waiting"
                     ELSE IF e.recovered /\ intents[id].phase # "emergency" /\ @ # "done"
                     THEN "check" ELSE @]

\* The pair <<record, is the fill new to it>> for a fill at index r.
Filling(e, r) ==
    LET isNew == r > Len(records)
        old   == IF isNew THEN FreshRecord(e) ELSE records[r]
        meta  == IF Bound(e) # 0 THEN WithIntent(old, Bound(e), e) ELSE old
        sets  == isNew \/ old.src = "http" \/ (r \in Recovered(e) /\ ByTrade(e) = {})
    IN  IF sets
        THEN <<[meta EXCEPT !.src = IF e.recovered THEN "portfolio" ELSE "event",
                  !.at = IF e.recovered THEN e.at ELSE 0, !.side = e.side, !.qty = e.qty,
                  !.trade = IF e.trade = 0 THEN @ ELSE e.trade,
                  !.reduce = @ \/ MatchedOpen(e) # 0], TRUE>>
        ELSE <<meta, FALSE>>

\* The fill is entered.
Process(e) ==
    LET r    == RecordFor(e)
        fill == Filling(e, r)
        id   == Bound(e)
        keep == ~fill[2] \/ WaitsForCommit(id)
    IN  /\ ~Unsupported(e)
        /\ records' = IF r > Len(records) THEN Append(records, fill[1])
                      ELSE [records EXCEPT ![r] = fill[1]]
        /\ intents' = IF WaitsForCommit(id)
                      THEN [intents EXCEPT ![id].confirmed = r] ELSE intents
        /\ pending' = IF keep THEN Left(e) ELSE 0
        /\ paused'  = IF ~keep /\ id = 0 /\ Left(e) # 0
                      THEN PauseForReconciliation(paused) ELSE paused
\* What is left for after the write: the record, and the position that it closes.
Enters(e) == Filling(e, RecordFor(e))[2]
Entered(e) == IF Enters(e) THEN RecordFor(e) ELSE 0

\* drain_pending_trade_events takes an event, which may be one it has seen before.
FeedProcess(o) ==
    /\ feed.pc = "idle" /\ o \in Filled
    /\ Process(FillOf(o))
    /\ feed' = IF ~Enters(FillOf(o)) THEN FeedIdle
               ELSE [pc |-> "follow", rec |-> Entered(FillOf(o)), open |-> MatchedOpen(FillOf(o))]
    /\ UNCHANGED <<loops, dog, failed, orders, snap>>

FeedUnsupported(o) ==
    /\ feed.pc = "idle" /\ o \in Filled
    /\ RecordUnsupported(FillOf(o))
    /\ feed' = [FeedIdle EXCEPT !.pc = "unsupported"]
    /\ UNCHANGED <<intents, pending, loops, dog, failed, paused, orders, snap>>

FeedPauses ==
    /\ feed.pc = "unsupported"
    /\ paused' = PauseForReconciliation(paused) /\ feed' = FeedIdle
    /\ UNCHANGED <<intents, pending, records, loops, dog, failed, orders, snap>>

\* After the write: the hedge of record r is started, or held back when the hedge
\* of the position it closes is not complete.
StartHedge(r, open) ==
    LET before == IF open = 0 THEN "done" ELSE records[open].hedge
    IN  \/ /\ records[r].hedge # "none" /\ UNCHANGED <<records, paused>>
        \/ /\ records[r].hedge = "none" /\ before = "done"
           /\ records' = Scheduled(records, r) /\ UNCHANGED paused
        \/ /\ records[r].hedge = "none" /\ before = "hedging"
           /\ records' = [records EXCEPT ![r].hedge = "waitopen"]
           /\ paused' = "automation"
        \/ /\ records[r].hedge = "none" /\ before \notin {"done", "hedging"}
           /\ records' = [records EXCEPT ![r].hedge = "skipped"]
           /\ paused' = PauseForReconciliation(paused)

NeedsFlatten(r) == records[r].hedge = "error" /\ ~records[r].reduce

FeedFollows ==
    /\ feed.pc = "follow" /\ ~NeedsFlatten(feed.rec)
    /\ StartHedge(feed.rec, feed.open) /\ feed' = FeedIdle
    /\ UNCHANGED <<intents, pending, loops, dog, failed, orders, snap>>

FeedFlattens ==
    /\ feed.pc = "follow" /\ NeedsFlatten(feed.rec)
    /\ \/ FlattenStarts(feed.rec, "feed") /\ feed' = [feed EXCEPT !.pc = "flatten"]
       \/ FlattenReturns(feed.rec) /\ feed' = FeedIdle
    /\ UNCHANGED <<records, auto, dog, failed, orders>>

-----------------------------------------------------------------------------
(* var_intent_watchdog_loop *)

\* inspect_pending_var_intent_from_portfolio: what the snapshot says of intent id.
\* Before its answer a Commit is not judged, and after it by no older snapshot.
\* Otherwise a snapshot of the last two seconds will do for an intent that is one
\* second old: as the strategy waits before it submits again, that may be one from
\* before the position's fill only for a flatten, which follows at once.
Inspectable(id) == /\ id # 0 /\ snap.fresh
                   /\ intents[id].st = "COMMITTING" => intents[id].accepted
TrackedOpen(id) == OpenAfter(records, intents[id].prov)
OpenQty(id) == records[TrackedOpen(id)].qty
ShowsFilled(id) ==
    /\ Inspectable(id)
    /\ IF intents[id].phase = "open" THEN snap.pos > 0
       ELSE TrackedOpen(id) # 0 /\ snap.pos = 0
ShowsNotFilled(id) ==
    /\ Inspectable(id)
    /\ IF intents[id].phase = "open" THEN snap.pos = 0
       ELSE /\ TrackedOpen(id) # 0
            /\ snap.pos = Sign(records[TrackedOpen(id)].side) * OpenQty(id)

\* The event it makes of the position it sees: an open's carries the exchange's
\* time, a close's the present one.
Shown(id) ==
    [trade |-> IF intents[id].prov # 0 /\ Named(id) THEN OrderOf(id) ELSE 0,
     side |-> intents[id].side,
     qty |-> IF intents[id].phase = "open" THEN snap.pos ELSE OpenQty(id),
     at |-> IF intents[id].phase = "open" THEN snap.at ELSE Len(intents),
     recovered |-> TRUE]

DogRecovers ==
    /\ dog.pc \in {"idle", "refresh", "page"}
    /\ ShowsFilled(pending) /\ (dog.pc = "page" => pending = dog.id)
    /\ Process(Shown(pending))
    /\ dog' = [pc |-> "follow", id |-> pending, rec |-> Entered(Shown(pending)),
                open |-> MatchedOpen(Shown(pending))]
    /\ UNCHANGED <<loops, feed, failed, orders, snap>>

\* After the write it starts the hedge, and the intent is cleared in any case.
DogFollows ==
    /\ dog.pc = "follow" /\ (dog.rec # 0 => ~NeedsFlatten(dog.rec))
    /\ IF dog.rec = 0 THEN UNCHANGED <<records, paused>> ELSE StartHedge(dog.rec, dog.open)
    /\ pending' = ClearSame(dog.id) /\ dog' = DogIdle
    /\ UNCHANGED <<intents, loops, feed, failed, orders, snap>>

\* With a failed hedge it flattens; the intent is gone by then.
DogFlattens ==
    /\ dog.pc = "follow" /\ dog.rec # 0 /\ NeedsFlatten(dog.rec)
    /\ \/ FlattenStarts(dog.rec, "dog") /\ dog' = [dog EXCEPT !.pc = "flatten"]
       \/ FlattenReturns(dog.rec) /\ dog' = DogIdle
    /\ UNCHANGED <<records, auto, feed, failed, orders>>

\* An accepted Commit is not confirmed in time: the orders are refreshed, ...
DogTimeout ==
    /\ dog.pc = "idle" /\ pending # 0 /\ intents[pending].accepted
    /\ ~ShowsFilled(pending)
    /\ dog' = [DogIdle EXCEPT !.pc = "refresh", !.id = pending]
    /\ UNCHANGED <<intents, pending, records, loops, feed, failed, paused, orders, snap>>

\* ... if need be the page too, ...
DogRefreshesPage ==
    /\ dog.pc = "refresh" /\ ~ShowsFilled(pending) /\ ~ShowsNotFilled(pending)
    /\ dog' = [dog EXCEPT !.pc = "page"]
    /\ UNCHANGED <<intents, pending, records, loops, feed, failed, paused, orders, snap>>

\* ... and the Commit's outcome is decided: rollback_unconfirmed_var_commit or
\* mark_unconfirmed_var_commit_ambiguous.  Both act on that very intent only.
CanRollback(id) == /\ pending = id /\ intents[id].prov # 0
                   /\ records[intents[id].prov].src = "http"
Rollback(id) ==
    /\ records' = [records EXCEPT ![intents[id].prov].src = "unconfirmed"]
    /\ pending' = 0 /\ paused' = "automation" /\ UNCHANGED intents
Spins(id) == UNCHANGED <<intents, records, pending, paused>>   \* mutant: no outcome

StaysAmbiguous(id) ==
    /\ UNCHANGED <<records, pending>>
    /\ IF pending = id /\ intents[id].accepted
       THEN /\ intents' = [intents EXCEPT ![id] = [@ EXCEPT !.st = "AMBIGUOUS",
                                                            !.accepted = FALSE]]
            /\ paused' = PauseForReconciliation(paused)
       ELSE UNCHANGED <<intents, paused>>

DogDecides ==
    /\ \/ /\ dog.pc \in {"refresh", "page"} /\ ShowsNotFilled(pending)
          /\ IF CanRollback(dog.id) THEN Rollback(dog.id) ELSE StaysAmbiguous(dog.id)
       \/ /\ dog.pc = "page" /\ pending = dog.id
          /\ ~ShowsFilled(pending) /\ ~ShowsNotFilled(pending)
          /\ StaysAmbiguous(dog.id)
       \/ /\ dog.pc = "page" /\ pending # dog.id /\ ~ShowsNotFilled(pending)
          /\ UNCHANGED <<intents, records, pending, paused>>
    /\ dog' = DogIdle
    /\ UNCHANGED <<loops, feed, failed, orders, snap>>

\* expire_pending_var_intent: the intent is kept.
DogExpires ==
    /\ dog.pc = "idle" /\ pending # 0 /\ ~intents[pending].accepted
    /\ ~ShowsFilled(pending) /\ paused = "none"
    /\ paused' = "automation"
    /\ UNCHANGED <<intents, pending, records, loops, handlers, orders, snap>>

-----------------------------------------------------------------------------
(* The hedge tasks: LighterHedge, from outside *)

\* A complete open lets the close behind it go.
LateClose(recs, r) ==
    LET later == {c \in DOMAIN recs : c > r /\ recs[c].side # recs[r].side}
    IN  IF later # {} /\ recs[Min(later)].hedge \in {"waitopen", "skipped"}
        THEN Scheduled(recs, Min(later)) ELSE recs
Hedged == {r \in RecordIds : records[r].hedge = "done" /\ records[r].src # "unconfirmed"}
LighterPosition == -Sum(Hedged, LAMBDA r : Sign(records[r].side) * records[r].qty)
\* Lighter takes no reduce-only order that would do more than close its position.
HedgeCompletes(r) ==
    /\ records[r].hedge = "hedging"
    /\ records[r].reduce => Sign(records[r].side) * LighterPosition >= records[r].qty
    /\ records' = LateClose([records EXCEPT ![r].hedge = "done"], r)
    /\ UNCHANGED <<intents, pending, loops, handlers, paused, orders, snap>>

\* The reserved client order id was never used: the hedge is sent.
CheckResolves(r) ==
    /\ records[r].hedge = "check" /\ records' = Scheduled(records, r)
    /\ UNCHANGED <<intents, pending, loops, handlers, paused, orders, snap>>

HedgeFails(r) ==
    /\ records[r].hedge = "hedging" /\ HedgesFail
    /\ records' = [records EXCEPT ![r].hedge = "error"]
    /\ failed' = failed \cup {r}
    /\ paused' = PauseForReconciliation(paused)
    /\ UNCHANGED <<intents, pending, loops, feed, dog, orders, snap>>

\* When that is written: emergency_flatten_var.
FailureFlattens(r) ==
    /\ r \in failed /\ failed' = failed \ {r}
    /\ FlattenStarts(r, "task") \/ FlattenReturns(r)
    /\ UNCHANGED <<records, auto, feed, dog, orders>>

\* Both accounts match what is tracked: a pause of the reconciliation ends.
Tracked == IF CurrentOpen = 0 THEN 0
           ELSE Sign(records[CurrentOpen].side) * records[CurrentOpen].qty
Resume ==
    /\ paused = "reconcile" /\ pending = 0 /\ ~inflight
    /\ \A r \in RecordIds : records[r].hedge # "hedging"
    /\ snap.fresh /\ snap.pos = Tracked /\ LighterPosition = -Tracked
    /\ paused' = "none"
    /\ UNCHANGED <<intents, pending, records, loops, handlers, orders, snap>>

-----------------------------------------------------------------------------
(* Variational and its operator *)

Executes(o) ==
    /\ orders[o].st = "sent"
    /\ orders' = [orders EXCEPT ![o] = [@ EXCEPT !.st = "filled", !.at = Len(intents)]]
    /\ UNCHANGED <<intents, pending, records, loops, handlers, paused, snap>>

Refuses(o) ==
    /\ orders[o].st = "sent" /\ orders' = [orders EXCEPT ![o].st = "refused"]
    /\ UNCHANGED <<intents, pending, records, loops, handlers, paused, snap>>

ManualTrade(side) ==
    /\ mix = "operator" /\ \A o \in OrderIds : orders[o].intent # 0
    /\ orders' = Append(orders, [intent |-> 0, side |-> side, qty |-> 1,
                 at |-> Len(intents), st |-> "filled", named |-> FALSE])
    /\ UNCHANGED <<intents, pending, records, loops, handlers, paused, snap>>

Snapshot ==
    /\ snap' = [pos |-> Position, at |-> LastFill, fresh |-> TRUE] /\ snap' # snap
    /\ UNCHANGED <<intents, pending, records, loops, handlers, paused, orders>>

-----------------------------------------------------------------------------
Strategy == \/ SubmitOpen \/ SubmitClose \/ StalledOpen \/ AutoQuoteFails \/ AutoPrepare
            \/ AutoCommit \/ AutoCommitRefused \/ AutoAcceptedMismatch \/ AutoAcceptedMerge
            \/ AutoAcceptedProvisional \/ AutoAcceptedOrphan \/ AutoFailed \/ AutoAmbiguous
EmergencyStep(t) == \/ FlatQuoteFails(t) \/ FlatPrepare(t) \/ FlatCommit(t)
                    \/ FlatRefused(t) \/ FlatAccepted(t) \/ FlatFailed(t) \/ FlatAmbiguous(t)
Emergency == \E t \in flats : EmergencyStep(t)
Feed == \/ FeedPauses \/ FeedFollows \/ FeedFlattens
        \/ \E o \in OrderIds : FeedProcess(o) \/ FeedUnsupported(o)
Watchdog == \/ DogRecovers \/ DogFollows \/ DogFlattens \/ DogTimeout \/ DogRefreshesPage
            \/ DogDecides \/ DogExpires
Hedges == Resume \/ \E r \in RecordIds : \/ HedgeCompletes(r) \/ CheckResolves(r)
                                        \/ HedgeFails(r) \/ FailureFlattens(r)
Venue == Snapshot \/ (\E side \in Sides : ManualTrade(side))
                  \/ \E o \in OrderIds : Executes(o) \/ Refuses(o)

Next == /\ Strategy \/ Emergency \/ Feed \/ Watchdog \/ Hedges \/ Venue
        /\ UNCHANGED mix
Spec == Init /\ [][Next]_vars

\* Each request of an actor is answered or times out, and the loops go on.
Fairness ==
    /\ WF_state(Strategy /\ auto.pc # "idle")
    /\ \A id \in 1..MaxIntents : WF_state(\E t \in flats : t.id = id /\ EmergencyStep(t))
    /\ WF_state(FeedPauses \/ FeedFollows \/ FeedFlattens)
    /\ WF_state(Watchdog)
FairSpec == Spec /\ Fairness

-----------------------------------------------------------------------------
(* Safety *)

Automatic(o) == orders[o].intent # 0
NoManual == \A o \in OrderIds : Automatic(o)

\* Left to itself the runtime never opens twice and never closes twice: the
\* position stays between flat and one order, whatever answers, events and
\* snapshots it gets, and whichever of its actors is first.
NeverDoubles == NoManual => Position \in {0, 1}

\* On either side there are no more confirmed records with a hedge than there are fills,
\* and, but for manual trades, no more confirmed records at all.
HedgedRecords(side) == {r \in RecordIds : /\ records[r].side = side
                                         /\ records[r].src \in {"event", "portfolio"}
                                         /\ records[r].hedge \in {"hedging", "check", "done"}}
HedgedOnce ==
    \A side \in Sides : Sum(HedgedRecords(side), LAMBDA r : records[r].qty)
        <= Sum({o \in Filled : orders[o].side = side}, LAMBDA o : orders[o].qty)

\* Nothing is in progress, and every fill has been reported.
AllReported == \A o \in OrderIds : /\ orders[o].st # "sent"
                                   /\ o \in Filled => \E r \in RecordIds : records[r].trade = o
Quiet == /\ auto.pc = "idle" /\ flats = {} /\ feed = FeedIdle /\ dog = DogIdle
         /\ pending = 0 /\ failed = {}
         /\ \A r \in RecordIds : records[r].hedge \notin {"hedging", "check"}
         /\ CurrentOpen # 0 => records[CurrentOpen].hedge = "done"  \* or StalledOpen

\* When the runtime has come to rest and has not called for help, Lighter mirrors
\* Variational: no fill was left without its hedge, and no hedge without its fill.
MirroredAtRest == Quiet /\ AllReported /\ paused = "none" => LighterPosition = -Position

Confirmed(side) == {r \in RecordIds : records[r].side = side
                                      /\ records[r].src \in {"event", "portfolio"}}
ConfirmedIsFilled ==
    NoManual => \A side \in Sides : Sum(Confirmed(side), LAMBDA r : records[r].qty)
        <= Sum({o \in Filled : orders[o].side = side}, LAMBDA o : orders[o].qty)

\* No fill counts twice, although the answer, the event, its repetition and the
\* portfolio may each report it: neither as a hedge, nor as a confirmed record.
FillsCountOnce == HedgedOnce /\ ConfirmedIsFilled

IntentResolves == []<>(pending = 0 \/ paused # "none")
WaitingIsReleased == []<>(\A r \in RecordIds : records[r].hedge # "waiting")

\* A pending intent blocks every further order, so it does not stay for ever without
\* the operator being called: again and again no intent is pending or the runtime is
\* paused; there are finitely many intents, so each one goes.  And a fill that is held
\* back until its Commit is answered is released to be hedged when the answer has come:
\* no record waits for ever, nor for an intent that no longer knows it.
NothingStays == IntentResolves /\ WaitingIsReleased

\* A Commit leaves only when no earlier one may still be executed.
CommitsAreSerial ==
    [][AutoCommit => \A o \in OrderIds : orders[o].st # "sent"]_vars
=============================================================================
