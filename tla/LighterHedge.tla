---------------------------- MODULE LighterHedge ----------------------------
(***************************************************************************)
(* The Lighter hedge of one committed Variational order (main.py).         *)
(*                                                                         *)
(* Three coroutines of the runtime work on one OrderLifecycle record: the  *)
(* hedge task (_run_lighter_order_task / place_lighter_order), the single  *)
(* writer of execution reports (_apply_lighter_fill_update), and the       *)
(* handler of Variational fills.  A step below is what one of them does    *)
(* between two points where it really is suspended: a network round trip,  *)
(* a write to disk in a thread, a sleep or a future.  Taking the record    *)
(* lock is no such point: no coroutine keeps it while it is suspended, and *)
(* asyncio hands a free lock over without a switch.  The exchange and the  *)
(* network are the environment: IOC orders land late or never, fill in     *)
(* parts, and any report that was once true may be delivered again and in  *)
(* any order.                                                              *)
(*                                                                         *)
(* Quantities count Lighter base ticks.  The record starts as              *)
(* start_committed_var_hedge leaves it: Var answered the Commit with HTTP  *)
(* success, its fill is not yet confirmed, and the hedge is queued.  A      *)
(* manual record starts from the fill itself.                              *)
(***************************************************************************)
EXTENDS Naturals, Sequences

CONSTANTS
    FirmQty,        \* quantity of the Firm Quote the hedge starts from
    VarQtys,        \* quantities the confirmed Variational fill may have
    MaxAttempts,    \* strategy_config.lighter_hedge_max_attempts
    Kinds,          \* "open" / "close": adaptive strategy legs; "manual"
    LateLanding     \* may an order the exchange reported absent land later?

ASSUME QtyAssumption == FirmQty \in Nat \ {0} /\ VarQtys \subseteq Nat \ {0}
ASSUME AttemptsAssumption == MaxAttempts \in Nat \ {0}
ASSUME KindAssumption == Kinds \subseteq {"open", "close", "manual"}
ASSUME LandingAssumption == LateLanding \in BOOLEAN

VARIABLES
    \* The record's Variational side.
    kind,           \* the strategy's open or close (record.strategy_tag), or manual
    varQty,         \* record.qty
    varSource,      \* record.var_fill_source
    \* The record's Lighter side.
    hedge,          \* record.hedge_status
    filled,         \* record.lighter_filled_qty
    final,          \* record.lighter_outcome_final
    total,          \* lighter_order_fill_totals, by order of allocation
    terminal,       \* lighter_order_terminal_ids
    absent,         \* history: orders reconciled as CONFIRMED_ABSENT
    correction,     \* record.lighter_qty_correction_scheduled_qty
    rollback,       \* record.lighter_rollback_scheduled_qty
    \* The hedge task and its flags.
    pc, sendQty,
    retryPending,   \* key in lighter_retry_pending_keys
    requeue,        \* key in lighter_requeue_after_task_keys
    \* The writer of reports, the handler of Var fills, the automation pause and
    \* whether emergency_flatten_var went to work on the record's Var position.
    writer, varFollows, paused, emergency,
    \* The exchange: one entry per allocated client order id.
    exch

recordVars == <<kind, varQty, varSource>>
knowledge  == <<filled, final, total, terminal>>
taskVars   == <<pc, sendQty>>
handlers   == <<writer, varFollows>>
flags      == <<retryPending, requeue>>
children   == <<correction, rollback>>
alarms     == <<paused, emergency>>
others     == <<recordVars, absent, children, handlers>>
vars == <<recordVars, hedge, knowledge, absent, children, taskVars, flags,
          handlers, paused, emergency, exch>>

-----------------------------------------------------------------------------
(* Types and small helpers *)

HedgeStatus == {"queued", "submitting", "submitted", "retrying", "uncertain",
                "partial", "filled", "overfilled", "error", "reconciled_flat"}
\* Where the hedge task is suspended.
TaskPc == {"idle", "begin", "sleep", "send", "await", "confirm", "found", "applied",
           "decide", "flatten", "loop"}
OrderState == {"reserved", "inflight", "done", "lost", "rejected"}
Order == [st : OrderState, qty : Nat, done : Nat]

\* What the writer still has to do after it has released the record lock.
NoFollowUp == [busy |-> FALSE, over |-> FALSE, retry |-> FALSE, pause |-> FALSE]
FollowUps == [busy : BOOLEAN, over : BOOLEAN, retry : BOOLEAN, pause : BOOLEAN]

ReduceOnly == kind = "close"
Ids == DOMAIN exch
Newest == Len(exch)             \* record.lighter_client_order_id

\* Orders known to be finished, as set(ids).issubset(lighter_order_terminal_ids).
OneTerminal(term) == Newest \in term                  \* mutant: the newest only
AllTerminal(term) == Ids \subseteq term

\* A correction or a rollback that was scheduled covers a quantity; a later one
\* is scheduled for the difference.
NoRaise(old, new) == old                              \* mutant: never scheduled
RaiseTo(old, new) == IF new > old THEN new ELSE old

TypeOK ==
    /\ kind \in Kinds /\ varQty \in Nat
    /\ varSource \in {"http_commit", "event", "unconfirmed_commit"}
    /\ hedge \in HedgeStatus
    /\ filled \in Nat /\ final \in BOOLEAN
    /\ exch \in Seq(Order) /\ total \in Seq(Nat) /\ Len(total) = Len(exch)
    /\ terminal \subseteq Nat /\ absent \subseteq Nat
    /\ correction \in Nat /\ rollback \in Nat
    /\ pc \in TaskPc /\ sendQty \in Nat
    /\ retryPending \in BOOLEAN /\ requeue \in BOOLEAN
    /\ writer \in FollowUps /\ varFollows \in BOOLEAN
    /\ paused \in {"none", "reconcile", "automation"}
    /\ emergency \in BOOLEAN

Init ==
    /\ kind \in Kinds /\ varQty = FirmQty
    /\ varSource = IF kind = "manual" THEN "event" ELSE "http_commit"
    /\ hedge = "queued" /\ filled = 0 /\ final = FALSE
    /\ total = <<>> /\ terminal = {} /\ absent = {}
    /\ correction = 0 /\ rollback = 0
    /\ pc = "begin" /\ sendQty = 0
    /\ retryPending = FALSE /\ requeue = FALSE
    /\ writer = NoFollowUp /\ varFollows = FALSE
    /\ paused = "none" /\ emergency = FALSE
    /\ exch = <<>>

\* A reconciliation pause never takes over a pause of another owner.
PauseForReconciliation(p) == IF p = "automation" THEN p ELSE "reconcile"
PauseAutomation(p) == "automation"

\* emergency_flatten_var returns early for a reduce-only record and while an
\* intent is pending, and an HTTP commit keeps its intent until confirmed.  An
\* unconfirmed commit is no tracked open: the call only pauses the automation.
FlattenStarts(source) == ~ReduceOnly /\ source = "event"
FlattenPause(p) == IF ~ReduceOnly /\ varSource = "unconfirmed_commit"
                   THEN PauseAutomation(p) ELSE p

\* queue_lighter_retry_after_current: a running task (whose status and program
\* counter become h and p) is asked to go round again, otherwise
\* schedule_lighter_order creates a new one.
RetryUnlessRunning(h, p) ==                           \* mutant: no requeue flag
    /\ retryPending' = TRUE /\ UNCHANGED requeue
    /\ IF pc # "idle" THEN hedge' = h /\ pc' = p ELSE hedge' = "queued" /\ pc' = "begin"
QueueRetry(h, p) ==
    /\ retryPending' = TRUE
    /\ IF pc # "idle"
       THEN hedge' = h /\ pc' = p /\ requeue' = TRUE
       ELSE hedge' = "queued" /\ pc' = "begin" /\ UNCHANGED requeue

-----------------------------------------------------------------------------
(* The hedge task *)

\* With status h nothing is left to do for the hedge.
Resolved(h) == h \in {"filled", "overfilled"} \/ filled = varQty

\* fail_lighter_hedge, up to its write of the state: the hedge had status h.
FailHedge(h) ==
    IF Resolved(h)
    THEN /\ hedge' = IF h = "overfilled" THEN h ELSE "filled"
         /\ pc' = "loop" /\ UNCHANGED paused
    ELSE /\ hedge' = "error" /\ pc' = "flatten"
         /\ paused' = PauseForReconciliation(paused)

\* Top of the loop in _run_lighter_order_task and place_lighter_order up to its
\* first suspension.  Nothing to do: the task ends.
AttemptNothing ==
    /\ pc = "begin" /\ (hedge = "overfilled" \/ filled = varQty)
    /\ hedge' = IF hedge = "overfilled" THEN hedge ELSE "filled"
    /\ pc' = "idle" /\ requeue' = FALSE /\ retryPending' = FALSE
    /\ UNCHANGED <<others, knowledge, sendQty, exch, alarms>>

\* More is filled than wanted: the remainder rounds to zero.
AttemptExceeded ==
    /\ pc = "begin" /\ hedge # "overfilled" /\ filled > varQty
    /\ requeue' = FALSE /\ FailHedge("submitting")
    /\ UNCHANGED <<others, knowledge, sendQty, retryPending, exch, emergency>>

Everything == varQty                                  \* mutant: fills forgotten
Remaining == varQty - filled

\* A client order id is allocated, and the remaining quantity and the order book
\* are read together with it.
Allocate ==
    /\ pc = "begin" /\ hedge # "overfilled" /\ filled < varQty
    /\ requeue' = FALSE /\ final' = FALSE
    /\ sendQty' = Remaining
    /\ exch' = Append(exch, [st |-> "reserved", qty |-> 0, done |-> 0])
    /\ total' = Append(total, 0)

\* The book lets the order pass, if need be by the recovery of an open or a close.
Attempt ==
    /\ Allocate
    /\ terminal' = terminal \ {Len(exch) + 1}
    /\ hedge' = "submitting" /\ retryPending' = FALSE /\ pc' = "send"
    /\ UNCHANGED <<others, filled, alarms>>

\* The book refuses it (price limit, depth, stale data) while attempts are left.
\* The id never reached Lighter: it counts as terminal.
KeepTerminal == terminal \ {Len(exch) + 1}            \* mutant: id not terminal
WithTerminal == terminal \cup {Len(exch) + 1}
GuardedRetry ==
    /\ kind \in {"open", "close"} /\ Newest + 1 < MaxAttempts
    /\ pc = "begin" /\ hedge # "overfilled" /\ filled < varQty
    /\ exch' = Append(exch, [st |-> "reserved", qty |-> 0, done |-> 0])
    /\ total' = Append(total, 0)
    /\ terminal' = WithTerminal
    /\ final' = FALSE /\ sendQty' = Remaining
    /\ hedge' = "retrying" /\ retryPending' = FALSE /\ requeue' = TRUE
    /\ pc' = "sleep"
    /\ UNCHANGED <<others, filled, alarms>>

\* It refuses, and there is no recovery or that is refused too.
GuardedFail ==
    /\ Allocate
    /\ kind = "open" => Newest + 1 >= MaxAttempts
    /\ terminal' = terminal \ {Len(exch) + 1}
    /\ retryPending' = FALSE
    /\ FailHedge("submitting")
    /\ UNCHANGED <<others, filled, emergency>>

Wake ==
    /\ pc = "sleep" /\ pc' = "loop"
    /\ UNCHANGED <<others, hedge, knowledge, sendQty, flags, exch, alarms>>

\* After the durable state is written the signed order leaves the process.
Send ==
    /\ pc = "send"
    /\ exch' = [exch EXCEPT ![Newest] =
                  [st |-> "inflight", qty |-> sendQty, done |-> 0]]
    /\ pc' = "await"
    /\ UNCHANGED <<others, hedge, knowledge, sendQty, flags, alarms>>

\* sendTx is acknowledged, which does not yet mean that the order has landed.
Acknowledged ==
    /\ pc = "await" /\ exch[Newest].st \in {"inflight", "done"}
    /\ hedge' = IF hedge = "submitting" THEN "submitted" ELSE hedge
    /\ pc' = "loop"
    /\ UNCHANGED <<others, knowledge, sendQty, flags, exch, alarms>>

\* The submission raises: a definitive refusal, or a timeout or disconnect after
\* which the order may be anywhere.  A report may have superseded the response.
AnyError == TRUE                                      \* mutant: timeouts included
Definitive == exch[Newest].st = "rejected"
Raised ==
    /\ pc = "await"
    /\ \/ /\ hedge \notin {"submitting", "submitted"}
          /\ pc' = "loop" /\ UNCHANGED <<hedge, paused>>
       \/ /\ hedge \in {"submitting", "submitted"} /\ Definitive
          /\ FailHedge(hedge)
       \/ /\ hedge \in {"submitting", "submitted"}
          /\ hedge' = "uncertain" /\ pc' = "confirm" /\ UNCHANGED paused
    /\ UNCHANGED <<others, knowledge, sendQty, flags, exch, emergency>>

\* The end of fail_lighter_hedge, when the state is written: emergency_flatten_var.
Flatten ==
    /\ pc = "flatten" /\ pc' = "loop"
    /\ paused' = FlattenPause(paused)
    /\ emergency' = (emergency \/ FlattenStarts(varSource))
    /\ UNCHANGED <<others, hedge, knowledge, sendQty, flags, exch>>

GoRound == requeue /\ hedge # "overfilled" /\ filled < varQty

\* Bottom of the loop in _run_lighter_order_task: go round again or end.
Loop ==
    /\ pc = "loop" /\ requeue' = FALSE
    /\ IF GoRound
       THEN hedge' = "retrying" /\ pc' = "begin" /\ UNCHANGED retryPending
       ELSE pc' = "idle" /\ retryPending' = FALSE /\ UNCHANGED hedge
    /\ UNCHANGED <<others, knowledge, sendQty, exch, alarms>>

-----------------------------------------------------------------------------
(* Execution reports: _apply_lighter_fill_update *)

\* Every report carries cumulative totals and was true once.  Streams, order
\* history and trade history deliver them late, repeatedly and out of order; a
\* stream also reports the single matches of an order before its end.
Ending(id) == [done |-> exch[id].done, ended |-> TRUE]
Reports(id) == {Ending(id)} \cup
    [done : {d \in 0..exch[id].done : d < exch[id].qty}, ended : {FALSE}]

\* Older than what is known, or nothing new about a finished order.
StaleIfSame(id, r) ==                                 \* mutant: older totals pass
    r.done = total[id] /\ id \in terminal
Stale(id, r) == r.done < total[id] \/ (r.done = total[id] /\ id \in terminal)

\* An adaptive open may queue one protected recovery after its last attempt.
OpenRecovery == kind = "open" /\ Newest = MaxAttempts
AttemptsLeft == Newest < MaxAttempts \/ OpenRecovery

\* The status a report of order id leaves, given the new sum and terminal ids.
ReportedStatus(r, sum, term) ==
    IF sum > varQty /\ varSource # "unconfirmed_commit" THEN "overfilled"
    ELSE IF sum = varQty THEN "filled"
    ELSE IF r.ended /\ AllTerminal(term)
         THEN IF AttemptsLeft THEN "retrying"
              ELSE IF sum > 0 THEN "partial" ELSE "error"
    ELSE IF sum > 0 THEN "partial" ELSE "submitted"

\* The record's fill: the sum over its orders, with this report.
SumAsDrop(id, r) == filled + (total[id] - r.done)     \* mutant: change reversed
NewSum(id, r) == filled + (r.done - total[id])

\* The critical section, for a report that is not stale.
Apply(id, r) ==
    LET sum    == NewSum(id, r)
        term   == IF r.ended THEN terminal \cup {id} ELSE terminal
        status == ReportedStatus(r, sum, term)
        over   == status = "overfilled"
        failed == /\ r.ended /\ AllTerminal(term)
                  /\ status \notin {"overfilled", "filled"}
        retry  == failed /\ AttemptsLeft /\ varSource # "unconfirmed_commit"
                         /\ ~retryPending
        excess == IF over THEN sum - varQty ELSE 0
    IN  /\ total' = [total EXCEPT ![id] = r.done]
        /\ filled' = sum
        /\ terminal' = term
        /\ final' = AllTerminal(term)
        /\ hedge' = status
        /\ correction' = RaiseTo(correction, excess)
        /\ rollback' = IF varSource = "unconfirmed_commit"
                       THEN RaiseTo(rollback, sum) ELSE rollback
        /\ retryPending' = (retryPending \/ retry)
        /\ writer' = [busy |-> TRUE, over |-> over, retry |-> retry,
                      pause |-> failed /\ ~AttemptsLeft]

\* A report from the private stream, the watchdog's order or trade history.
Report(id) ==
    /\ ~writer.busy /\ exch[id].st = "done"
    /\ \E r \in Reports(id) : ~Stale(id, r) /\ Apply(id, r)
    /\ UNCHANGED <<recordVars, absent, taskVars, requeue, varFollows, exch, alarms>>

\* What the writer does after the state is written; the reply it has now dealt
\* with may be the one the hedge task waits for.
Resumed == IF pc = "applied" THEN "decide" ELSE pc
FollowUp ==
    /\ writer.busy
    /\ writer' = NoFollowUp /\ UNCHANGED varFollows
    /\ \/ /\ writer.over
          /\ paused' = PauseAutomation(paused) /\ pc' = Resumed
          /\ UNCHANGED <<hedge, flags, emergency>>
       \/ /\ (writer.retry \/ writer.pause) /\ Resolved(hedge)
          /\ retryPending' = FALSE /\ pc' = Resumed
          /\ UNCHANGED <<hedge, requeue, alarms>>
       \/ /\ writer.retry /\ ~Resolved(hedge)
          /\ QueueRetry(hedge, Resumed)
          /\ UNCHANGED alarms
       \/ /\ writer.pause /\ ~Resolved(hedge)
          /\ paused' = FlattenPause(PauseForReconciliation(paused))
          /\ emergency' = (emergency \/ FlattenStarts(varSource))
          /\ pc' = Resumed
          /\ UNCHANGED <<hedge, flags>>
       \/ /\ ~writer.over /\ ~writer.retry /\ ~writer.pause
          /\ pc' = Resumed
          /\ UNCHANGED <<hedge, flags, alarms>>
    /\ UNCHANGED <<recordVars, knowledge, absent, children, sendQty, exch>>

-----------------------------------------------------------------------------
(* The hedge task after an uncertain submission *)

\* A report that arrived during the wait has already decided; otherwise the task
\* gives up, retries or fails.
Overtaken == \/ hedge \in {"filled", "queued", "submitting", "submitted", "retrying"}
             \/ hedge = "partial" /\ ~final
DecideOn(outcome) ==
    \/ /\ Overtaken /\ pc' = "loop"
       /\ UNCHANGED <<hedge, flags, paused>>
    \/ /\ ~Overtaken /\ outcome = "UNKNOWN"
       /\ hedge' = "uncertain" /\ paused' = PauseAutomation(paused) /\ pc' = "loop"
       /\ UNCHANGED flags
    \/ /\ ~Overtaken /\ outcome # "UNKNOWN" /\ Newest < MaxAttempts
       /\ QueueRetry("retrying", "loop")
       /\ UNCHANGED paused
    \/ /\ ~Overtaken /\ outcome # "UNKNOWN" /\ Newest >= MaxAttempts
       /\ FailHedge("error")
       /\ UNCHANGED flags

\* reconcile_lighter_client_order reads the active orders, the order history and
\* the trades.  What it finds goes through the single writer, whose queue may hold
\* other reports, ...
ReconcileFound ==
    /\ pc = "confirm" /\ exch[Newest].st = "done" /\ pc' = "found"
    /\ UNCHANGED <<others, hedge, knowledge, sendQty, flags, exch, alarms>>

ApplyReply ==
    /\ pc = "found" /\ ~writer.busy
    /\ IF Stale(Newest, Ending(Newest))
       THEN pc' = "decide"
            /\ UNCHANGED <<hedge, knowledge, children, retryPending, writer>>
       ELSE pc' = "applied" /\ Apply(Newest, Ending(Newest))
    /\ UNCHANGED <<recordVars, absent, sendQty, requeue, varFollows, exch, alarms>>

\* ... and the task goes on when the writer has done all the report asks for.
Decide ==
    /\ pc = "decide" /\ DecideOn("FOUND")
    /\ UNCHANGED <<others, knowledge, sendQty, emergency, exch>>

\* Only the complete history proves absence; the exchange may still be late.
AnyHistory == TRUE                                    \* mutant: a page is enough
ProvenAbsent == \/ exch[Newest].st \in {"lost", "rejected"}
                \/ LateLanding /\ exch[Newest].st = "inflight"

\* The complete history does not hold the order, or it cannot be read.
ReconcileMissing ==
    /\ pc = "confirm"
    /\ \/ /\ ProvenAbsent
          /\ absent' = absent \cup {Newest}
          /\ DecideOn("CONFIRMED_ABSENT")
       \/ UNCHANGED absent /\ DecideOn("UNKNOWN")
    /\ UNCHANGED <<recordVars, knowledge, children, sendQty, handlers, emergency, exch>>

-----------------------------------------------------------------------------
(* Variational's side and the watchdog *)

\* process_variational_trade_event for the fill of this Commit: the quantity is
\* the filled one, the intent is cleared, and a hedge that was complete for the
\* Firm Quote's quantity is topped up or corrected.
VarConfirm(q) ==
    /\ varSource = "http_commit"
    /\ varSource' = "event" /\ varQty' = q /\ varFollows' = TRUE
    /\ IF hedge = "filled" /\ filled < q
       THEN QueueRetry("retrying", pc)
       ELSE UNCHANGED <<hedge, pc, flags>>
    /\ correction' = IF hedge = "filled" /\ filled > q
                     THEN RaiseTo(correction, filled - q) ELSE correction
    /\ UNCHANGED <<kind, knowledge, absent, rollback, sendQty, writer, exch, alarms>>

\* Once the state is persisted the handler flattens an open whose hedge failed
\* before the fill was confirmed.
VarFollowUp ==
    /\ varFollows /\ varFollows' = FALSE
    /\ emergency' = (emergency \/ (hedge = "error" /\ FlattenStarts(varSource)))
    /\ UNCHANGED <<recordVars, hedge, knowledge, absent, children, taskVars, flags,
                   writer, paused, exch>>

\* rollback_unconfirmed_var_commit: no fill was confirmed in time.
Unconfirmed ==
    /\ varSource = "http_commit"
    /\ varSource' = "unconfirmed_commit"
    /\ rollback' = RaiseTo(rollback, filled)
    /\ paused' = PauseAutomation(paused)
    /\ UNCHANGED <<kind, varQty, hedge, knowledge, absent, correction, taskVars, flags,
                   handlers, emergency, exch>>

\* refresh_pending_lighter_orders restores a complete terminal hedge, ...
Normalize ==
    /\ hedge \notin {"filled", "overfilled"}
    /\ final /\ Ids # {} /\ filled = varQty
    /\ hedge' = "filled"
    /\ UNCHANGED <<others, knowledge, taskVars, flags, exch, alarms>>

\* ... and gives up on an order neither the orders nor the trades resolve in time.
TimeOut ==
    /\ hedge \in {"submitted", "uncertain", "partial"}
    /\ Ids # {}
    /\ hedge' = "uncertain" /\ paused' = PauseForReconciliation(paused)
    /\ UNCHANGED <<others, knowledge, taskVars, flags, emergency, exch>>

\* It accepts an unresolved close when both accounts are flat and no order is
\* active.
TotalOf(q) ==
    LET sum[i \in 0..Len(q)] == IF i = 0 THEN 0 ELSE sum[i - 1] + q[i]
    IN  sum[Len(q)]
TrueFill == TotalOf([id \in Ids |-> exch[id].done])
ReconcileFlat ==
    /\ hedge \in {"submitted", "uncertain", "partial"} /\ Ids # {} /\ ReduceOnly
    /\ varSource = "event" /\ varQty = FirmQty /\ TrueFill = FirmQty
    /\ hedge' = "reconciled_flat" /\ final' = TRUE
    /\ terminal' = terminal \cup Ids
    /\ UNCHANGED <<others, filled, total, taskVars, flags, exch, alarms>>

-----------------------------------------------------------------------------
(* The exchange *)

\* A submitted market IOC is refused, is lost on the way, or lands: then it fills
\* at once as far as it can, and its rest is cancelled.
Arrive(id) ==
    /\ exch[id].st = "inflight" /\ (LateLanding \/ id \notin absent)
    /\ \/ \E s \in {"rejected", "lost"} : exch' = [exch EXCEPT ![id].st = s]
       \/ \E d \in 0..exch[id].qty :
             exch' = [exch EXCEPT ![id] = [@ EXCEPT !.st = "done", !.done = d]]
    /\ UNCHANGED <<others, hedge, knowledge, taskVars, flags, alarms>>

-----------------------------------------------------------------------------
Task == \/ AttemptNothing \/ AttemptExceeded \/ Attempt \/ GuardedRetry \/ GuardedFail
        \/ Wake \/ Send \/ Acknowledged \/ Raised \/ Flatten \/ Loop
        \/ ReconcileFound \/ ApplyReply \/ Decide \/ ReconcileMissing
Writer == FollowUp \/ \E id \in Ids : Report(id)
Var == Unconfirmed \/ VarFollowUp \/ \E q \in VarQtys : VarConfirm(q)
Watchdog == Normalize \/ TimeOut \/ ReconcileFlat
Exchange == \E id \in Ids : Arrive(id)

Next == Task \/ Writer \/ Var \/ Watchdog \/ Exchange
Spec == Init /\ [][Next]_vars

\* The event loop runs every coroutine that can go on.  Nothing is assumed of the
\* exchange, the reports it sends or the time of the Variational verdict.
Fairness == /\ WF_vars(Task) /\ WF_vars(FollowUp) /\ WF_vars(VarFollowUp)
            /\ WF_vars(Normalize) /\ WF_vars(TimeOut)
FairSpec == Spec /\ Fairness

-----------------------------------------------------------------------------
(* Safety *)

MayFill == {id \in Ids : exch[id].st = "inflight"}

\* An order whose outcome is unknown is never sent a second time: as long as the
\* exchange keeps its word on absent orders, at most one order can still fill.
\* The three paths that retry (guard, report, reconciliation) must agree on this.
NoBlindResend == ~LateLanding => \A i, j \in MayFill : i = j

\* Over all its attempts the hedge never fills more than the Firm Quote or the
\* confirmed fill asks for, although its target changes under a running attempt.
NoOverfill == ~LateLanding => TrueFill <= FirmQty \/ TrueFill <= varQty

\* The runtime never believes in a fill the exchange did not make, and once it
\* holds an order finished it knows all of its fill.
KnowledgeIsTrue ==
    \A id \in Ids : /\ total[id] <= exch[id].done
                    /\ id \in terminal /\ ~ReduceOnly => total[id] = exch[id].done

\* The record's own sum agrees with the orders: a final outcome is the true one.
FinalIsTrue ==
    /\ filled <= TrueFill
    /\ final /\ ~ReduceOnly => filled = TrueFill

\* Everything that filled for a Commit that never was confirmed is rolled back,
\* whichever comes last: the fill or the verdict.
RollbackCoversFills == varSource = "unconfirmed_commit" => rollback = filled

\* A hedge that calls itself complete has no excess that is not being corrected,
\* whether Variational's fill or Lighter's last report came first.
OverfillIsCorrected ==
    varSource = "event" /\ hedge \in {"filled", "overfilled"} /\ filled > varQty
        => correction = filled - varQty

\* A report never takes back what an earlier one has shown.
ReportsNeverRollBack == [][filled' >= filled]_vars

FlattenBegins == emergency' /\ ~emergency

\* The two remedies exclude each other: Variational is flattened only when Lighter can
\* fill no more, and once it is being flattened no further hedge order leaves.
FlattenIsExclusive == [][/\ FlattenBegins => LateLanding \/ MayFill = {}
                         /\ emergency => ~Send]_vars

\* Variational is flattened for a hedge that fell short of the fill, and for
\* nothing else: the hedge that filled has nothing to be flattened.
FlattenNeedsShortfall == [][FlattenBegins => filled < varQty]_vars

\* At least when Variational filled what its Firm Quote said, the hedge that
\* matched it is never undone, whichever of its orders was uncertain.
MatchedIsNotFlattened ==
    [][FlattenBegins => LateLanding \/ varQty # FirmQty \/ filled < varQty]_vars

\* No task, writer or handler has anything left to do.
Quiet == pc = "idle" /\ ~writer.busy /\ ~varFollows

\* A record does not wait for an order that is known never to have existed.
NeverAwaitsAbsent ==
    Quiet /\ hedge \in {"submitted", "partial"}
        => \E id \in Ids : id \notin terminal \cup absent

(* Liveness *)

\* Every committed order comes to an end: hedged, or handed to the operator, or
\* flattened.  No wake-up between the task, the writer and the handler is lost.
CommitSettles ==
    <>[](\/ hedge \in {"filled", "overfilled", "reconciled_flat"}
         \/ paused # "none" \/ emergency)
=============================================================================
