# Var-Lit V1: a TLA+ model of the two-leg trading runtime

Var-Lit trades one market (BTC) on two venues at once: an order committed on
Variational (through the web page, driven by a Chrome extension) is hedged on
Lighter (through its signed order API). The runtime `src/main.py` is one asyncio
process. Nearly every hazard in it comes from its coroutines interleaving at
`await`, from two venues that answer late, twice, out of order or never, from
a position on one venue whose counterpart on the other is not there yet, and from
a process that ends between two of these steps.

Contents: 1 the system's parts; 2 how the models read the code; 3 the hedge
(`LighterHedge`, `LighterOrderEntry`); 4 the Variational order (`VarIntent`,
`CommandChannel`); 5 the accounts, the process and the market (`Reconcile`, `Restart`,
`Market`); 6 the runs; 7 fairness; 8 the proofs; 9 disagreements found; 10 what is not
modelled; 11 the plan.

## 1. The system's parts

| Component | State it keeps | Operations | Hard behaviour | What makes it correct | Module |
|---|---|---|---|---|---|
| **Lighter hedge** (`place_lighter_order`, `_run_lighter_order_task`, `_apply_lighter_fill_update`, `fail_lighter_hedge`, `reconcile_lighter_client_order`, `refresh_pending_lighter_orders`) | the record's `hedge_status`, `lighter_filled_qty`, fill totals and terminal ids by order, retry and requeue flags, correction and rollback quantities | start an attempt, allocate and withdraw an id, guard, send, handle an error, reconcile, apply a report, queue a retry, fail | reports race the task that sent the order; an uncertain order may have filled; the Variational quantity changes under a running attempt | one live order at most; never more than is asked for; what is known is true; every excess is taken back; the hedge comes to an end | `LighterHedge` |
| **Lighter order entry** (`variational/lighter_order_entry.py`, `submit_lighter_create_order`) | queue, worker, socket, connection lock, nonce | connect, send, acknowledge, time out, close, fall back to REST | the order is accepted after its caller timed out; two transports | "unavailable" means never sent; one transport per order | `LighterOrderEntry` |
| **Variational intent** (`mark_and_persist_var_intent` ... `process_variational_trade_event`, the watchdog, `emergency_flatten_var`) | `pending_var_intent` and its phase, the provisional record, `waiting_commit` records | quote, prepare, commit, confirm by event or portfolio, expire, roll back, flatten | the fill arrives before, after or without the HTTP answer; manual orders look like automatic ones; two flattens at once | a fill is entered and hedged once; no second open or close; no intent blocks for ever | `VarIntent` |
| **Command broker** (`CommandBroker` in `variational/listener.py`) | pending futures, the registered extension | register, request, answer, time out, disconnect | a connection that ended on one side only; an answer after its caller gave up | an answer reaches its own caller, once; a new connection takes over from a dead one | `CommandChannel` |
| **Chrome extension** (`chrome_extension/background.js`) | `CommandSocket`, whether it is attached, the bridge in the page, the forwarder's queue, templates | connect, start, stop, evaluate, install, fall back, reload | the page executes a command whose caller gave up; a reload removes the bridge | a Commit is sent at most once, and its outcome told as it is | `CommandChannel` (without the forwarding queue) |
| **Variational monitor** (`variational/listener.py`) | trade events by number, snapshots | append, fetch a batch | repeated, late events | each fill reaches the drain once | its list: `Market`; its lateness: `VarIntent` |
| **Reconciliation and pause ownership** (`reconcile_accounts`, `pause_for_reconciliation`, `pause_automation`, page reload) | the pause and its owner, mismatch tokens, degraded outcomes | read both accounts, compare, pause, resume, reload | two reads at two times; an intent that comes in between | a pause is lifted by its owner only; no false alarm; a reload aborts nothing; what healed resumes | `Reconcile` |
| **Operator actions** (dashboard API) | a guard token | preview, execute | the state changes after the preview | what is executed is what was shown | `Reconcile` |
| **Persistence and restart** (`persist_runtime_state`, `load_runtime_state`, `prepare_restored_lighter_recovery`, the start in `run`) | the state file and what is restored from it | save, crash, load, inspect, probe, resume | what was sent between the last save and the crash; a crash during the recovery | no order repeated, none forgotten; every file loads | `Restart` |
| **Market data and signals** (`handle_lighter_market_ws`, `wait_for_market_signal`, `drain_pending_trade_events`, `current_adaptive_market_frame`) | levels, nonce, offset, cached executions; a revision counter and an event; the cursor | snapshot, update, gap, reconnect; notify, wait, drain, read a frame | an omission, a half-applied update; a signal while the last is handled; two loops drain one list | a frame is the exchange's book at one update; no signal is lost; a fill is processed once | `Market` |
| **Trade rounds** (`build_trade_rounds`) | none (pure) | pair opens with closes, edge of a round | partial closes, an unpaired close | pairs equal, opposite, in order | the pairing only: `VarIntent`, `Restart` |
| **Adaptive strategy** (`adaptive_strategy/*`, `execution_reserve.py`) | rolling window, epochs, confirmation, reserves | observe, compile, activate, confirm | a window across a restart, an epoch compiled from older samples | a window counts as ready only when it is covered | - |
| **Research database and synchronizer, telemetry** | append-only rows, a bounded queue | record, sync, rotate | rotation under a reader | a row once | - |
| **Dashboards; deployment, tools, clients** | - | presentation, scripts, offline analysis | - | - | - |

The parts meet in one `OrderLifecycle` record per Variational order: the intent
creates it, the hedge completes it, the rounds pair it, reconciliation compares
what it says with both accounts, the file carries it over a restart. They interact by
calls inside one process, by three queues (trade events, execution reports, order
entry), by futures, and by the flags `automation_paused`, `_auto_var_order_inflight`
and `pending_var_intent`, which every loop reads before it acts.

How the modules fit together: `Submission` is what the runtime expects of whoever carries an
order out of the process; `LighterOrderEntry` and `CommandChannel` are shown to implement it,
one for each venue. `LighterHedge` and `VarIntent` build on it: an order that leaves lands, is
lost or is refused, and only a success or a definite refusal is certain. `VarIntent`, `Reconcile`
and `Restart` see of a hedge what `LighterHedge` establishes (it ends complete, failed or
unresolved), `LighterHedge` sees of the Variational order its confirmation or rollback. Each of
these modules has the neighbours reduced to what its own component can tell of them; there is no
single composition, which TLC could not explore.

`PROJECT.json` lists the same components with their status, and every hazard at its
line with the properties that would show it going wrong.

## 2. How the models read the code

**What a step is.** asyncio switches only where a coroutine is really suspended. The
models take these points, and no others: a network or extension round trip, a queue
or future that is not ready, a sleep, and `persist_runtime_state`, which writes the
file in a thread. *Taking `_record_lock` is not such a point.* No coroutine keeps it
while it is suspended, so whoever asks for it finds it free, and `asyncio.Lock.acquire`
on a free lock returns without a switch; `append_order_log` and `trace_event` do not
suspend either. Consecutive critical sections with nothing else between them
are therefore one step. This matters in both directions: races between such sections
do not exist and are not reported, and the branch at `src/main.py:8742-8758` (a report
supersedes an attempt between two lock sections) cannot be reached.

**What the venues may do.** Neither venue is trusted to answer. An order that left may
land later, be lost or be refused; an HTTP answer says nothing certain unless it is a
success or a definite refusal; every report that was once true may be delivered again,
in any order, except that the single execution-report writer and the single event drain
work one item at a time.

**Quantities** are small integers. In `LighterHedge` they count Lighter base ticks, so
the quantities 1 and 4 beside a Firm Quote of 3 stand for a confirmed fill that
differs within the tolerance the code accepts. In the other modules one order is 1.

**Names.** Definitions keep the source's names where TLA+ allows; an operator marked `mutant`
is a plausible bug, is used by no specification, and takes the place of the definition below it
when the property it is listed with in `PROJECT.json` is tested.

## 3. The hedge: `LighterHedge` and `LighterOrderEntry`

### `LighterHedge`: one record from Commit to a settled hedge

Three coroutines work on one record: the hedge *task*, the *writer* of execution
reports, the *handler* of the Variational fill; a *watchdog* repairs and times out.

| In the model | In the code |
|---|---|
| `hedge`, `filled`, `final`, `total`, `terminal` | `hedge_status`, `lighter_filled_qty`, `lighter_outcome_final`, `lighter_order_fill_totals`, `lighter_order_terminal_ids` |
| `correction`, `rollback` | quantities scheduled by `_build_lighter_qty_correction_locked` and `_build_lighter_rollback_locked` |
| `kind` | the strategy's open or close (`record.strategy_tag`), or a manual trade |
| `pc`, `sendQty` | where `place_lighter_order` is suspended and the quantity it has read |
| `retryPending`, `requeue` | `lighter_retry_pending_keys`, `lighter_requeue_after_task_keys` |
| `writer`, `varFollows` | what a handler still has to do once the state file is written |
| `exch` | the exchange: one entry per allocated client order id |
| `Attempt`, `GuardedRetry`, `GuardedFail`, `Wake`, `Send`, `Acknowledged`, `Raised`, `Flatten`, `Loop` | `place_lighter_order`, its exception handler (`src/main.py:9003`) and `_run_lighter_order_task` |
| `ReconcileFound`, `ApplyReply`, `Decide`, `ReconcileMissing` | `reconcile_lighter_client_order` and what the task makes of its outcome |
| `Report`, `FollowUp` | `_apply_lighter_fill_update`: the critical section, and what follows the write |
| `VarConfirm`, `VarFollowUp`, `Unconfirmed` | `process_variational_trade_event` and `rollback_unconfirmed_var_commit`, as this record sees them |
| `Normalize`, `TimeOut`, `ReconcileFlat` | `refresh_pending_lighter_orders` |
| `Arrive` | the exchange (external): an IOC order lands, is lost or refused |

The properties, and what would break them: `NoBlindResend` (at most one order can still
fill), `NoOverfill` (all attempts together never exceed what is asked for, although the
target changes under a running attempt), `KnowledgeIsTrue` and `FinalIsTrue` (the
runtime never believes in a fill that was not made, and knows all of an order it
holds finished), `OverfillIsCorrected`, `RollbackCoversFills` (the fill or the verdict
may come last), `ReportsNeverRollBack`, `FlattenIsExclusive` and
`MatchedIsNotFlattened` (flattening Variational and hedging on Lighter exclude each
other, and a hedge that filled what was committed is not undone), and `CommitSettles`
(no wake-up between task, writer and handler is lost).

Out of this module: a close confirmed late (`late_close_record`), collisions of client
order ids, refusals for precision, a disabled automatic hedge, an unhandled exception
in the task, the portfolio's `recovery_check` (in `VarIntent`), restart (in `Restart`),
market switch. The writer's flatten (in `FollowUp`) is one step, as the flatten's own steps
are `VarIntent`'s.

### `LighterOrderEntry`: how a hedge order leaves the process

Actors: the hedge tasks inside `submit_lighter_create_order`, one at a time because of
`_lighter_signer_lock`; the *worker* (`_run`, `_submit_one`); the *maintenance*
(`_maintain_connection`); and the *closer*, which is the runtime's shutdown from the
moment it stops (`Stop`) to the end of `LighterOrderEntry.close`.

| In the model | In the code |
|---|---|
| `caller` | where `submit_lighter_create_order` is suspended, or how it returned |
| `command`, `future` | the `_QueuedTransaction` (with its mark `dispatched`) and its future |
| `fallback`, `nonce`, `nonceOf` | `lighter_order_entry_rest_fallback`, the nonce manager, the nonce signed with |
| `sock`, `opened`, `broken` | `_ws` by number, all connections so far, those that either side has closed |
| `worker`, `wsock`, `maint`, `closer` | where the coroutines are suspended; the worker's own `ws` |
| `wire`, `replies`, `copies`, `verdict` | the network and the exchange, with a count of what left |
| `SubmitElsewhere`, `SubmitUnsigned`, `SubmitQueued`, `Unavailable`, `Answered`, `RestAnswers` | the branches of `submit_lighter_create_order`; `Elsewhere` is the REST fallback, connection 0 |
| `Take`, `EnsureConnected`, `WorkerConnected`, `WorkerUnconnected`, `Receive`, `GivesUp`, `Fail` | `_run` with `_submit_one`, `_receipt_for` and `_close_socket` |
| `Maint...` | `_maintain_connection` |
| `Stop`, `Cancel`, `CloseBegins`, `WorkerCancelled`, `WorkerEnds`, `MaintEnds`, `CloseEnds` | the shutdown and `close` |
| `Arrives`, `Breaks` | the exchange and the network (external) |

`Submission` is what the runtime relies on, whichever transport is used: an order
leaves at most once, a caller told that it did not leave is never wrong (REST sends
it again on that word), and a verdict is the exchange's own for this very order.
`SentAtMostOnce` says that `LighterOrderEntry` implements it, with what the caller has
been told as the refinement mapping. `NoncesAreUnique`, `ClosedIsQuiet` and
`SubmissionEnds` speak of the nonces given back, of what close() leaves behind, and of lost
wake-ups.

The queue is a set, as the signer lock leaves at most one command in it whose caller
still waits. Left out: `start()` connecting beside the maintenance, a disabled
WebSocket, replies without a code (which count as accepted) or that are JSON but no object,
a connection that breaks while a ping is answered. The nonce manager is the SDK's and
modelled from its use: REST gives a nonce back when the exchange rejects.

## 4. The Variational order: `VarIntent` and `CommandChannel`

### `VarIntent`: from the intent to the fill

Actors: the *strategy* loop, the calls of *emergency_flatten_var* (several at once), the
event drain (*feed*), the *watchdog* with the portfolio (*dog*), the hedge tasks from
outside, and Variational with its operator as the environment.

| In the model | In the code |
|---|---|
| `intents`, `pending` | every `VarOrderIntent` so far (its index is its identity) and `pending_var_intent` |
| `records` | `self.records` in `record_order` |
| `auto`, `flats`, `inflight` | where `_evaluate_auto_open_once` / `_evaluate_auto_close_once` and each flatten are suspended; `_auto_var_order_inflight` |
| `feed`, `dog`, `failed` | what is left of `process_variational_trade_event` and of `fail_lighter_hedge` once the state file is written |
| `orders`, `snap` | Variational: its orders and its latest portfolio snapshot |
| `SubmitOpen`, `SubmitClose`, `StalledOpen`, `AutoQuoteFails`, `AutoPrepare`, `AutoCommit`, `AutoCommitRefused` | the two evaluations up to the Commit, `request_guarded_var_order`, `mark_and_persist_var_intent` |
| `AutoAccepted...`, `AutoFailed`, `AutoAmbiguous` | the answer: `start_committed_var_hedge` with its four outcomes, a definite refusal, no certainty |
| `Flat...` | `emergency_flatten_var` |
| `FeedProcess`, `FeedUnsupported`, `FeedPauses`, `FeedFollows`, `FeedFlattens` | `drain_pending_trade_events` and `process_variational_trade_event` |
| `DogRecovers`, `DogFollows`, `DogFlattens` | `inspect_pending_var_intent_from_portfolio` finding the fill, and its synthetic event |
| `DogTimeout`, `DogRefreshesPage`, `DogDecides`, `DogExpires` | `var_intent_watchdog_loop`, `expire_pending_var_intent`, `rollback_unconfirmed_var_commit`, `mark_unconfirmed_var_commit_ambiguous` |
| `HedgeCompletes`, `CheckResolves`, `HedgeFails`, `FailureFlattens`, `Resume` | `LighterHedge` seen from here; a matching `reconcile_accounts` |

`Process(e)` is the one critical section through which a fill enters, whether the feed or
the portfolio brings it: which record it is (`RecordFor`: by trade, by the intent's
provisional record, by the recovered one, or new), which intent it is bound to
(`Bound`), whether it must wait for the Commit's answer (`WaitsForCommit`), and which
intent is left pending (`Left`).

Abstractions. Time is the number of intents begun (`at`): submissions are at least 8 s
apart and repeated fills are recognised within 15 s, so "within the window" is the same
epoch or the next. A fill dated up to two seconds before its intent was prepared still matches it
(`src/main.py:5866-5870`): `soon` says, where a fill of the intent's side came since the intent
before it, whether it was as late as that. Bounds: a fill before that one does not match, and one
between marking and preparing does. `Naming` says whether an answer names its order (`orderId`, `rfq`)
or not; the code then goes by side and quantity alone. `automation_ready` is left out,
which allows more submissions than the code makes. A position the operator opened is
left to the operator (`SubmitClose` asks for the record's quote). With `"operator"` in
`Mixes` one behaviour may have one Commit beside one manual trade.

### `CommandChannel`: how a Commit reaches Variational, and how its outcome comes back

Actors: the callers of `request_place_order`; the broker with its one registered extension; the
extension's `CommandSocket` and `placeVariationalOrder`; Chrome, which runs expressions in the
page; the page; Variational.

| In the model | In the code |
|---|---|
| `caller`, `future`, `told` | `request_place_order` with its entry in `_pending_futures`; what `var_result_is_ambiguous` makes of the result |
| `extension`, `link` | `_extension`; each connection as far as the broker has brought it |
| `down`, `up` | messages on the way |
| `active`, `ws`, `registered` | `state.active`, `CommandSocket.ws`, `.registered` |
| `exec`, `expr` | the evaluation `evaluatePageOrderBridge` awaits; the expression Chrome has not run yet |
| `bridge`, `fetch` | the bridge in the page; the page's HTTP request |
| `Request`, `RequestUnsent`, `RequestRefused`, `Returns`, `GivesUp` | `request_place_order` and its ends |
| `Register`, `Result`, `OnDisconnect` | `_handle_register`, `_handle_order_result`, `on_disconnect` |
| `BrokerNotices`, `BrokerDrops` | a connection that ends on the extension's side, or first on the broker's |
| `Connect`, `Acknowledged`, `Closed`, `Breaks` | `CommandSocket` |
| `Starts`, `Stops` | `startForwarding`; `cleanupForwardingState` with the debugger detached |
| `Receive`, `Rejects`, `Evaluate`, `Overtime`, `CutOffAnswered` | `handleMessage` and `placeVariationalOrder` |
| `BridgeMissing`, `Installs`, `Fetches`, `PageRejects`, `FetchAnswered`, `FetchFails` | `evaluatePageOrderBridge` with `pageFetchOrder` in the page |
| `Reload`, `Decides` | the page is loaded anew; Variational decides (external) |

`CommitIsHonest` says that all this implements `Submission`, as Lighter's transport does: a
Commit is sent at most once, although the bridge is installed and the whole executor may be sent
as a fallback; one told to be refused was not sent and will not be; one told to be accepted or
rejected was, by Variational. `ChannelHeals`: broker and extension agree on a connection again,
although a new one is refused while the broker still believes in the dead one.

Assumptions: an HTTP error status means nothing was executed, which is what the runtime takes it
to mean. A quote travels the same way and is left out. Merged or left out: the refusals before
anything is sent (market, template, authorization, incomplete quote) are one; malformed requests,
PING, a version mismatch (taken to match), the answer "registration is not valid" (the
acknowledgement precedes every command on its connection), a change of endpoint (as `Breaks`), a
restart of the extension's service worker. `ReloadsSpare` keeps reloads, and detaching by
Chrome, from a page that waits for Variational; see 9.

## 5. The accounts, the process and the market: `Reconcile`, `Restart`, `Market`

### `Reconcile`

Reconcilers: the loop, the order watchdog (for a close that timed out) and the operator's
action, each reading Variational, waiting for two requests to Lighter, and comparing what it has
read with the position tracked by then; the page reload, on demand and on a schedule; the
operator with preview and confirmation. Beside them runs one Variational order at a time,
reduced to what they see of it, and three ways for the accounts to part (`drifts`): a manual
trade, a failed hedge, a change nobody reports.

| In the model | In the code |
|---|---|
| `paused`, `reconPause` | `automation_pause_reason` and `_reconcile_pause_reason`, as kinds: reconciliation's two texts or another owner's |
| `ready`, `outcome`, `firstToken`, `account` | `automation_ready`, `last_reconcile_outcome`, `_reconcile_mismatch_first_token`, `last_account_snapshot` |
| `pc`, `got` | where each reconciliation is suspended and what it holds |
| `LoopReconciles` ... `Match`, `Mismatch`, `Degrade` | `reconcile_accounts` and `reconcile_loop` |
| `Queue` ... `ReloadFails`, `Portfolio...`, `Inspect...` | `refresh_variational_page_when_safe`, `refresh_variational_account_and_reconcile` |
| `Preview`, `Rejected`, `Operator...` | `prepare_operations_action`, `execute_operations_action` |

`PauseKeepsOwner`: a pause that reconciliation does not own stays, whatever follows.
`NoFalseAlarm`: a mismatch pauses only after the accounts really parted; an order between two
readings does not count. `ReloadSparesOrders`: a reload waits for the strategy's command.
`ReconcileHeals`: once accounts and records agree, the loop alone resumes.

Not modelled: `discard_stale_manual_flat_record`, staging the configuration, an exception while
Variational's portfolio is read, the close of a Variational-only residue (merged with the forced
close), the cool-down after a recovered flat, the other gates of `live_open_block_reason`.

### `Restart`

The process may end at any step, by a crash or in order. The state file is replaced by
snapshots, each taken of the whole memory under `_state_write_lock` and landing later; handlers
change the memory, then wait for a snapshot that contains their change. A start loads the file,
asks the portfolio about the pending order, prepares the records, asks Lighter for every id it
may have used, starts the interrupted hedges and reconciles.

| In the model | In the code |
|---|---|
| `mem`, `file`, `writes`, `waiting` | memory, `runtime_state.json`, snapshots not yet landed, who waits in `persist_runtime_state` |
| `trades`, `events`, `lighter` | both exchanges and the fills not yet reported |
| `order`, `follow`, `retry` | where the order's coroutine, the event drain and the report writer are suspended |
| `MarkIntent` ... `Ambiguous`, `Rollback`, `StaysAmbiguous`, `FeedEnters`, `FeedFollows` | an order's life, as in `VarIntent` |
| `Allocate`, `Send`, `Report`, `Requeue` | its hedge, as in `LighterHedge` |
| `Crash`, `Stop` | the process ends: anywhere, or after the final write |
| `Load`, `Inspect`, `PrepareRestored`, `ProbeFinds`, `ProbeEnds`, `StartHedges`, `ReconcileAtStart` | `load_runtime_state` and the start in `run` |

`NothingForgotten`: the file names every Commit that was sent and is not settled, whenever the
process ends. `OrdersFindable`: every Lighter order that was sent is in the file by its id or as
the id an intent reserved. `HedgedOnce` and `NeverDoubles`: over any number of restarts no order is
hedged twice, no hedge undone twice, no position opened or closed twice. `FileLoads`: every file
written is one the next start accepts.

Simplifications: "submitting" covers the time until the send, and a send and its answer are one
step (each written); "was" marks a queued or submitting hedge restored without a task; a pause
whose text the next load does not recognise as reconciliation's (`src/main.py:4622`, 11001) is
"lacks" and becomes another owner's; by hand the operator closes only while automation is paused;
what was sent has settled at both venues before the next start asks. The start's portfolio may be
too old to tell (5629-5636): then the intent stays, is neither entered nor rolled back before the
first reconciliation, and without a match waits for the operator, for a refresh that rolls it back
(13550-13568) or for the next start. A restored intent that was committed is "restored": the time
of the acceptance is not in the file, so the watchdog, which makes an unconfirmed Commit of its own
process ambiguous (`StaysAmbiguous`, 10968), leaves it alone. Not modelled: the watchdog's own
recovery of a fill from the portfolio while the runtime is up (in `VarIntent`), the removal of
settled rounds, the emergency flatten, waiting and partial closes' hedges, the session's
counters, the market switch, formats, a write thread outliving its task (2909).

### `Market`

Lighter's book is its history of updates; the stream may deliver a snapshot, an update that
follows, one that repeats or skips (where nonces are there to tell), an update without nonces, one
that fails half-way. Two loops (strategy and trades) wait for one event with their own revisions,
drain one list of fills under one lock, and read a frame through the cached executions.

| In the model | In the code |
|---|---|
| `book`, `offset`, `nonce`, `ready`, `cache` | `lighter_order_book*`, `lighter_vwap_cache` |
| `Snapshot`, `Update`, `Gap`, `Ahead`, `Disconnect`, `Reconnect` | `handle_lighter_market_ws`, `validate_order_book_update` |
| `signal`, `event`, `seen` | `_market_signal_revision`, `_market_signal_event`, each loop's revision |
| `Look`, `Yield`, `Arm`, `Fallback` | `wait_for_market_signal` |
| `Lock`, `Process`, `Start`, `Fetch`, `Leave` | `drain_pending_trade_events` over `get_trade_events_since` |
| `Frame` | `current_adaptive_market_frame` |

`FrameIsFeed`: what a decision reads is the exchange's book after one of its updates, on both
sides, cached or not. `DrainedOnce`: each fill is processed once and in order. `NewsArrives`: no
notification is lost for good. Left out: the trade and private streams, times of receipt and
freshness, flows and features, the sampler, the change of asset in `trade_loop`, the limit of the
monitor's list, exceptions of a fill's processing (they end the program: `Restart`). Assumed of
Lighter: updates may be repeated at will, and are omitted only where both nonces are there; one
snapshot per connection.

## 6. The runs

| Run | Instance | Distinct states | What it shows |
|---|---|---|---|
| `LighterHedgeLegs` | open, close and manual; Firm 3, confirmed 1, 3 or 4; 3 attempts and the recovery | 1 050 101 | safety of every kind of hedge against every order of reports, timeouts and verdicts |
| `LighterHedgeLate` | open; orders reported absent still land; fair | 76 606 | knowledge stays true and the excess is taken back even then; every committed order settles |
| `LighterOrderEntry` | 2 orders, queue of 1, 2 connections, with and without fallback; fair | 240 146 | sent at most once over two transports; closing at any point |
| `VarIntentTrades` | 3 Commits, answers name orders; fair | 47 019 | open, close, open: never doubled, never stranded, mirrored at rest |
| `VarIntentFlattens` | 3 intents with failing hedges and emergency closes, or 1 Commit beside 1 manual trade | 724 528 | two flattens beside each other, the strategy and the operator enter and hedge no fill twice |
| `CommandChannel` | 1 Commit, 3 connection names, 3 faults; fair | 415 497 | a Commit is sent at most once and its outcome told as it is; the channel heals |
| `Reconcile` | loop, operator and watchdog; 2 orders, 1 drift, 1 action | 2 048 027 | who owns a pause, what a reload may interrupt, what raises an alarm |
| `ReconcileHeals` | the loop; 2 orders, 1 drift, 1 repeated portfolio message; fair | 68 767 | a healed mismatch does not leave automation paused or unready |
| `Restart` | 2 trades, the process ends twice, 2 attempts, a manual close | 1 602 250 | nothing repeated, nothing forgotten, every file loads |
| `Market` | 2 updates of the bids or of both sides, 2 notifications, 2 fills in batches of 2; fair | 336 014 | frames are the exchange's book; fills once; no lost notification |
| `ReconcileDropsIntent`, `RestartCreates` | - | - | the two disagreements of section 9 that a run claims |

Each passing run has a mutant per property: a definition changed as a plausible bug would
change the code (a stale report let through, the identity check of a clear dropped, a bridge
called again after an exception, a snapshot taken outside the lock), after which TLC finds the
property violated.

**Why the bounds are enough.** Three attempts and a recovery give a first, middle and
last attempt, an attempt begun while an earlier one is unresolved, and an exhausted
budget. A target of 3 ticks splits into two partial fills and a rest, and 1 and 4 lie on
both sides of it. Two orders and two connections are an answer that comes late on the
connection of another order, a command given up while the maintenance reconnects, and a nonce
given back and used again; a third order brings nothing that the proofs leave open. Three intents are an open,
its close and the next order, which is what a late or repeated event needs to meet an intent
that is not its own; with failing hedges they also are an order and two emergency closes at once.
Three faults of a channel are an end of the old connection, one of the new, and a reload between
installing and calling; two Commits with one fault were also run (1 676 264 states) with nothing new,
as commands share no state but the connection. Two orders beside three reconcilers give a reading
before, between and after them. Two ends of the process are a crash during a recovery from a crash;
three trades with one crash, and with two crashes but neither overtaking events nor manual
closes, passed as well, but take too long to keep as runs. Two updates are one before and one
after a snapshot, an omission or a repetition; three notifications also pass (1.05 million
states). No run uses a state constraint: the bounds are the constants, in the guards.

**Where the instances are narrowed, and why.** `MatchedIsNotFlattened` claims of a flatten only
what holds when Variational filled its Firm Quote; without that condition it is
`FlattenNeedsShortfall`, which fails (9.4). Neither is
claimed when absent orders may still land: nobody can know then. `LighterHedgeLate` has a
confirmed quantity equal to the Firm Quote: otherwise a hedge whose excess coincides with a
dropped retry may keep the status `retrying` with the excess uncorrected. `VarIntentTrades` has
no failing hedges: with them a portfolio recovery may set a failed hedge back to
`recovery_check` while its flatten is about to start, and the record is hedged after Variational
was flattened (a hazard with that note; no document says which of the two wins).
Both `VarIntent` runs have answers that name their orders: without names three intents meet 9.3.
`StaleSnapshots = FALSE` keeps out snapshots older than the flatten they are asked about (9.6). In
`VarIntentFlattens` a manual trade is beside one Commit only, because a model without a clock cannot
tell a repeated event within 15 s from a later one when more trades are about: with two Commits it
finds `HedgedOnce` violated for that reason. `ReloadsSpare = TRUE`: see 9.8. `Unfilled = {"open"}` and
`Overtakes = {"close"}`: see 9.10 and 9.11. `ReconcileHeals` has the loop alone, because an
operator may pause and nobody need resume. `CHECK_DEADLOCK FALSE` where it
stands: a settled record, an answered command, and a runtime whose bounded trades are used up,
have nothing left to do. `Market` never stops, and is checked for deadlock.

## 7. Fairness

`LighterHedge` (`FairSpec`): weak fairness of the task, of the writer's and the handler's
follow-ups, and of the watchdog's two repairs. These are coroutines of one event loop
that stay ready until they run, and each network call of the task has a timeout.
Nothing is assumed of the exchange, its reports, or the time of the Variational verdict:
`CommitSettles` holds also when no report ever comes.

`VarIntent` (`FairSpec`): weak fairness of the strategy while an evaluation is under way,
of each flatten, of what the feed has begun, and of the watchdog loop. Every request of these
is answered or times out (the broker resolves each future). Starting a new evaluation,
events, snapshots, executions and hedges are not fair: Variational may never report a
fill and the strategy need not trade. Both parts of `NothingStays` have the form `[]<>`: again and
again no intent is pending (or the runtime is paused), and no record waits. Intents and records
are finite in number, so none of them stays for ever.

`LighterOrderEntry` (`FairSpec`): weak fairness of a caller whose future is resolved, of
the maintenance's connect and of a close that has begun; strong fairness of the worker,
because the maintenance may take the connection lock again and again between its steps:
asyncio's lock is handed over in order, and connects and answers have timeouts.
Submissions, the exchange and the moment of the shutdown are not fair.

`CommandChannel` (`FairSpec`): weak fairness of handling a registration and its
acknowledgement, of noticing the end of a connection (the servers ping every 20 s), and of the
reconnection a second after a close. Starting the forwarder, commands and answers are not fair;
faults are finite by the bound.

`Reconcile` (`FairSpec`): weak fairness of the loop, of each reconciliation and reload once begun,
of the answer to a command, of the confirmation of a fill, of a hedge's end and of the next
portfolio message; strong fairness of reading Lighter and of a match: a request that is made again
and again succeeds in the end. Without the last, an outage of Lighter keeps automation paused,
as it should.

`Market` (`Spec`): weak fairness of each loop's steps (the event loop runs what is ready and fires
its timers) and strong fairness of taking the drain lock, which `asyncio.Lock` hands over in turn.
Nothing is assumed of the exchanges.

`Restart` has no fairness and no liveness property.

## 8. The proofs

All for every value of the constants, but where the table names a hypothesis. The assumptions only
say what type the constants have, and that a quantity, a limit of attempts or a batch is positive
(`QtyAssumption`, `AttemptsAssumption`, `KindAssumption`, `LandingAssumption`, `OrdersAssumption`,
`ReconcilersAssumption`, `SocketsAssumption`, `BoundAssumption`, `ChoiceAssumption`). Each inductive
invariant was first checked by TLC on the instances of the runs (`BooksInv` on that of `Restart` with
`Manual` `FALSE`: 1 312 581 states).

| Module | Theorem | Statement | Inductive invariant |
|---|---|---|---|
| `LighterHedgeProofs` | `TypeCorrect` | `Spec => []TypeOK` | `TInv == TypeOK /\ OrderHeld` |
| | `ReportsMonotone` | `Spec => ReportsNeverRollBack` | `TInv` |
| | `RollbackCorrect` | `Spec => []RollbackCoversFills` | `RInv == TInv /\ RollbackCoversFills /\ (not unconfirmed => rollback = 0)` |
| | `KnowledgeCorrect` | `Spec => []KnowledgeIsTrue` | `KInv == TInv /\ OrdersTrue /\ FreshOrder` |
| | `NeverResendsBlindly` | `Spec => []NoBlindResend` | `SInv == KInv /\ Serial` |
| | `NeverOverfills` | `Spec => []NoOverfill` | `SInv`, `FInv` |
| | `FlatteningIsExclusive` | `~LateLanding`: `Spec => FlattenIsExclusive` | `SInv` |
| | `MatchedStays` | `Spec => MatchedIsNotFlattened` | `SInv` |
| | `FinalCorrect` | `Spec => []FinalIsTrue` | `FInv == KInv /\ SumHeld /\ FinalHeld` |
| | `ExcessIsCorrected` | `~LateLanding` or `VarQtys \subseteq {FirmQty}`: `Spec => []OverfillIsCorrected` | `SInv`, or `EInv` |
| `LighterOrderEntryProofs` | `TypeCorrect` | `Spec => []TypeOK` | `IInv`, as the following |
| | `NoncesUnique` | `Spec => []NoncesAreUnique` | `IInv`: `Signed`, `Sent`, `Truthful` |
| | `CloseQuiet` | `Spec => []ClosedIsQuiet` | `IInv`: `Control`, `Matched` |
| | `SubmissionRefined` | `Spec => SentAtMostOnce`, that is `Promise!Spec` | `IInv`: `Matched`, `Sent`, `Carried`, `Truthful` |
| `VarIntentProofs` | `TypeCorrect` | `Spec => []TypeOK` | `Typed`: `TypeOK`, and what each index kept over a suspension names |
| | `NeverOpensTwice` | `~HedgesFail`, `Naming \subseteq {TRUE}`: `Spec => []NeverDoubles` | `SInv == Typed /\ Calm`, with `Alone` or `Single` |
| | `SerialCommits` | `~HedgesFail`, `Naming \subseteq {TRUE}`: `Spec => CommitsAreSerial` | `SInv` |
| `ReconcileProofs` | `TypeCorrect` | `Spec => []TypeOK` | `Typed` |
| | `AlarmIsTrue` | `Spec => NoFalseAlarm` | `CalmInv == Typed /\ OneOrder /\ Suspicion` |
| | `PauseKeepsItsOwner` | `Spec => []PauseKeepsOwner` | itself: no action is excluded from it |
| | `ReloadSparesTheStrategy` | `Spec => []ReloadSparesOrders` | with where each actor is suspended and what `CanSubmit` excludes |
| `RestartProofs` | `TypeCorrect` | `Spec => []TypeOK` | `TypeInv == Typed /\ Control` |
| `RestartSafety` | `SafeInvHolds` | `Spec => []SafeInv` | itself: `TypeInv`, `Chain`, `DiskChained`, `Truth` |
| | `NeverDoublesHolds` | `Spec => []NeverDoubles` | `SafeInv`: `Flat` |
| | `NothingForgottenHolds` | `~Manual`, `"open" \notin Overtakes`: `Spec => []NothingForgotten` | `BooksInv == SafeInv /\ AllAuto /\ DiskBooks /\ MemBooks /\ Vow /\ Marked` |
| `MarketProofs` | `TypeCorrect` | `Spec => []TypeOK` | `TypeOK /\ Levels /\ Turns` |
| | `FrameCorrect` | `Spec => []FrameIsFeed` | `BookInv == History /\ Copy` |
| | `DrainCorrect` | `Spec => []DrainedOnce` | `Drain` |
| `CommandChannelProofs` | `TypeCorrect` | `Spec => []TypeOK` | itself: who waits, waits for a registered extension |
| | `NeverSentTwice` | `Spec => []SentOnce`, with or without reloads | `SInv == TypeOK /\ Linked /\ Begun /\ Once /\ Truthful` |
| | `SubmissionRefined` | `ReloadsSpare` assumed: `Spec => CommitIsHonest`, that is `Promise!Spec` | `SInv /\ Honest` |

Why each strengthening is needed. `TypeOK` alone is not inductive: a task that awaits an answer
indexes the newest order, so there must be one (`OrderHeld`). `FilledGrows`, the step fact
behind `ReportsMonotone`, rests on the lemma `SumGrows`: a report that is not stale never lowers
the total of its order, hence never the sum. `RollbackCoversFills` speaks of the unconfirmed
Commit only; that the verdict sets the rollback to exactly the fill needs that nothing was
scheduled before it. `KnowledgeIsTrue` needs that a report tells what the exchange did
(`ReportsTrue`), that an order that has not landed has filled nothing, and that an order held
finished can fill no more: it was executed or it never left (`OrdersTrue`); for the last, the
order about to be sent must not be held finished already (`FreshOrder`), which is where the
guards of an attempt and the withdrawn id matter.

A hedge of several attempts (`LighterHedgeProofs`). The centre is `Serial`: all orders but the newest
are settled (`EarlierSettled`: no report of them is news), and wherever the code may decide to retry,
in the task, after a reconciliation, or in the writer that has not yet written what it read, the newest
is settled too (`RetrySafe`, `RequeueHeld`, `FailureHeld`). What is sent is then what is missing
(`SendHeld`, `Fits`), of the Firm Quote until Variational's fill is confirmed (`BeforeConfirm`), and a
record that failed or is flattened has nothing left that could send (`FailedIsDormant`). `NoBlindResend`,
`NoOverfill` and `MatchedIsNotFlattened` claim nothing where absent orders still land, by their own
text; `FlattenIsExclusive` is proved where they do not. `OverfillIsCorrected` is proved where orders do
not land late or where the fill is the Firm Quote's; where neither holds TLC finds a hedge whose
correction is short, as section 6 says.

The Variational order. `Typed` (`VarIntentProofs`) says what an index that a coroutine keeps over a
suspension still names: the intent it quotes, commits or waits for, the record it writes, the position
it closes; an intent under way has its order, one with a provisional record its record and its order.
`Grow` is the step fact behind it: nothing is ever removed or exchanged.

`NeverDoubles` and `CommitsAreSerial` are proved for any number of Commits under two
hypotheses, `~HedgesFail` and `Naming \subseteq {TRUE}`, those of the run `VarIntentTrades`. Without
them `NeverDoubles` does not hold (9.3, 9.15). `CommitsAreSerial` holds with failing hedges, too, as far
as TLC goes (3 intents), but its proof takes the same invariant. `Spec` has no fairness and the theorems
say nothing of `StaleSnapshots` or of `Mixes`: either value will do.
`SInv` says for a strategy left to itself (`Alone`):

- `Calm`: no hedge has failed, so nothing is flattened;
- `Serial`, `Owned`: an order that may still be executed is the last one and takes the position to the
  other one of 0 and 1; an intent has one order at most, and none before its Commit;
- `Timed`: each order fills before the intent of the next, and the last fill has brought the position to
  where it is; the next intent goes the other way, so none takes up the fill before it (`Unhurried`:
  the two seconds of `Matches` give nothing away);
- `Orderly`, until the pause `automation` is set, which no step of the module lifts and under which
  nothing is committed: the records are opens and closes in turn (`Alternate`), each of one order
  (`Traced`); every order but that in hand is decided and, if it filled, recorded (`DecidedOrders`,
  `DecidedRecords`), before the pending intent began, so that a late or repeated event is not taken for
  its fill; hence the position can be told from the records and the order in hand (`Truth`), and the
  pending intent points the right way (`Directed`). `Candidate`, `Committing` and `Committed` say how
  far the pending intent is, with the answer, the fill or neither of them in.

`Orderly` must end there: when a Commit expires or is rolled back the automation is paused before the
order's fate is known, and it may still be executed behind the back of the records. Beside an operator
`Single` suffices: there is one Commit.

The order entry. `IInv` is a conjunction of parts, with one lemma for each, which needs only the
parts it names. The centre is `OwnConnection`: on every connection that the worker may read
from, now or by its next command, only the frame in hand or its answer is under way. A reply
without an id could otherwise be another order's; that a command given up leaves its connection
(`CloseSocket`) is what preserves it, whether or not the maintenance has reconnected. `Sent`
ties what has left to where the caller, the command and its future are (`Unsent`), so that both
the REST fallback and the next frame start from zero copies. `Signed` says that one caller holds
the signer and that its nonce is the last one given out: it may therefore give it back, which
also keeps the nonce from falling below zero in `TypeOK`. In `StepRefines` an action is a
`Leave`, a `Tell`, a `Decide` or a stutter of `Submission`, through the step facts `<1>1` to
`<1>6` that the actions share.

Reconciliation. `NoFalseAlarm` needs that while the accounts have not parted the one order there is
explains every difference (`OneOrder`), and that between the reading that differs and the one that
confirms it no order is begun (`Suspicion`): a suspicion keeps the runtime from being ready.

Restart. `TypeOK` bounds the ids of a record, in memory and on disk, by the attempts and the ends of the
process. For that, `TypeInv` says that a record in a state from which a new id may follow has fewer
(`MaySend`), and that a file has one fewer while the process is down (`OnDisk`): each end allows one
more. Records are looked up by a provisional intent, which has its record in every file (`Provided`),
and by the drain and the report writer after writes of others (`PlacesTyped`, `OneWrite`). `Control` says what a
suspended coroutine still finds: its intent pending (`OrderHolds`), only the last trade under way and
then with its intent (`TradeHolds`), no fill that is not entered but of that trade (`EventHolds`),
nothing in a process that is down and no order in a start (`DownHolds`, `StartHolds`).

`NeverDoubles` speaks of Variational, the decisions are taken from records, and the file keeps only
those not settled. `SafeInv` relates the three:

- `Chain`, of the memory and of every snapshot and file: each close that is priced follows an open,
  the record of a Commit that is not confirmed is the last priced one, so that what is open before it
  (`Tracked`) is what a rollback leaves. The lemmas `OpensExist` and `KeptExist` say that dropping the
  settled rounds (`Unfinished`) leaves what is open open, and nothing else;
- `Told`: a trade not yet decided is a close if and only if something is tracked; `Balanced`: while the
  automation is ready, the position is what the records say and the fills that wait; `Pledged`: a
  Commit that was sent still fits the position, whether or not the automation is ready;
  `Heard`: an execution that no record tells of waits as an event; `Flat` is `NeverDoubles` itself.

`Balanced` ends with the process: a crash loses the events that wait. The next start does not restore
it by the records but by reconciliation, which alone makes the automation ready; until then
only `Pledged` and `Flat` are known, and no Commit is sent. That is the argument for the order of
steps in the start, and why none of the constants needs a hypothesis: also with the fills and the
rollbacks whose files are refused (9.10, 9.11) no position is doubled.

`NothingForgotten` speaks of one file, but any write that is under way may become that file, and each
was taken from a memory that has since gone on. `BooksInv` therefore says the same of the memory, of the
file and of every snapshot (`Books`), against the exchanges as they are now:

- `InTurn`: the priced records are opens and closes in turn; `Accounted`: the position is what the
  records say and, while an intent is awaited, what has become of its order;
- `AllTrue`: a record tells what happened: one that an event or the portfolio entered was executed,
  one whose hedge counts as filled has a filled hedge at Lighter; `Covers`: each order that may matter
  is awaited or recorded (`Tells`), or its round is `Finished`, on both legs at both exchanges. The lemma
  `BooksUnfinished` joins the two: the rounds that a save drops as settled are finished ones;
- `Vow`: an order whose Commit may still be executed is awaited by every file and snapshot there is, so
  whichever comes to lie on disk last names it; `Marked`: the write that
  `mark_and_persist_var_intent` waits for has brought this about before the Commit is sent. Here the
  lock around snapshot and write counts: no older snapshot is left to land afterwards.

An execution changes the position under all the states at once, and `Vow` is why each of them
expects it. The hypotheses are those under which the argument holds: the recovery may enter
an open's early fill twice (9.11), after which two opens follow each other in the records and `InTurn`
is gone; a close by hand, whose event a crash may lose, lets records and position part, and the
account would have to be kept per order. TLC checks the property with a close by hand, too (run `Restart`,
where `Manual` is `TRUE`).

The market. `TypeOK` needs that no loop has seen more than there was, and that only the lock's holder
has a batch (`Turns`). `FrameIsFeed` needs that the kept nonce is never ahead of the kept offset and that a
cached execution is the level of the book as kept (`Copy`), and of the feed only that a side that
an update leaves alone keeps its level (`History`). `Drain` says that only the holder of the drain
lock has a batch, and that the batch is what follows the cursor: two loops cannot hold the same
fill.

The command channel. That a Commit is sent once (`Once`) needs that an expression Chrome has not
yet run finds the Commit unsent, and that an evaluation still awaited is that expression or the
request it has made; it holds with or without reloads. That a refusal is true (`Honest`) needs
more: a refusal on its way is of a Commit that is `Sealed`, unsent and past every step that could
send it, or it comes by a connection that its caller does not wait on (`CutFrom`): the forwarder
that is cut off from the page leaves its connection in the same step. Only the reload of the page
keeps the connection, so only there the proof uses `ReloadsSpare`; without it the step `Reload` of
`NextHonest` fails, as TLC's counterexample does.

Each step lemma has one step per action; what several actions share are lemmas.

Sums and the pairing of records are data of any length. The models define them with recursive functions,
and the proofs go by the least counterexample: `LeastElement`, which the library's theorems on finite
sets give without an operator parameter. On it rest `PositionsExist`, `PositionsAgree`,
`PositionOfLast` and `PositionOfAppend` (an order that is added, or whose state alone changes, changes
the position by its own effect), `TotalMonotonic` and `OpenIsLast` (of opens and closes in turn the
last is tracked, if it is an open), and in `Restart` `OpensExist`, `OpensAgree` and `KeptExist` (the records
without the settled ones, in their order).

Only model-checked: of `VarIntent` `MirroredAtRest` and `FillsCountOnce` (sums over sets of
records, with failing hedges; `NeverDoubles` is false outside the hypotheses above); of `Restart`
`OrdersFindable`, `HedgedOnce` and `FileLoads`, which relate every id on Lighter to the memory and to
each state that may come to lie on disk, and of which the last two need the bounds on `Unfilled` and
`Overtakes` of the run (9.10, 9.11), and `NothingForgotten` beside an operator who closes by hand; and, out of the prover's reach, the liveness
properties (`CommitSettles`, `SubmissionEnds`, `NothingStays`, `ReconcileHeals`, `NewsArrives`,
`ChannelHeals`).
No module declares a RECURSIVE operator that a theorem would meet.

## 9. Disagreements found

Two are runs that expect a violation, with a finding that quotes the line contradicted:

1. `ReconcileDropsIntent`: a match that resumes clears `pending_var_intent`, also that of a
   degraded close committed while the reconciliation waited for Lighter (`src/main.py:5139`,
   against the comment at 5613-5615).
2. `RestartCreates`: an order that ended unfilled while the process was down is reported during the
   start, and its retry sends a new hedge for a Commit that is still provisional
   (`src/main.py:7092`, against the comment at 4591-4593).

TLC finds the following too; they are described here with the instance that shows them, or are
notes of a hazard:

3. `VarIntent` (MaxIntents 3, Mixes {"strategy"}, Naming {FALSE}, HedgesFail FALSE): `NeverDoubles` is
   violated. The late event of an open that the portfolio recovered takes away the intent of the
   close in flight, and a second close is committed (`src/main.py:12095`).
4. `LighterHedge`: `FlattenNeedsShortfall` is violated. An open whose hedge failed against the Firm
   quantity but equals the confirmed fill is flattened on Variational (`src/main.py:12135`), which
   opens the exposure. An open that ended partly filled before its fill is confirmed is not flattened.
5. `LighterHedge`: `NeverAwaitsAbsent` is violated. An order reconciled as absent never becomes terminal,
   so the record waits for it after a later attempt has ended (`src/main.py:9045`, 6975).
6. `VarIntent` with `StaleSnapshots`: an emergency close that is still quoting is booked as filled by a
   flat snapshot from before the open's fill, and cancels itself (`src/main.py:5631`).
7. `VarIntent`: the fill of an emergency close seen before the Commit's answer stays
   `waiting_commit` until the portfolio resolves it (`src/main.py:4848`).
8. `CommandChannel` with `ReloadsSpare = FALSE`: `CommitIsHonest` is violated in 14 steps. A page that is
   reloaded, or a debugger that Chrome detaches, while the Commit's request runs ends with Chrome's own
   error text; none of its words is among those of `var_result_is_ambiguous` (`src/main.py:2063-2080`), so
   the Commit counts as refused. Chrome's texts are not in the repository. `Reconcile` shows who may
   reload: `ReloadSparesCommits` is violated, as `emergency_flatten_var` looks at neither the refresh
   flag nor a reload under way (docstring at 13534).
9. `rollback_unconfirmed_var_commit` (11013-11051) does not cancel a hedge still queued; a restart
   resumes it, and it is undone afterwards.
10. `Restart` with `"close"` in `Unfilled`: a close rolled back as unexecuted stays in the file and, once
    its open is settled with another close, the file no longer loads (`src/main.py:3287`).
11. `Restart` with `"open"` in `Overtakes`: a crash while a fill waits for its Commit's answer makes the
    recovery enter it twice with one reserved id, and the next file is refused (`src/main.py:3178`).
12. Seen while modelling, without a property: an `operator_var_only_close` intent is written but not among
    the kinds a load accepts (3567); two pause texts (11001, 4622) lose reconciliation's ownership over a
    restart (3492-3504); hedges that were "retrying" in the file are not resumed; a round's count may be
    lost if a crash falls between its removal from the file and the count (6021).
13. `Market`: the strategy notes the fills' revision after its drain (11623), so the next decision may be
    taken ahead of a fill reported meanwhile (docstring at 7149); a half-applied book is readable for the
    second after a misaligned level (6597); an omission ahead of an update without `begin_nonce` cannot be
    told (6802); under Python 3.11, which README.md:55 allows, a notification may be lost for up to the
    1 s fallback.
14. `VarIntent`: a manual trade that looks like a Commit that then fails is never hedged.
15. `VarIntent` (MaxIntents 3, Mixes {"strategy"}, Naming {TRUE}, HedgesFail TRUE): `NeverDoubles` is
    violated in 19 states. An open whose Commit got no answer is recovered by the portfolio, its hedge
    fails, and its late event, matched with the record, takes away the intent of the emergency close just
    committed (`src/main.py:12095`), and as the flatten looks at the pending intent only
    (`src/main.py:4662`), the event's handler commits a second one.

## 10. What is not modelled

Within the modelled components: what sections 3 to 5 name as left out. Not at all: the components
with status `not_modelled` in `PROJECT.json`. Among them the adaptive strategy is decimal
arithmetic of one thread, the research database a separate process that only reads, telemetry a
bounded queue nothing depends on. Never: dashboards, the HTTP server, scripts, offline analysis, message
texts and logs; prices, edges and thresholds, except where a decision turns on them. Python's and
JavaScript's integers do not overflow.

## 11. The plan

Done, in this order: `LighterHedge`; `VarIntent`; `LighterOrderEntry` against `Submission`; `Reconcile`
with the operator; `Restart`; `Market`; `CommandChannel` against `Submission`.

Left, the most important first:

1. Theorems: `NothingForgotten` with a close by hand, `OrdersFindable` and, with the run's bounds as
   hypotheses, `HedgedOnce` of `Restart`, upon `BooksInv`; `FillsCountOnce` of `VarIntent`, of which `SInv` holds the parts for the
   strategy alone.
2. The operator's guard as a property of its own: what is executed is what was shown.
3. The forwarding sockets with their bounded queue, and the monitor's deduplication of events.
4. `TradeRounds`, pure, against a reference definition of pairing.
5. The adaptive strategy's windows and epochs; the nonce manager.
