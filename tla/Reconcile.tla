----------------------------- MODULE Reconcile ------------------------------
(***************************************************************************)
(* Account reconciliation, the pause it owns, the reload of the            *)
(* Variational page and the operator's actions (main.py).                  *)
(*                                                                         *)
(* Reconcilers: the loop, which reloads the page when an account was       *)
(* stale, unknown or different; the operator's action; the order watchdog, *)
(* which reconciles for a close that timed out.  The page is also reloaded *)
(* on a schedule, without reconciling.  A reconciliation reads             *)
(* Variational, is suspended over two requests to Lighter, and compares    *)
(* what it has read with the position tracked by then.                     *)
(*                                                                         *)
(* Beside them runs one Variational order at a time, reduced to what they  *)
(* see of it; VarIntent and LighterHedge have it in detail.                *)
(***************************************************************************)
EXTENDS Naturals, FiniteSets

CONSTANTS
    Reconcilers,    \* of "loop", "operator", "watchdog"
    MaxOrders,      \* bound: orders, emergency closes and manual trades begun
    MaxDrifts,      \* bound: manual trades, failed hedges, changes no one reports
    MaxRevisions,   \* bound: portfolio messages that bring nothing new
    MaxActions      \* bound: operator actions, scheduled reloads, timed-out closes

ASSUME ReconcilersAssumption == Reconcilers \subseteq {"loop", "operator", "watchdog"}
ASSUME BoundAssumption == {MaxOrders, MaxDrifts, MaxRevisions, MaxActions} \subseteq Nat

VARIABLES
    var,            \* Variational's position: the order that opened it, or 0
    lighter,        \* Lighter's position, by the Variational order it hedges, or 0
    fills,          \* executions on Variational so far
    snap,           \* the monitor's portfolio: position, executions it includes, revision
    drifts,         \* how often the accounts have parted otherwise than by an order
    orders,         \* orders begun so far
    request,        \* _auto_var_order_inflight, and how far its command is
    flattening,     \* that command is an emergency close
    intent,         \* pending_var_intent
    known,          \* executions confirmed to the runtime
    tracked,        \* _current_open_record: the order that opened it, or 0
    hedging,        \* a hedge task runs
    paused,         \* automation_pause_reason, or "-" when not paused
    reconPause,     \* _reconcile_pause_reason
    ready,          \* automation_ready
    outcome,        \* last_reconcile_outcome
    firstToken,     \* _reconcile_mismatch_first_token, <<>> for None
    account,        \* last_account_snapshot, <<>> for None
    latched,        \* history: automation was paused by another owner
    dropped,        \* history: a match has taken the intent of an order not yet confirmed
    openPaused,     \* operator_open_paused
    shown,          \* the preview the operator confirms, <<>> for none
    actions,        \* previews, scheduled reloads and timed-out closes so far
    pc,             \* where each reconciler and the scheduled reload are suspended
    got             \* what each has read of Variational and Lighter

accounts  == <<var, lighter, fills, snap, drifts>>
execution == <<orders, request, flattening, intent, known, tracked, hedging>>
control   == <<paused, reconPause, ready, outcome, firstToken, account, latched,
               dropped>>
operator  == <<openPaused, shown, actions>>
procs     == <<pc, got>>
vars == <<accounts, execution, control, operator, procs>>

-----------------------------------------------------------------------------
Actors == Reconcilers \cup {"page"}
Positions == 0..MaxOrders
Token == [rev : Nat, var : Positions, lighter : Positions]
Account == [var : Positions, lighter : Positions]
Places == {"idle", "queued", "drain", "reload", "portfolio", "inspect", "lighter",
           "orders", "unmatched", "closing", "flattening"}
ReconReasons == {"mismatch", "hedge"}
OperatorActions == {"pause_open", "reconcile", "refresh_var", "close", "close_lighter"}
Intents == {"none", "quoting", "sent", "accepted", "ambiguous"}
Guard == [account : Account \cup {<<>>}, tracked : Positions, intent : Intents,
          transition : BOOLEAN, openPaused : BOOLEAN, paused : BOOLEAN]

\* Every variable has its type; what the runtime knows of executions happened.
TypeOK ==
    /\ {var, lighter, tracked, orders} \subseteq Positions
    /\ {fills, known, drifts, actions} \subseteq Nat /\ known <= fills
    /\ snap \in [var : Positions, fills : 0..fills, rev : Nat]
    /\ request \in {"none", "quoting", "sent"}
    /\ intent \in Intents
    /\ paused \in ReconReasons \cup {"-", "other"}
    /\ reconPause \in ReconReasons \cup {"none"}
    /\ outcome \in {"none", "match", "mismatch", "stale", "unknown"}
    /\ firstToken \in Token \cup {<<>>} /\ account \in Account \cup {<<>>}
    /\ {flattening, hedging, ready, openPaused, latched, dropped} \subseteq BOOLEAN
    /\ shown \in [action : OperatorActions, guard : Guard] \cup {<<>>}
    /\ pc \in [Actors -> Places]
    /\ got \in [Actors -> [rev : Nat, var : Positions, lighter : Positions, since : Nat,
                           allow : BOOLEAN, reloaded : BOOLEAN]]

Nothing == [rev |-> 0, var |-> 0, lighter |-> 0, since |-> 0,
            allow |-> FALSE, reloaded |-> FALSE]

Init ==
    /\ var = 0 /\ lighter = 0 /\ fills = 0 /\ drifts = 0
    /\ snap = [var |-> 0, fills |-> 0, rev |-> 0]
    /\ orders = 0 /\ request = "none" /\ flattening = FALSE /\ intent = "none"
    /\ known = 0 /\ tracked = 0 /\ hedging = FALSE
    /\ paused = "-" /\ reconPause = "none" /\ ready = FALSE /\ outcome = "none"
    /\ firstToken = <<>> /\ account = <<>> /\ latched = FALSE /\ dropped = FALSE
    /\ openPaused = FALSE /\ shown = <<>> /\ actions = 0
    /\ pc = [a \in Actors |-> "idle"] /\ got = [a \in Actors |-> Nothing]

-----------------------------------------------------------------------------
(* Pauses and their owner *)

ReconcileOwnsPause ==
    paused = "-" \/ (reconPause # "none" /\ paused = reconPause)

\* mutant: whoever pauses for reconciliation becomes the owner
TakeOver(reason) ==
    paused' = reason /\ reconPause' = reason /\ UNCHANGED latched

\* mutant: a second reason does not become the one that is owned
KeepFirst(reason) ==
    IF ReconcileOwnsPause
    THEN /\ paused' = reason /\ UNCHANGED latched
         /\ reconPause' = IF reconPause = "none" THEN reason ELSE reconPause
    ELSE UNCHANGED <<paused, reconPause, latched>>

PauseForReconciliation(reason) ==
    IF ReconcileOwnsPause
    THEN paused' = reason /\ reconPause' = reason /\ UNCHANGED latched
    ELSE UNCHANGED <<paused, reconPause, latched>>

PauseAutomation ==
    paused' = "other" /\ latched' = TRUE /\ UNCHANGED reconPause

-----------------------------------------------------------------------------
(* What a strategy order needs, and what counts as a transition *)

RefreshInProgress == \E a \in Actors : pc[a] \in {"drain", "reload"}
OperatorBusy == "operator" \in Reconcilers /\ pc["operator"] # "idle"
TransitionInProgress == intent # "none" \/ request # "none" \/ hedging

NoRequestInFlight == FALSE                    \* mutant: the reload waits for nothing
RequestInFlight == request # "none" \/ intent = "sent"

DegradedCloseAllowed == tracked # 0 /\ outcome \in {"stale", "unknown"}
Flat == account = [var |-> 0, lighter |-> 0]

\* automation_can_submit_var_order; an open also needs live_open_block_reason to be None
CanSubmit ==
    /\ paused = "-"
    /\ ~RefreshInProgress /\ ~OperatorBusy
    /\ ~TransitionInProgress
    /\ ready \/ DegradedCloseAllowed
    /\ tracked = 0 => ~openPaused /\ Flat

-----------------------------------------------------------------------------
(* The order beside the reconciliation, as seen from here *)

\* mutant: an order is begun although the bound is reached
BeginBeyond(emergency) ==
    /\ orders' = orders + 1
    /\ request' = "quoting" /\ flattening' = emergency /\ intent' = "quoting"

Begin(emergency) ==
    /\ orders < MaxOrders
    /\ orders' = orders + 1
    /\ request' = "quoting" /\ flattening' = emergency /\ intent' = "quoting"

Submit ==
    /\ CanSubmit /\ Begin(FALSE)
    /\ UNCHANGED <<known, tracked, hedging, accounts, control, operator, procs>>

QuoteFails ==
    /\ request = "quoting"
    /\ request' = "none" /\ intent' = IF intent = "quoting" THEN "none" ELSE intent
    /\ (IF flattening THEN PauseAutomation ELSE UNCHANGED <<paused, reconPause, latched>>)
    /\ UNCHANGED <<accounts, orders, flattening, known, tracked, hedging, ready, outcome,
                   firstToken, account, dropped, operator, procs>>

\* A strategy order is not sent while automation is paused.
Commit ==
    /\ request = "quoting" /\ intent = "quoting"
    /\ flattening \/ paused = "-"
    /\ request' = "sent" /\ intent' = "sent"
    /\ UNCHANGED <<accounts, orders, flattening, known, tracked, hedging, control, operator,
                   procs>>

\* Variational executes the command, answered or not, against the position it has.
Execute ==
    /\ request = "sent" \/ intent \in {"accepted", "ambiguous"}
    /\ fills = known
    /\ var' = (IF var = 0 THEN orders ELSE 0) /\ fills' = fills + 1
    /\ UNCHANGED <<lighter, snap, drifts, execution, control, operator, procs>>

Refused ==
    /\ request = "sent" /\ fills = known
    /\ request' = "none" /\ intent' = IF intent = "sent" THEN "none" ELSE intent
    /\ (IF flattening THEN PauseAutomation ELSE UNCHANGED <<paused, reconPause, latched>>)
    /\ UNCHANGED <<accounts, orders, flattening, known, tracked, hedging, ready, outcome,
                   firstToken, account, dropped, operator, procs>>

\* An accepted strategy order is tracked and hedged before its fill is known.
Accepted ==
    /\ request = "sent"
    /\ request' = "none"
    /\ intent' = IF intent = "sent" THEN "accepted" ELSE intent
    /\ IF flattening THEN UNCHANGED <<tracked, hedging>>
       ELSE /\ tracked' = (IF tracked = 0 THEN orders ELSE 0)
            /\ hedging' = TRUE
    /\ UNCHANGED <<accounts, orders, flattening, known, control, operator, procs>>

\* No answer, or none that says what became of the command: also after a reload.
Ambiguous ==
    /\ request = "sent"
    /\ request' = "none"
    /\ intent' = IF intent = "sent" THEN "ambiguous" ELSE intent
    /\ PauseAutomation
    /\ UNCHANGED <<accounts, orders, flattening, known, tracked, hedging, ready, outcome,
                   firstToken, account, dropped, operator, procs>>

\* process_variational_trade_event, for an event or the portfolio
Enter ==
    /\ known' = fills /\ tracked' = var /\ hedging' = TRUE
    /\ intent' = IF intent \in {"accepted", "ambiguous"} THEN "none" ELSE intent
    /\ UNCHANGED <<orders, request, flattening>>

Confirm ==
    /\ known < fills /\ request = "none"
    /\ Enter
    /\ UNCHANGED <<accounts, control, operator, procs>>

\* rollback_unconfirmed_var_commit: the hedge of the provisional record is undone
RollsBack ==
    /\ intent = "accepted" /\ fills = known
    /\ intent' = "none" /\ PauseAutomation
    /\ tracked' = var /\ hedging' = TRUE
    /\ UNCHANGED <<orders, request, flattening, known, ready, outcome, firstToken, account, dropped>>

Unconfirmed ==
    /\ RollsBack
    /\ UNCHANGED <<accounts, operator, procs>>

Hedged ==
    /\ hedging
    /\ hedging' = FALSE /\ lighter' = tracked
    /\ UNCHANGED <<var, fills, snap, drifts, orders, request, flattening, intent, known,
                   tracked, control, operator, procs>>

\* emergency_flatten_var asks for no more than that no other intent is pending: neither
\* for a pause nor for a reload of the page.
MayFlatten == tracked # 0 /\ intent = "none"

\* fail_lighter_hedge
HedgeFails ==
    /\ hedging /\ drifts < MaxDrifts
    /\ drifts' = drifts + 1
    /\ PauseForReconciliation("hedge")
    /\ hedging' = FALSE
    /\ \/ MayFlatten /\ Begin(TRUE)
       \/ ~MayFlatten /\ UNCHANGED <<orders, request, flattening, intent>>
    /\ UNCHANGED <<var, lighter, fills, snap, known, tracked, ready, outcome, firstToken,
                   account, dropped, operator, procs>>

-----------------------------------------------------------------------------
(* reconcile_accounts *)

Ends(a) == pc' = [pc EXCEPT ![a] = "idle"] /\ got' = [got EXCEPT ![a] = Nothing]

\* Where the loop has not found a match it thinks of reloading the page.
EndsUnmatched(a, how) ==
    IF a = "loop" /\ ~how.reloaded
    THEN pc' = [pc EXCEPT ![a] = "unmatched"] /\ got' = [got EXCEPT ![a] = Nothing]
    ELSE Ends(a)

Degrade(result) ==
    /\ ready' = FALSE /\ outcome' = result /\ firstToken' = <<>>
    /\ UNCHANGED <<paused, reconPause, account, dropped, latched>>

Stale == snap.fills < known

\* Variational is read; a snapshot from before the latest confirmed fill is refused.
Read(a, how) ==
    IF Stale
    THEN Degrade("stale") /\ EndsUnmatched(a, how)
    ELSE /\ pc' = [pc EXCEPT ![a] = "lighter"]
         /\ got' = [got EXCEPT ![a] = [how EXCEPT !.rev = snap.rev, !.var = snap.var]]
         /\ UNCHANGED control

LoopReconciles ==
    /\ "loop" \in Reconcilers /\ pc["loop"] = "idle"
    /\ ~TransitionInProgress
    /\ Read("loop", Nothing)
    /\ UNCHANGED <<accounts, execution, operator>>

\* For a close that timed out, whatever else is going on.
WatchdogReconciles ==
    /\ "watchdog" \in Reconcilers /\ pc["watchdog"] = "idle"
    /\ actions < MaxActions /\ actions' = actions + 1
    /\ Read("watchdog", [Nothing EXCEPT !.allow = TRUE])
    /\ UNCHANGED <<accounts, execution, openPaused, shown>>

ReadLighter(a) ==
    /\ pc[a] = "lighter"
    /\ pc' = [pc EXCEPT ![a] = "orders"]
    /\ got' = [got EXCEPT ![a].lighter = lighter]
    /\ UNCHANGED <<accounts, execution, control, operator>>

LighterFails(a) ==
    /\ pc[a] \in {"lighter", "orders"}
    /\ Degrade("unknown") /\ EndsUnmatched(a, got[a])
    /\ UNCHANGED <<accounts, execution, operator>>

TokenOf(g) == [rev |-> g.rev, var |-> g.var, lighter |-> g.lighter]
PositionsMatch(g) == g.var = tracked /\ g.lighter = tracked
Sees(g) == account' = [var |-> g.var, lighter |-> g.lighter]

\* Only the second of two different snapshots, after a reload, is a reason to pause,
\* and it must come five seconds after the first.
FirstConfirms(g) == g.reloaded                \* mutant: the first one is enough
Confirms(g) == firstToken # <<>> /\ TokenOf(g) # firstToken /\ g.reloaded

Mismatch(a) ==
    /\ pc[a] = "orders" /\ ~PositionsMatch(got[a])
    /\ Sees(got[a]) /\ ready' = FALSE /\ outcome' = "mismatch"
    /\ firstToken' = IF firstToken = <<>> THEN TokenOf(got[a]) ELSE firstToken
    /\ \/ Confirms(got[a]) /\ PauseForReconciliation("mismatch")
       \/ UNCHANGED <<paused, reconPause, latched>>
    /\ EndsUnmatched(a, got[a])
    /\ UNCHANGED <<accounts, execution, dropped, operator>>

\* The pause is lifted if it is the one reconciliation owns; an intent is over if the
\* caller says so.
ResumesAny == paused # "-"                    \* mutant: any pause is lifted
Resumes == reconPause # "none" /\ paused = reconPause

Match(a) ==
    /\ pc[a] = "orders" /\ PositionsMatch(got[a])
    /\ Sees(got[a]) /\ ready' = TRUE /\ outcome' = "match" /\ firstToken' = <<>>
    /\ paused' = (IF Resumes THEN "-" ELSE paused)
    /\ reconPause' = (IF Resumes THEN "none" ELSE reconPause)
    /\ intent' = (IF got[a].allow THEN "none" ELSE intent)
    /\ dropped' = (dropped \/ (got[a].allow /\ intent # "none"))
    /\ Ends(a)
    /\ UNCHANGED <<accounts, orders, request, flattening, known, tracked, hedging, latched,
                   operator>>

-----------------------------------------------------------------------------
(* The reload of the page *)

RefreshWanted ==
    /\ outcome \in {"stale", "unknown", "mismatch"}
    /\ ~OperatorBusy /\ ~RefreshInProgress /\ ~TransitionInProgress

Queue(a) ==
    /\ pc' = [pc EXCEPT ![a] = "queued"]
    /\ got' = [got EXCEPT ![a] = [Nothing EXCEPT !.since = known]]

LoopRefreshes ==
    /\ "loop" \in Reconcilers /\ pc["loop"] = "unmatched"
    /\ RefreshWanted /\ Queue("loop")
    /\ UNCHANGED <<accounts, execution, control, operator>>

\* It may not now, or has done so a short time ago.
LoopGoesOn ==
    /\ "loop" \in Reconcilers /\ pc["loop"] = "unmatched" /\ Ends("loop")
    /\ UNCHANGED <<accounts, execution, control, operator>>

ScheduledRefresh ==
    /\ pc["page"] = "idle"
    /\ actions < MaxActions /\ actions' = actions + 1
    /\ pc' = [pc EXCEPT !["page"] = "queued"]
    /\ UNCHANGED <<accounts, execution, control, openPaused, shown, got>>

\* _variational_refresh_lock
TakeRefreshLock(a) ==
    /\ pc[a] = "queued" /\ ~RefreshInProgress
    /\ pc' = [pc EXCEPT ![a] = "drain"]
    /\ UNCHANGED <<accounts, execution, control, operator, got>>

\* Chrome is asked for its pages, then told to reload.
Reload(a) ==
    /\ pc[a] = "drain" /\ ~RequestInFlight
    /\ pc' = [pc EXCEPT ![a] = "reload"]
    /\ UNCHANGED <<accounts, execution, control, operator, got>>

Reloaded(a) ==
    /\ pc[a] = "reload"
    /\ pc' = [pc EXCEPT ![a] = IF a = "page" THEN "idle" ELSE "portfolio"]
    /\ UNCHANGED <<accounts, execution, control, operator, got>>

ReloadFails(a) ==
    /\ pc[a] = "reload" /\ Ends(a)
    /\ UNCHANGED <<accounts, execution, control, operator>>

AfterReload == [Nothing EXCEPT !.allow = TRUE, !.reloaded = TRUE]

\* wait_for_authoritative_portfolio_after the latest fill known before the reload
PortfolioArrives(a) ==
    /\ pc[a] = "portfolio" /\ snap.fills >= got[a].since
    /\ IF intent = "none" THEN Read(a, AfterReload)
       ELSE pc' = [pc EXCEPT ![a] = "inspect"] /\ UNCHANGED <<got, control>>
    /\ UNCHANGED <<accounts, execution, operator>>

PortfolioStaysAway(a) ==
    /\ pc[a] = "portfolio" /\ snap.fills < got[a].since
    /\ Ends(a)
    /\ UNCHANGED <<accounts, execution, control, operator>>

\* inspect_pending_var_intent_from_portfolio decides nothing before the answer, on an
\* old portfolio, or for an ambiguous Commit that shows no fill.
InspectUnknown(a) ==
    /\ pc[a] = "inspect"
    /\ \/ intent \in {"quoting", "sent"} \/ snap.fills < fills
       \/ intent = "ambiguous" /\ fills = known
    /\ Ends(a)
    /\ UNCHANGED <<accounts, execution, control, operator>>

InspectFills(a) ==
    /\ pc[a] = "inspect" /\ intent \in {"accepted", "ambiguous"} /\ snap.fills > known
    /\ Enter /\ pc' = [pc EXCEPT ![a] = "portfolio"]
    /\ UNCHANGED <<accounts, control, operator, got>>

InspectGone(a) ==
    /\ pc[a] = "inspect" /\ intent = "none"
    /\ Read(a, AfterReload)
    /\ UNCHANGED <<accounts, execution, operator>>

InspectRollsBack(a) ==
    /\ pc[a] = "inspect" /\ snap.fills = known
    /\ RollsBack /\ Ends(a)
    /\ UNCHANGED <<accounts, operator>>

-----------------------------------------------------------------------------
(* The operator: preview, guard, execution under the operator lock *)

StateGuard ==
    [account |-> account, tracked |-> tracked, intent |-> intent,
     transition |-> TransitionInProgress, openPaused |-> openPaused,
     paused |-> paused # "-"]

ResolvableAmbiguous == intent = "ambiguous" /\ request = "none" /\ ~hedging

Allowed(action) ==
    CASE action \in {"pause_open", "refresh_var"} -> TRUE
      [] action = "reconcile" -> ~TransitionInProgress \/ ResolvableAmbiguous
      [] action = "close" -> /\ ~TransitionInProgress /\ tracked # 0 /\ account # <<>>
                             /\ \/ outcome = "match"
                                \/ account.var # 0 /\ account.lighter = 0
      [] action = "close_lighter" -> /\ ~TransitionInProgress /\ account # <<>>
                                     /\ account.var = 0 /\ account.lighter # 0

Preview(action) ==
    /\ "operator" \in Reconcilers /\ ~OperatorBusy
    /\ actions < MaxActions /\ Allowed(action)
    /\ shown' = [action |-> action, guard |-> StateGuard] /\ actions' = actions + 1
    /\ UNCHANGED <<accounts, execution, control, openPaused, procs>>

StillShown == Allowed(shown.action) /\ shown.guard = StateGuard

Rejected ==
    /\ shown # <<>> /\ ~OperatorBusy /\ ~StillShown
    /\ shown' = <<>>
    /\ UNCHANGED <<accounts, execution, control, openPaused, actions, procs>>

Confirmed(chosen) == shown # <<>> /\ shown.action \in chosen /\ ~OperatorBusy /\ StillShown

PauseOpens ==
    /\ Confirmed({"pause_open"})
    /\ openPaused' = ~openPaused /\ shown' = <<>>
    /\ UNCHANGED <<accounts, execution, control, actions, procs>>

OperatorRefreshes ==
    /\ Confirmed({"reconcile", "refresh_var"})
    /\ Queue("operator") /\ shown' = <<>>
    /\ UNCHANGED <<accounts, execution, control, openPaused, actions>>

\* The state file is written before the position is looked up again.
OperatorCloses ==
    /\ Confirmed({"close", "close_lighter"})
    /\ openPaused' = TRUE
    /\ pc' = [pc EXCEPT !["operator"] = "closing"]
    /\ UNCHANGED <<accounts, execution, control, shown, actions, got>>

OperatorFlattens ==
    /\ "operator" \in Reconcilers /\ pc["operator"] = "closing"
    /\ shown.action = "close" /\ MayFlatten /\ Begin(TRUE)
    /\ pc' = [pc EXCEPT !["operator"] = "flattening"]
    /\ UNCHANGED <<accounts, known, tracked, hedging, control, operator, got>>

OperatorFindsNothing ==
    /\ "operator" \in Reconcilers /\ pc["operator"] = "closing"
    /\ shown.action = "close" /\ ~MayFlatten
    /\ Ends("operator") /\ shown' = <<>>
    /\ UNCHANGED <<accounts, execution, control, openPaused, actions>>

\* A reduce-only order for what Lighter still holds
OperatorClosesLighter ==
    /\ "operator" \in Reconcilers /\ pc["operator"] = "closing"
    /\ shown.action = "close_lighter"
    /\ hedging' = TRUE /\ Ends("operator") /\ shown' = <<>>
    /\ UNCHANGED <<accounts, orders, request, flattening, intent, known, tracked, control,
                   openPaused, actions>>

OperatorAnswered ==
    /\ "operator" \in Reconcilers /\ pc["operator"] = "flattening" /\ request = "none"
    /\ Ends("operator") /\ shown' = <<>>
    /\ UNCHANGED <<accounts, execution, control, openPaused, actions>>

-----------------------------------------------------------------------------
(* The accounts *)

Publish ==
    /\ snap.fills # fills \/ snap.rev < MaxRevisions
    /\ snap' = [var |-> var, fills |-> fills, rev |-> snap.rev + 1]
    /\ UNCHANGED <<var, lighter, fills, drifts, execution, control, operator, procs>>

ManualTrade ==
    /\ intent = "none" /\ request = "none" /\ fills = known /\ orders < MaxOrders
    /\ drifts < MaxDrifts /\ drifts' = drifts + 1
    /\ orders' = orders + 1
    /\ var' = (IF var = 0 THEN orders' ELSE 0) /\ fills' = fills + 1
    /\ UNCHANGED <<lighter, snap, request, flattening, intent, known, tracked,
                   hedging, control, operator, procs>>

Drift ==
    /\ drifts < MaxDrifts /\ drifts' = drifts + 1
    /\ lighter' \in {0, orders} \ {lighter}
    /\ UNCHANGED <<var, fills, snap, execution, control, operator, procs>>

-----------------------------------------------------------------------------
Order == \/ Submit \/ QuoteFails \/ Commit \/ Execute \/ Refused \/ Accepted \/ Ambiguous
         \/ Confirm \/ Unconfirmed \/ Hedged \/ HedgeFails
Operate == \/ (\E action \in OperatorActions : Preview(action))
           \/ Rejected \/ PauseOpens \/ OperatorRefreshes \/ OperatorCloses
           \/ OperatorFlattens \/ OperatorFindsNothing \/ OperatorClosesLighter
           \/ OperatorAnswered
Compare(a) == ReadLighter(a) \/ LighterFails(a) \/ Mismatch(a) \/ Match(a)
Refresh(a) == \/ TakeRefreshLock(a) \/ Reload(a) \/ Reloaded(a) \/ ReloadFails(a)
              \/ PortfolioArrives(a) \/ PortfolioStaysAway(a) \/ InspectUnknown(a)
              \/ InspectFills(a) \/ InspectGone(a) \/ InspectRollsBack(a)
Next == \/ Order \/ Operate \/ Publish \/ ManualTrade \/ Drift
        \/ LoopReconciles \/ WatchdogReconciles \/ LoopRefreshes \/ LoopGoesOn \/ ScheduledRefresh
        \/ \E a \in Actors : Compare(a) \/ Refresh(a)

Spec == Init /\ [][Next]_vars

\* The loops run on; commands are answered within their time, hedges and portfolio
\* messages come; a request to Lighter that is made again and again succeeds.
FairSpec ==
    /\ Spec
    /\ WF_vars(LoopReconciles \/ LoopGoesOn) /\ WF_vars(Publish)
    /\ WF_vars(Confirm) /\ WF_vars(Hedged) /\ WF_vars(Unconfirmed)
    /\ WF_vars(QuoteFails \/ Refused \/ Accepted \/ Ambiguous)
    /\ \A a \in Actors : WF_vars(Refresh(a))
    /\ \A a \in Reconcilers : /\ WF_vars(Compare(a)) /\ SF_vars(ReadLighter(a))
                              /\ SF_vars(Match(a))

-----------------------------------------------------------------------------
(* Properties *)

\* A pause that reconciliation does not own stays as it is, whatever pauses and matches
\* follow (the comment at main.py:10999: it "keeps ownership and remains latched").
PauseKeepsOwner == latched => paused = "other"

\* With the loop alone at work, automation is paused for a mismatch only after the accounts
\* have really parted: an order, its late portfolio or its hedge between two readings
\* raises no alarm (unless a match has dropped the order's intent: see IntentKept).
NoFalseAlarm ==
    [][paused # "mismatch" /\ paused' = "mismatch" => drifts > 0 \/ actions > 0 \/ dropped]_vars

\* The page is never reloaded under a command of the strategy: it is let finish first,
\* and none is begun until the reload is over.
ReloadSparesOrders ==
    \A a \in Actors : pc[a] = "reload" => request = "none" \/ flattening

\* The same for every command: "Run a queued, highest-priority reload without aborting
\* an HTTP Commit" (main.py:13534).
ReloadSparesCommits == \A a \in Actors : pc[a] = "reload" => request # "sent"

AccountsAgree ==
    /\ var = tracked /\ lighter = tracked /\ fills = known
    /\ ~TransitionInProgress

\* While both accounts agree with what is tracked, automation does not stay paused for
\* reconciliation, nor unready.
ReconcileHeals == []<>(~AccountsAgree \/ (ready /\ paused \notin ReconReasons))

\* A Commit in flight keeps its intent until it is answered.
IntentKept == request = "sent" => intent # "none"
=============================================================================
