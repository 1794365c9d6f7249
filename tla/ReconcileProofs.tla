--------------------------- MODULE ReconcileProofs ---------------------------
(***************************************************************************)
(* Reconcile for any number of orders, actions and reconcilers: a pause    *)
(* keeps its owner, no reload of the page cuts a command of the strategy,  *)
(* every variable keeps its type, and a mismatch found after a reload,     *)
(* with the loop alone at work, is a true one.                             *)
(***************************************************************************)
EXTENDS Reconcile, TLAPS

\* What a pause that is not owned needs to stay so: the reason reconciliation remembers is
\* always one of its own.
Owner ==
    /\ reconPause \in ReconReasons \cup {"none"}
    /\ PauseKeepsOwner

-----------------------------------------------------------------------------
\* A pause for reconciliation changes nothing when another owner paused.
LEMMA PausePreservesOwner ==
    ASSUME NEW reason \in ReconReasons, Owner, PauseForReconciliation(reason)
    PROVE  Owner'
BY DEF Owner, PauseKeepsOwner, PauseForReconciliation, ReconcileOwnsPause, ReconReasons

LEMMA OtherPausePreservesOwner ==
    ASSUME Owner, PauseAutomation
    PROVE  Owner'
BY DEF Owner, PauseKeepsOwner, PauseAutomation

LEMMA UntouchedPreservesOwner ==
    ASSUME Owner, UNCHANGED <<paused, reconPause, latched>>
    PROVE  Owner'
BY DEF Owner, PauseKeepsOwner

\* Reading Variational either degrades the outcome or leaves the controls alone.
LEMMA ReadPreservesOwner ==
    ASSUME NEW a, NEW how, Owner, Read(a, how)
    PROVE  Owner'
BY UntouchedPreservesOwner DEF Read, Degrade, control

LEMMA OrderPreservesOwner ==
    ASSUME Owner, Order
    PROVE  Owner'
<1>1. CASE Submit \/ Commit \/ Execute \/ Accepted \/ Confirm \/ Hedged
  BY <1>1, UntouchedPreservesOwner
     DEF Submit, Commit, Execute, Accepted, Confirm, Hedged, control
<1>2. CASE QuoteFails \/ Refused
  BY <1>2, UntouchedPreservesOwner, OtherPausePreservesOwner DEF QuoteFails, Refused
<1>3. CASE Ambiguous \/ Unconfirmed
  BY <1>3, OtherPausePreservesOwner DEF Ambiguous, Unconfirmed, RollsBack
<1>4. CASE HedgeFails
  BY <1>4, PausePreservesOwner DEF HedgeFails, ReconReasons
<1> QED
  BY <1>1, <1>2, <1>3, <1>4 DEF Order

LEMMA OperatePreservesOwner ==
    ASSUME Owner, Operate
    PROVE  Owner'
<1>1. UNCHANGED control
  BY DEF Operate, Preview, Rejected, PauseOpens, OperatorRefreshes, OperatorCloses,
         OperatorFlattens, OperatorFindsNothing, OperatorClosesLighter, OperatorAnswered
<1> QED
  BY <1>1, UntouchedPreservesOwner DEF control

LEMMA ComparePreservesOwner ==
    ASSUME NEW a, Owner, Compare(a)
    PROVE  Owner'
<1>1. CASE ReadLighter(a) \/ LighterFails(a)
  BY <1>1, UntouchedPreservesOwner DEF ReadLighter, LighterFails, Degrade, control
<1>2. CASE Mismatch(a)
  BY <1>2, PausePreservesOwner, UntouchedPreservesOwner DEF Mismatch, ReconReasons
<1>3. CASE Match(a)
  <2>1. latched' = latched /\ paused' = (IF Resumes THEN "-" ELSE paused)
        /\ reconPause' = (IF Resumes THEN "none" ELSE reconPause)
    BY <1>3 DEF Match
  <2> QED
    BY <2>1 DEF Owner, PauseKeepsOwner, Resumes, ReconReasons
<1> QED
  BY <1>1, <1>2, <1>3 DEF Compare

LEMMA RefreshPreservesOwner ==
    ASSUME NEW a, Owner, Refresh(a)
    PROVE  Owner'
<1>1. CASE \/ TakeRefreshLock(a) \/ Reload(a) \/ Reloaded(a) \/ ReloadFails(a)
           \/ PortfolioStaysAway(a) \/ InspectUnknown(a) \/ InspectFills(a)
  BY <1>1, UntouchedPreservesOwner
     DEF TakeRefreshLock, Reload, Reloaded, ReloadFails, PortfolioStaysAway,
         InspectUnknown, InspectFills, control
<1>2. CASE PortfolioArrives(a) \/ InspectGone(a)
  BY <1>2, ReadPreservesOwner, UntouchedPreservesOwner
     DEF PortfolioArrives, InspectGone, control
<1>3. CASE InspectRollsBack(a)
  BY <1>3, OtherPausePreservesOwner DEF InspectRollsBack, RollsBack
<1> QED
  BY <1>1, <1>2, <1>3 DEF Refresh

\* A pause another owner has set stays, whatever pauses and matches follow.
THEOREM PauseKeepsItsOwner == Spec => []PauseKeepsOwner
<1>1. Init => Owner
  BY DEF Init, Owner, PauseKeepsOwner
<1>2. ASSUME Owner, [Next]_vars
      PROVE  Owner'
  <2>1. CASE Order
    BY <1>2, <2>1, OrderPreservesOwner
  <2>2. CASE Operate
    BY <1>2, <2>2, OperatePreservesOwner
  <2>3. CASE Publish \/ ManualTrade \/ Drift
    BY <1>2, <2>3, UntouchedPreservesOwner DEF Publish, ManualTrade, Drift, control
  <2>4. CASE LoopReconciles \/ WatchdogReconciles
    BY <1>2, <2>4, ReadPreservesOwner DEF LoopReconciles, WatchdogReconciles
  <2>5. CASE LoopRefreshes \/ LoopGoesOn \/ ScheduledRefresh
    BY <1>2, <2>5, UntouchedPreservesOwner
       DEF LoopRefreshes, LoopGoesOn, ScheduledRefresh, control
  <2>6. ASSUME NEW a \in Actors, Compare(a) \/ Refresh(a)
        PROVE  Owner'
    BY <1>2, <2>6, ComparePreservesOwner, RefreshPreservesOwner
  <2>7. CASE UNCHANGED vars
    BY <1>2, <2>7, UntouchedPreservesOwner DEF vars, control
  <2> QED
    BY <1>2, <2>1, <2>2, <2>3, <2>4, <2>5, <2>6, <2>7 DEF Next
<1>3. Owner => PauseKeepsOwner
  BY DEF Owner
<1> QED
  BY <1>1, <1>2, <1>3, PTL DEF Spec

-----------------------------------------------------------------------------
\* The strengthening of ReloadSparesOrders: pc has a place for every actor.
Spared == pc \in [Actors -> Places] /\ ReloadSparesOrders

\* A step that moves one actor, not to a reload, and begins no order.
LEMMA MovePreservesSpared ==
    ASSUME NEW a, NEW place \in Places, Spared,
           pc' = [pc EXCEPT ![a] = place], place # "reload",
           request' = request, flattening' = flattening
    PROVE  Spared'
<1>1. pc' \in [Actors -> Places]
  BY DEF Spared
<1>2. ASSUME NEW x \in Actors, pc'[x] = "reload"
      PROVE  pc[x] = "reload"
  BY <1>2 DEF Spared
<1> QED
  BY <1>1, <1>2 DEF Spared, ReloadSparesOrders

\* A strategy order begins only while no page is being reloaded.
LEMMA OrderSpares ==
    ASSUME Spared, Order
    PROVE  Spared'
<1>1. CASE Submit
  <2>1. pc' = pc /\ \A a \in Actors : pc[a] # "reload"
    BY <1>1 DEF Submit, CanSubmit, RefreshInProgress, procs
  <2> QED
    BY <2>1 DEF Spared, ReloadSparesOrders
<1>2. CASE HedgeFails
  <2>1. pc' = pc /\ (flattening' \/ UNCHANGED <<request, flattening>>)
    BY <1>2 DEF HedgeFails, Begin, procs
  <2> QED
    BY <2>1 DEF Spared, ReloadSparesOrders
<1>3. CASE Commit
  <2>1. pc' = pc /\ request = "quoting" /\ flattening' = flattening
    BY <1>3 DEF Commit, procs
  <2> QED
    BY <2>1 DEF Spared, ReloadSparesOrders
<1>4. CASE \/ QuoteFails \/ Execute \/ Refused \/ Accepted \/ Ambiguous
           \/ Confirm \/ Unconfirmed \/ Hedged
  <2>1. pc' = pc /\ (request' = "none" \/ UNCHANGED <<request, flattening>>)
    BY <1>4 DEF QuoteFails, Execute, Refused, Accepted, Ambiguous, Confirm, Enter,
                Unconfirmed, RollsBack, Hedged, procs, execution
  <2> QED
    BY <2>1 DEF Spared, ReloadSparesOrders
<1> QED
  BY <1>1, <1>2, <1>3, <1>4 DEF Order

LEMMA OperateSpares ==
    ASSUME Spared, Operate
    PROVE  Spared'
<1>1. CASE OperatorFlattens
  <2>1. flattening' /\ pc' = [pc EXCEPT !["operator"] = "flattening"]
    BY <1>1 DEF OperatorFlattens, Begin
  <2>2. pc' \in [Actors -> Places]
    BY <2>1 DEF Spared, Places
  <2> QED
    BY <2>1, <2>2 DEF Spared, ReloadSparesOrders
<1>2. CASE (\E action \in OperatorActions : Preview(action)) \/ Rejected \/ PauseOpens
  <2>1. UNCHANGED <<pc, request, flattening>>
    BY <1>2 DEF Preview, Rejected, PauseOpens, procs, execution
  <2> QED
    BY <2>1 DEF Spared, ReloadSparesOrders
<1>3. CASE OperatorRefreshes
  <2>1. UNCHANGED <<request, flattening>> /\ pc' = [pc EXCEPT !["operator"] = "queued"]
    BY <1>3 DEF OperatorRefreshes, Queue, execution
  <2> QED
    BY <2>1, MovePreservesSpared DEF Places
<1>4. CASE OperatorCloses
  <2>1. UNCHANGED <<request, flattening>> /\ pc' = [pc EXCEPT !["operator"] = "closing"]
    BY <1>4 DEF OperatorCloses, execution
  <2> QED
    BY <2>1, MovePreservesSpared DEF Places
<1>5. CASE OperatorFindsNothing \/ OperatorClosesLighter \/ OperatorAnswered
  <2>1. UNCHANGED <<request, flattening>> /\ pc' = [pc EXCEPT !["operator"] = "idle"]
    BY <1>5 DEF OperatorFindsNothing, OperatorClosesLighter, OperatorAnswered, Ends,
                execution
  <2> QED
    BY <2>1, MovePreservesSpared DEF Places
<1> QED
  BY <1>1, <1>2, <1>3, <1>4, <1>5 DEF Operate

\* Wherever reading Variational leads, it is not to a reload.
LEMMA ReadSpares ==
    ASSUME NEW a, NEW how, Spared, Read(a, how), UNCHANGED <<request, flattening>>
    PROVE  Spared'
<1>1. \/ pc' = [pc EXCEPT ![a] = "idle"]
      \/ pc' = [pc EXCEPT ![a] = "unmatched"]
      \/ pc' = [pc EXCEPT ![a] = "lighter"]
  BY DEF Read, EndsUnmatched, Ends
<1> QED
  BY <1>1, MovePreservesSpared DEF Places

LEMMA CompareSpares ==
    ASSUME NEW a \in Actors, Spared, Compare(a)
    PROVE  Spared'
<1>1. /\ UNCHANGED <<request, flattening>>
      /\ \/ pc' = [pc EXCEPT ![a] = "orders"]
         \/ pc' = [pc EXCEPT ![a] = "idle"]
         \/ pc' = [pc EXCEPT ![a] = "unmatched"]
  BY DEF Compare, ReadLighter, LighterFails, Mismatch, Match, EndsUnmatched, Ends,
         execution
<1> QED
  BY <1>1, MovePreservesSpared DEF Places

\* The reload itself waits for every command in flight.
LEMMA RefreshSpares ==
    ASSUME NEW a \in Actors, Spared, Refresh(a)
    PROVE  Spared'
<1>1. CASE Reload(a)
  <2>1. UNCHANGED <<request, flattening>> /\ request = "none"
        /\ pc' = [pc EXCEPT ![a] = "reload"]
    BY <1>1 DEF Reload, RequestInFlight, execution
  <2>2. pc' \in [Actors -> Places]
    BY <2>1 DEF Spared, Places
  <2> QED
    BY <2>1, <2>2 DEF Spared, ReloadSparesOrders
<1>2. CASE Reloaded(a)
  <2>1. UNCHANGED <<request, flattening>>
        /\ (pc' = [pc EXCEPT ![a] = "idle"] \/ pc' = [pc EXCEPT ![a] = "portfolio"])
    BY <1>2 DEF Reloaded, execution
  <2> QED
    BY <2>1, MovePreservesSpared DEF Places
<1>3. CASE TakeRefreshLock(a)
  <2>1. UNCHANGED <<request, flattening>> /\ pc' = [pc EXCEPT ![a] = "drain"]
    BY <1>3 DEF TakeRefreshLock, execution
  <2> QED
    BY <2>1, MovePreservesSpared DEF Places
<1>4. CASE ReloadFails(a) \/ PortfolioStaysAway(a) \/ InspectUnknown(a) \/ InspectRollsBack(a)
  <2>1. UNCHANGED <<request, flattening>> /\ pc' = [pc EXCEPT ![a] = "idle"]
    BY <1>4 DEF ReloadFails, PortfolioStaysAway, InspectUnknown, InspectRollsBack,
                RollsBack, Ends, execution
  <2> QED
    BY <2>1, MovePreservesSpared DEF Places
<1>5. CASE InspectFills(a)
  <2>1. UNCHANGED <<request, flattening>> /\ pc' = [pc EXCEPT ![a] = "portfolio"]
    BY <1>5 DEF InspectFills, Enter
  <2> QED
    BY <2>1, MovePreservesSpared DEF Places
<1>6. CASE PortfolioArrives(a) \/ InspectGone(a)
  <2>1. UNCHANGED <<request, flattening>>
        /\ (Read(a, AfterReload) \/ pc' = [pc EXCEPT ![a] = "inspect"])
    BY <1>6 DEF PortfolioArrives, InspectGone, execution
  <2>2. CASE Read(a, AfterReload)
    BY <2>1, <2>2, ReadSpares
  <2>3. CASE pc' = [pc EXCEPT ![a] = "inspect"]
    BY <2>1, <2>3, MovePreservesSpared DEF Places
  <2> QED
    BY <2>1, <2>2, <2>3
<1> QED
  BY <1>1, <1>2, <1>3, <1>4, <1>5, <1>6 DEF Refresh

\* A reload of the page cuts no command of the strategy.
THEOREM ReloadSparesTheStrategy == Spec => []ReloadSparesOrders
<1>1. Init => Spared
  BY DEF Init, Spared, Places, ReloadSparesOrders
<1>2. ASSUME Spared, [Next]_vars
      PROVE  Spared'
  <2>1. CASE Order
    BY <1>2, <2>1, OrderSpares
  <2>2. CASE Operate
    BY <1>2, <2>2, OperateSpares
  <2>3. CASE Publish \/ ManualTrade \/ Drift
    <3>1. UNCHANGED <<pc, request, flattening>>
      BY <2>3 DEF Publish, ManualTrade, Drift, procs, execution
    <3> QED
      BY <1>2, <3>1 DEF Spared, ReloadSparesOrders
  <2>4. CASE LoopReconciles
    <3>1. UNCHANGED <<request, flattening>> /\ Read("loop", Nothing)
      BY <2>4 DEF LoopReconciles, execution
    <3> QED
      BY <1>2, <3>1, ReadSpares
  <2>5. CASE WatchdogReconciles
    <3>1. UNCHANGED <<request, flattening>>
          /\ \E how : Read("watchdog", how)
      BY <2>5 DEF WatchdogReconciles, execution
    <3> QED
      BY <1>2, <3>1, ReadSpares
  <2>6. CASE LoopRefreshes \/ ScheduledRefresh
    <3>1. UNCHANGED <<request, flattening>>
          /\ \E a : pc' = [pc EXCEPT ![a] = "queued"]
      BY <2>6 DEF LoopRefreshes, ScheduledRefresh, Queue, execution
    <3> QED
      BY <1>2, <3>1, MovePreservesSpared DEF Places
  <2>7. CASE LoopGoesOn
    <3>1. UNCHANGED <<request, flattening>> /\ pc' = [pc EXCEPT !["loop"] = "idle"]
      BY <2>7 DEF LoopGoesOn, Ends, execution
    <3> QED
      BY <1>2, <3>1, MovePreservesSpared DEF Places
  <2>8. ASSUME NEW a \in Actors, Compare(a) \/ Refresh(a)
        PROVE  Spared'
    BY <1>2, <2>8, CompareSpares, RefreshSpares
  <2>9. CASE UNCHANGED vars
    BY <1>2, <2>9 DEF Spared, ReloadSparesOrders, vars, procs, execution
  <2> QED
    BY <1>2, <2>1, <2>2, <2>3, <2>4, <2>5, <2>6, <2>7, <2>8, <2>9 DEF Next
<1>3. Spared => ReloadSparesOrders
  BY DEF Spared
<1> QED
  BY <1>1, <1>2, <1>3, PTL DEF Spec

-----------------------------------------------------------------------------
(* The types, by what the steps change together                            *)

Reading == [rev : Nat, var : Positions, lighter : Positions, since : Nat,
            allow : BOOLEAN, reloaded : BOOLEAN]

WorldTyped ==
    /\ var \in Positions /\ lighter \in Positions
    /\ tracked \in Positions /\ orders \in Positions
    /\ fills \in Nat /\ known \in Nat /\ drifts \in Nat /\ actions \in Nat
    /\ known <= fills
    /\ snap \in [var : Positions, fills : 0..fills, rev : Nat]

OrderTyped ==
    /\ request \in {"none", "quoting", "sent"}
    /\ intent \in Intents
    /\ flattening \in BOOLEAN /\ hedging \in BOOLEAN

PauseTyped ==
    /\ paused \in ReconReasons \cup {"-", "other"}
    /\ reconPause \in ReconReasons \cup {"none"}
    /\ latched \in BOOLEAN

OutcomeTyped ==
    /\ outcome \in {"none", "match", "mismatch", "stale", "unknown"}
    /\ ready \in BOOLEAN /\ dropped \in BOOLEAN
    /\ firstToken \in Token \cup {<<>>} /\ account \in Account \cup {<<>>}

ScreenTyped ==
    /\ openPaused \in BOOLEAN
    /\ shown \in [action : OperatorActions, guard : Guard] \cup {<<>>}

PlacesTyped == pc \in [Actors -> Places] /\ got \in [Actors -> Reading]

Typed == /\ WorldTyped /\ OrderTyped /\ PauseTyped /\ OutcomeTyped
         /\ ScreenTyped /\ PlacesTyped

\* The parts are the whole.
LEMMA TypedIsTypeOK == Typed <=> TypeOK
<1> SUFFICES ASSUME PlacesTyped <=>
                        /\ pc \in [Actors -> Places]
                        /\ got \in [Actors ->
                              [rev : Nat, var : Positions, lighter : Positions, since : Nat,
                               allow : BOOLEAN, reloaded : BOOLEAN]]
             PROVE  Typed <=> TypeOK
  BY DEF PlacesTyped, Reading
<1> QED
  BY DEF Typed, TypeOK, WorldTyped, OrderTyped, PauseTyped, OutcomeTyped, ScreenTyped

\* How far an order is, whoever moves it.
LEMMA NextKeepsOrderTyped ==
    ASSUME OrderTyped, [Next]_vars
    PROVE  OrderTyped'
<1> USE DEF OrderTyped, Intents, execution, RollsBack, Enter, Begin
<1>1. CASE Order
  BY <1>1 DEF Order, Submit, QuoteFails, Commit, Execute, Refused, Accepted, Ambiguous,
     Confirm, Unconfirmed, Hedged, HedgeFails
<1>2. CASE Operate
  BY <1>2 DEF Operate, Preview, Rejected, PauseOpens, OperatorRefreshes, OperatorCloses,
     OperatorFlattens, OperatorFindsNothing, OperatorClosesLighter, OperatorAnswered
<1>3. ASSUME NEW a \in Actors, Compare(a) PROVE OrderTyped'
  BY <1>3 DEF Compare, ReadLighter, LighterFails, Mismatch, Match
<1>4. ASSUME NEW a \in Actors, Refresh(a) PROVE OrderTyped'
  BY <1>4 DEF Refresh, TakeRefreshLock, Reload, Reloaded, ReloadFails, PortfolioArrives,
     PortfolioStaysAway, InspectUnknown, InspectFills, InspectGone, InspectRollsBack
<1>5. CASE \/ Publish \/ ManualTrade \/ Drift \/ LoopReconciles \/ WatchdogReconciles
           \/ LoopRefreshes \/ LoopGoesOn \/ ScheduledRefresh \/ UNCHANGED vars
  BY <1>5 DEF Publish, ManualTrade, Drift, LoopReconciles, WatchdogReconciles,
     LoopRefreshes, LoopGoesOn, ScheduledRefresh, vars
<1> QED
  BY <1>1, <1>2, <1>3, <1>4, <1>5 DEF Next

\* The accounts, and what the runtime knows of them.
LEMMA NextKeepsWorldTyped ==
    ASSUME WorldTyped, OrderTyped, [Next]_vars
    PROVE  WorldTyped'
<1> USE BoundAssumption DEF WorldTyped, accounts, execution, operator, RollsBack, Enter,
    Begin, Positions
<1>1. CASE Order
  <2>1. CASE Submit \/ QuoteFails \/ Commit \/ Refused \/ Ambiguous
    BY <2>1 DEF Submit, QuoteFails, Commit, Refused, Ambiguous
  <2>2. CASE Execute
    BY <2>2 DEF Execute
  <2>3. CASE Accepted \/ Confirm \/ Unconfirmed \/ Hedged
    BY <2>3 DEF Accepted, Confirm, Unconfirmed, Hedged
  <2>4. CASE HedgeFails
    BY <2>4 DEF HedgeFails
  <2> QED
    BY <1>1, <2>1, <2>2, <2>3, <2>4 DEF Order
<1>2. CASE Operate
  <2>1. CASE (\E action \in OperatorActions : Preview(action))
    BY <2>1 DEF Preview
  <2>2. CASE OperatorFlattens
    BY <2>2 DEF OperatorFlattens
  <2>3. CASE \/ Rejected \/ PauseOpens \/ OperatorRefreshes \/ OperatorCloses
             \/ OperatorFindsNothing \/ OperatorClosesLighter \/ OperatorAnswered
    <3>1. UNCHANGED <<var, lighter, tracked, orders, fills, known, drifts, actions, snap>>
      BY <2>3
         DEF Rejected, PauseOpens, OperatorRefreshes, OperatorCloses, OperatorFindsNothing,
             OperatorClosesLighter, OperatorAnswered
    <3> QED
      BY <3>1
  <2> QED
    BY <1>2, <2>1, <2>2, <2>3 DEF Operate
<1>3. ASSUME NEW a \in Actors, Compare(a) PROVE WorldTyped'
  BY <1>3 DEF Compare, ReadLighter, LighterFails, Mismatch, Match
<1>4. ASSUME NEW a \in Actors, Refresh(a) PROVE WorldTyped'
  BY <1>4 DEF Refresh, TakeRefreshLock, Reload, Reloaded, ReloadFails, PortfolioArrives,
     PortfolioStaysAway, InspectUnknown, InspectFills, InspectGone, InspectRollsBack
<1>5. CASE Publish \/ Drift
  BY <1>5 DEF Publish, Drift
<1>6. CASE ManualTrade
  BY <1>6 DEF ManualTrade
<1>7. CASE \/ LoopReconciles \/ WatchdogReconciles
           \/ LoopRefreshes \/ LoopGoesOn \/ ScheduledRefresh \/ UNCHANGED vars
  BY <1>7 DEF LoopReconciles, WatchdogReconciles,
     LoopRefreshes, LoopGoesOn, ScheduledRefresh, vars
<1> QED
  BY <1>1, <1>2, <1>3, <1>4, <1>5, <1>6, <1>7 DEF Next

\* The pause and its owner.
LEMMA NextKeepsPauseTyped ==
    ASSUME PauseTyped, [Next]_vars
    PROVE  PauseTyped'
<1> USE DEF PauseTyped, control, RollsBack, PauseAutomation, PauseForReconciliation,
            ReconReasons, Read, Degrade
<1>1. CASE Order
  BY <1>1 DEF Order, Submit, QuoteFails, Commit, Execute, Refused, Accepted, Ambiguous,
     Confirm, Unconfirmed, Hedged, HedgeFails
<1>2. CASE Operate
  BY <1>2 DEF Operate, Preview, Rejected, PauseOpens, OperatorRefreshes, OperatorCloses,
     OperatorFlattens, OperatorFindsNothing, OperatorClosesLighter, OperatorAnswered
<1>3. ASSUME NEW a \in Actors, Compare(a) PROVE PauseTyped'
  BY <1>3 DEF Compare, ReadLighter, LighterFails, Mismatch, Match
<1>4. ASSUME NEW a \in Actors, Refresh(a) PROVE PauseTyped'
  BY <1>4 DEF Refresh, TakeRefreshLock, Reload, Reloaded, ReloadFails, PortfolioArrives,
     PortfolioStaysAway, InspectUnknown, InspectFills, InspectGone, InspectRollsBack
<1>5. CASE \/ Publish \/ ManualTrade \/ Drift \/ LoopReconciles \/ WatchdogReconciles
           \/ LoopRefreshes \/ LoopGoesOn \/ ScheduledRefresh \/ UNCHANGED vars
  BY <1>5 DEF Publish, ManualTrade, Drift, LoopReconciles, WatchdogReconciles,
     LoopRefreshes, LoopGoesOn, ScheduledRefresh, vars
<1> QED
  BY <1>1, <1>2, <1>3, <1>4, <1>5 DEF Next

\* What the comparisons found.
LEMMA NextKeepsOutcomeTyped ==
    ASSUME OutcomeTyped, PlacesTyped, [Next]_vars
    PROVE  OutcomeTyped'
<1> USE DEF OutcomeTyped, control, RollsBack, Read, Degrade
<1>1. CASE Order
  BY <1>1 DEF Order, Submit, QuoteFails, Commit, Execute, Refused, Accepted, Ambiguous,
     Confirm, Unconfirmed, Hedged, HedgeFails
<1>2. CASE Operate
  BY <1>2 DEF Operate, Preview, Rejected, PauseOpens, OperatorRefreshes, OperatorCloses,
     OperatorFlattens, OperatorFindsNothing, OperatorClosesLighter, OperatorAnswered
<1>3. ASSUME NEW a \in Actors, Compare(a) PROVE OutcomeTyped'
  <2>1. TokenOf(got[a]) \in Token /\ [var |-> got[a].var, lighter |-> got[a].lighter] \in Account
    BY DEF PlacesTyped, Reading, TokenOf, Token, Account
  <2>2. CASE ReadLighter(a) \/ LighterFails(a)
    BY <2>2 DEF ReadLighter, LighterFails
  <2>3. CASE Mismatch(a)
    BY <2>1, <2>3 DEF Mismatch, Sees
  <2>4. CASE Match(a)
    BY <2>1, <2>4 DEF Match, Sees
  <2> QED
    BY <1>3, <2>2, <2>3, <2>4 DEF Compare
<1>4. ASSUME NEW a \in Actors, Refresh(a) PROVE OutcomeTyped'
  BY <1>4 DEF Refresh, TakeRefreshLock, Reload, Reloaded, ReloadFails, PortfolioArrives,
     PortfolioStaysAway, InspectUnknown, InspectFills, InspectGone, InspectRollsBack
<1>5. CASE \/ Publish \/ ManualTrade \/ Drift \/ LoopReconciles \/ WatchdogReconciles
           \/ LoopRefreshes \/ LoopGoesOn \/ ScheduledRefresh \/ UNCHANGED vars
  BY <1>5 DEF Publish, ManualTrade, Drift, LoopReconciles, WatchdogReconciles,
     LoopRefreshes, LoopGoesOn, ScheduledRefresh, vars
<1> QED
  BY <1>1, <1>2, <1>3, <1>4, <1>5 DEF Next

\* What the operator is shown.
LEMMA NextKeepsScreenTyped ==
    ASSUME Typed, [Next]_vars
    PROVE  ScreenTyped'
<1>1. StateGuard \in Guard
  <2>1. intent \in Intents
    BY DEF Typed, OrderTyped
  <2>2. TransitionInProgress \in BOOLEAN /\ (paused # "-") \in BOOLEAN
    BY DEF TransitionInProgress
  <2>3. account \in Account \cup {<<>>} /\ tracked \in Positions /\ openPaused \in BOOLEAN
    BY DEF Typed, OutcomeTyped, WorldTyped, ScreenTyped
  <2> QED
    BY <2>1, <2>2, <2>3 DEF StateGuard, Guard
<1>2. ScreenTyped
  BY DEF Typed
<1>3. CASE UNCHANGED <<openPaused, shown>>
  BY <1>2, <1>3 DEF ScreenTyped
<1>4. CASE Order \/ Publish \/ ManualTrade \/ Drift \/ LoopReconciles \/ WatchdogReconciles
           \/ LoopRefreshes \/ LoopGoesOn \/ ScheduledRefresh \/ UNCHANGED vars
  BY <1>3, <1>4
     DEF Order, Submit, QuoteFails, Commit, Execute, Refused, Accepted, Ambiguous, Confirm,
         Unconfirmed, Hedged, HedgeFails, Publish, ManualTrade, Drift, LoopReconciles,
         WatchdogReconciles, LoopRefreshes, LoopGoesOn, ScheduledRefresh, vars, operator
<1>5. ASSUME NEW a \in Actors, Compare(a) \/ Refresh(a) PROVE ScreenTyped'
  BY <1>3, <1>5
     DEF Compare, ReadLighter, LighterFails, Mismatch, Match, Refresh, TakeRefreshLock,
         Reload, Reloaded, ReloadFails, PortfolioArrives, PortfolioStaysAway,
         InspectUnknown, InspectFills, InspectGone, InspectRollsBack, operator
<1>6. CASE Operate
  <2>1. ASSUME NEW action \in OperatorActions, Preview(action)
        PROVE  ScreenTyped'
    BY <1>1, <1>2, <2>1 DEF Preview, ScreenTyped
  <2>2. CASE PauseOpens \/ OperatorCloses
    BY <1>2, <2>2 DEF PauseOpens, OperatorCloses, ScreenTyped
  <2>3. CASE \/ Rejected \/ OperatorRefreshes \/ OperatorFindsNothing
             \/ OperatorClosesLighter \/ OperatorAnswered
    BY <1>2, <2>3 DEF Rejected, OperatorRefreshes, OperatorFindsNothing,
       OperatorClosesLighter, OperatorAnswered, ScreenTyped
  <2>4. CASE OperatorFlattens
    BY <1>3, <2>4 DEF OperatorFlattens, operator
  <2> QED
    BY <1>6, <2>1, <2>2, <2>3, <2>4 DEF Operate
<1> QED
  BY <1>4, <1>5, <1>6 DEF Next

\* A reading that has not begun.
LEMMA NothingIsReading == Nothing \in Reading
<1>1. 0 \in Positions
  BY BoundAssumption DEF Positions
<1> QED
  BY <1>1 DEF Nothing, Reading

\* One actor moves and keeps, or begins, a reading.
LEMMA MoveKeepsPlaces ==
    ASSUME PlacesTyped, NEW a, NEW place \in Places, NEW r \in Reading,
           pc' = [pc EXCEPT ![a] = place],
           got' = got \/ got' = [got EXCEPT ![a] = r]
    PROVE  PlacesTyped'
BY DEF PlacesTyped

\* A reconciliation ends.
LEMMA EndKeepsPlaces ==
    ASSUME PlacesTyped, NEW a, NEW how, Ends(a) \/ EndsUnmatched(a, how)
    PROVE  PlacesTyped'
BY NothingIsReading, MoveKeepsPlaces DEF Ends, EndsUnmatched, Places

\* Variational is read, or found stale.
LEMMA ReadKeepsPlaces ==
    ASSUME Typed, NEW a, NEW how \in Reading, Read(a, how)
    PROVE  PlacesTyped'
<1>1. CASE Stale
  BY <1>1, EndKeepsPlaces DEF Read, Typed
<1>2. CASE ~Stale
  <2>1. [how EXCEPT !.rev = snap.rev, !.var = snap.var] \in Reading
    BY DEF Typed, WorldTyped, Reading
  <2> QED
    BY <1>2, <2>1, MoveKeepsPlaces DEF Read, Typed, Places
<1> QED
  BY <1>1, <1>2

\* Where the actors are, and what they have read.
LEMMA NextKeepsPlacesTyped ==
    ASSUME Typed, [Next]_vars
    PROVE  PlacesTyped'
<1>1. PlacesTyped /\ known \in Nat /\ lighter \in Positions
  BY DEF Typed, WorldTyped
<1>2. [Nothing EXCEPT !.since = known] \in Reading /\ AfterReload \in Reading
      /\ [Nothing EXCEPT !.allow = TRUE] \in Reading
  BY <1>1, NothingIsReading DEF Reading, AfterReload
<1>3. CASE UNCHANGED procs
  BY <1>1, <1>3 DEF PlacesTyped, procs
<1>4. CASE Order \/ Publish \/ ManualTrade \/ Drift \/ UNCHANGED vars
  BY <1>3, <1>4
     DEF Order, Submit, QuoteFails, Commit, Execute, Refused, Accepted, Ambiguous, Confirm,
         Unconfirmed, Hedged, HedgeFails, Publish, ManualTrade, Drift, vars
<1>5. CASE LoopReconciles \/ WatchdogReconciles
  BY <1>2, <1>5, NothingIsReading, ReadKeepsPlaces DEF LoopReconciles, WatchdogReconciles
<1>6. CASE LoopRefreshes \/ ScheduledRefresh
  BY <1>1, <1>2, <1>6, MoveKeepsPlaces DEF LoopRefreshes, ScheduledRefresh, Queue, Places
<1>7. CASE LoopGoesOn
  BY <1>1, <1>7, EndKeepsPlaces DEF LoopGoesOn
<1>8. CASE Operate
  <2>1. CASE (\E action \in OperatorActions : Preview(action)) \/ Rejected \/ PauseOpens
    BY <1>3, <2>1 DEF Preview, Rejected, PauseOpens
  <2>2. CASE OperatorRefreshes \/ OperatorCloses \/ OperatorFlattens
    BY <1>1, <1>2, <2>2, MoveKeepsPlaces
       DEF OperatorRefreshes, OperatorCloses, OperatorFlattens, Queue, Places
  <2>3. CASE OperatorFindsNothing \/ OperatorClosesLighter \/ OperatorAnswered
    BY <1>1, <2>3, EndKeepsPlaces
       DEF OperatorFindsNothing, OperatorClosesLighter, OperatorAnswered
  <2> QED
    BY <1>8, <2>1, <2>2, <2>3 DEF Operate
<1>9. ASSUME NEW a \in Actors, Compare(a)
      PROVE  PlacesTyped'
  <2>1. CASE ReadLighter(a)
    <3>1. [got[a] EXCEPT !.lighter = lighter] \in Reading
      BY <1>1, <1>9 DEF PlacesTyped, Reading
    <3>2. got' = [got EXCEPT ![a] = [got[a] EXCEPT !.lighter = lighter]]
      BY <2>1 DEF ReadLighter
    <3> QED
      BY <1>1, <2>1, <3>1, <3>2, MoveKeepsPlaces DEF ReadLighter, Places
  <2>2. CASE LighterFails(a) \/ Mismatch(a) \/ Match(a)
    BY <1>1, <2>2, EndKeepsPlaces DEF LighterFails, Mismatch, Match
  <2> QED
    BY <1>9, <2>1, <2>2 DEF Compare
<1>10. ASSUME NEW a \in Actors, Refresh(a)
       PROVE  PlacesTyped'
  <2>1. CASE TakeRefreshLock(a) \/ Reload(a) \/ Reloaded(a) \/ InspectFills(a)
    BY <1>1, <2>1, NothingIsReading, MoveKeepsPlaces
       DEF TakeRefreshLock, Reload, Reloaded, InspectFills, Places
  <2>2. CASE ReloadFails(a) \/ PortfolioStaysAway(a) \/ InspectUnknown(a) \/ InspectRollsBack(a)
    BY <1>1, <2>2, EndKeepsPlaces
       DEF ReloadFails, PortfolioStaysAway, InspectUnknown, InspectRollsBack
  <2>3. CASE PortfolioArrives(a) \/ InspectGone(a)
    <3>1. CASE Read(a, AfterReload)
      BY <1>2, <3>1, ReadKeepsPlaces
    <3>2. CASE pc' = [pc EXCEPT ![a] = "inspect"] /\ got' = got
      BY <1>1, <3>2, NothingIsReading, MoveKeepsPlaces DEF Places
    <3> QED
      BY <2>3, <3>1, <3>2 DEF PortfolioArrives, InspectGone
  <2> QED
    BY <1>10, <2>1, <2>2, <2>3 DEF Refresh
<1> QED
  BY <1>4, <1>5, <1>6, <1>7, <1>8, <1>9, <1>10 DEF Next

\* The types at first, and after a step.
LEMMA InitTyped == Init => Typed
<1> SUFFICES ASSUME Init PROVE Typed
  OBVIOUS
<1>1. WorldTyped
  BY BoundAssumption DEF Init, WorldTyped, Positions
<1>2. OrderTyped /\ PauseTyped /\ OutcomeTyped /\ ScreenTyped
  BY DEF Init, OrderTyped, Intents, PauseTyped, OutcomeTyped, ScreenTyped
<1>3. PlacesTyped
  BY NothingIsReading DEF Init, PlacesTyped, Places
<1> QED
  BY <1>1, <1>2, <1>3 DEF Typed

LEMMA TypedIsKept == Typed /\ [Next]_vars => Typed'
<1> SUFFICES ASSUME Typed, [Next]_vars PROVE Typed'
  OBVIOUS
<1>1. WorldTyped /\ OrderTyped /\ PauseTyped /\ OutcomeTyped /\ PlacesTyped
  BY DEF Typed
<1> QED
  BY <1>1, NextKeepsWorldTyped, NextKeepsOrderTyped, NextKeepsPauseTyped,
     NextKeepsOutcomeTyped, NextKeepsScreenTyped, NextKeepsPlacesTyped
     DEF Typed

\* Every variable keeps its type; no more executions are known than happened.
THEOREM TypeCorrect == Spec => []TypeOK
<1>1. Spec => []Typed
  BY InitTyped, TypedIsKept, PTL DEF Spec
<1> QED
  BY <1>1, TypedIsTypeOK, PTL

-----------------------------------------------------------------------------
(* No false alarm                                                          *)

\* The accounts have not parted by themselves, and the loop is alone at work.
Calm == drifts = 0 /\ actions = 0 /\ ~dropped

\* In the calm what is tracked follows the one order there is: while its fill is not on its
\* way both accounts are what is tracked, or a hedge is, and a portfolio with every fill
\* shows the true position.
OneOrder ==
    /\ shown = <<>> /\ ~flattening
    /\ \A a \in Actors : a # "loop" => pc[a] = "idle"
    /\ request = "quoting" <=> intent = "quoting"
    /\ request = "sent" <=> intent = "sent"
    /\ intent \in {"none", "quoting"} => fills = known
    /\ intent \in {"none", "quoting", "sent"} /\ fills = known => tracked = var
    /\ ~hedging => lighter = tracked
    /\ snap.fills = fills => snap.var = var

\* Once one comparison differed no order is begun, so a reload that the loop has asked for
\* finds everything at rest, and so do the readings after it.
Suspects(a) ==
    /\ pc[a] \in {"queued", "drain", "reload", "portfolio"} =>
          ~TransitionInProgress /\ got[a].since = known
    /\ pc[a] # "inspect"
    /\ pc[a] \in {"lighter", "orders"} /\ got[a].reloaded =>
          ~TransitionInProgress /\ got[a].var = tracked
    /\ pc[a] = "orders" /\ got[a].reloaded => got[a].lighter = tracked

Suspicion ==
    firstToken # <<>> => /\ outcome = "mismatch" /\ ~ready
                         /\ \A a \in Actors : Suspects(a)

CalmInv == Calm => OneOrder /\ Suspicion

\* Steps that can be taken in the calm.
CalmOrder == \/ Submit \/ QuoteFails \/ Commit \/ Execute \/ Refused \/ Accepted \/ Ambiguous
             \/ Confirm \/ Unconfirmed \/ Hedged
LoopStep == \/ LoopReconciles \/ LoopRefreshes \/ LoopGoesOn
            \/ Compare("loop") \/ Refresh("loop")

\* The calm does not return; the steps that end it count.
LEMMA DriftsGrow ==
    ASSUME Typed, [Next]_vars
    PROVE  /\ Calm' => Calm
           /\ HedgeFails \/ ManualTrade \/ Drift \/ WatchdogReconciles \/ ScheduledRefresh
                 \/ (\E action \in OperatorActions : Preview(action)) => ~Calm'
<1> USE DEF Calm, accounts, operator, control
<1>1. drifts \in Nat /\ actions \in Nat
  BY DEF Typed, WorldTyped
<1>2. ASSUME HedgeFails \/ ManualTrade \/ Drift
      PROVE  ~Calm'
  <2>1. drifts' = drifts + 1
    BY <1>2 DEF HedgeFails, ManualTrade, Drift
  <2> QED
    BY <1>1, <2>1
<1>3. ASSUME \/ WatchdogReconciles \/ ScheduledRefresh
             \/ \E action \in OperatorActions : Preview(action)
      PROVE  ~Calm'
  <2>1. actions' = actions + 1
    BY <1>3 DEF WatchdogReconciles, ScheduledRefresh, Preview
  <2> QED
    BY <1>1, <2>1
<1>4. ASSUME UNCHANGED <<drifts, actions>>, dropped => dropped'
      PROVE  Calm' => Calm
  BY <1>4
<1>5. ASSUME Order
      PROVE  Calm' => Calm
  <2>1. HedgeFails \/ (UNCHANGED <<drifts, actions>> /\ dropped' = dropped)
    BY <1>5 DEF Order, Submit, QuoteFails, Commit, Execute, Refused, Accepted, Ambiguous,
       Confirm, Unconfirmed, Hedged, RollsBack
  <2>2. (dropped' = dropped) => (dropped => dropped')
    BY Zenon
  <2> QED
    BY <1>2, <1>4, <2>1, <2>2
<1>6. ASSUME Operate
      PROVE  Calm' => Calm
  <2>1. (\E action \in OperatorActions : Preview(action))
        \/ (UNCHANGED <<drifts, actions>> /\ dropped' = dropped)
    BY <1>6 DEF Operate, Rejected, PauseOpens, OperatorRefreshes, OperatorCloses,
       OperatorFlattens, OperatorFindsNothing, OperatorClosesLighter, OperatorAnswered
  <2>2. (dropped' = dropped) => (dropped => dropped')
    BY Zenon
  <2> QED
    BY <1>3, <1>4, <2>1, <2>2
<1>7. ASSUME NEW a \in Actors, Compare(a) \/ Refresh(a) PROVE Calm' => Calm
  <2>1. UNCHANGED <<drifts, actions>>
    BY <1>7
       DEF Compare, ReadLighter, LighterFails, Mismatch, Match, Refresh, TakeRefreshLock,
           Reload, Reloaded, ReloadFails, PortfolioArrives, PortfolioStaysAway,
           InspectUnknown, InspectFills, InspectGone, InspectRollsBack
  <2>2. Match(a) => (dropped => dropped')
    BY Zenon DEF Match
  <2>3. Match(a) \/ dropped' = dropped
    BY <1>7
       DEF Compare, ReadLighter, LighterFails, Mismatch, Refresh, TakeRefreshLock, Reload,
           Reloaded, ReloadFails, PortfolioArrives, PortfolioStaysAway, InspectUnknown,
           InspectFills, InspectGone, InspectRollsBack, Degrade, Read, RollsBack
  <2>4. dropped' = dropped => (dropped => dropped')
    BY Zenon
  <2> QED
    BY <1>4, <2>1, <2>2, <2>3, <2>4
<1>8. ASSUME Publish \/ LoopReconciles \/ LoopRefreshes \/ LoopGoesOn \/ UNCHANGED vars
      PROVE  Calm' => Calm
  <2>1. UNCHANGED <<drifts, actions, dropped>>
    BY <1>8 DEF Publish, LoopReconciles, LoopRefreshes, LoopGoesOn, vars, Read, Degrade
  <2>2. dropped => dropped'
    BY <2>1, Zenon
  <2> QED
    BY <1>4, <2>1, <2>2
<1> QED
  BY <1>2, <1>3, <1>5, <1>6, <1>7, <1>8 DEF Next

\* No other step is taken in the calm.
LEMMA CalmSteps ==
    ASSUME Typed, OneOrder, [Next]_vars, Calm'
    PROVE  CalmOrder \/ Publish \/ ("loop" \in Actors /\ LoopStep) \/ UNCHANGED vars
<1>1. ~(HedgeFails \/ ManualTrade \/ Drift \/ WatchdogReconciles \/ ScheduledRefresh
                 \/ (\E action \in OperatorActions : Preview(action)))
  BY DriftsGrow
<1>2. ~Operate
  <2>1. ~(Rejected \/ PauseOpens \/ OperatorRefreshes \/ OperatorCloses)
    BY DEF OneOrder, Rejected, PauseOpens, OperatorRefreshes, OperatorCloses, Confirmed
  <2>2. "operator" \in Reconcilers => pc["operator"] = "idle"
    BY DEF OneOrder, Actors
  <2>3. ~(OperatorFlattens \/ OperatorFindsNothing \/ OperatorClosesLighter \/ OperatorAnswered)
    BY <2>2
       DEF OperatorFlattens, OperatorFindsNothing, OperatorClosesLighter, OperatorAnswered
  <2> QED
    BY <1>1, <2>1, <2>3 DEF Operate
<1>3. ASSUME NEW a \in Actors, Compare(a) \/ Refresh(a)
      PROVE  a = "loop"
  <2>1. pc[a] # "idle"
    BY <1>3
       DEF Compare, ReadLighter, LighterFails, Mismatch, Match, Refresh, TakeRefreshLock,
           Reload, Reloaded, ReloadFails, PortfolioArrives, PortfolioStaysAway,
           InspectUnknown, InspectFills, InspectGone, InspectRollsBack
  <2> QED
    BY <2>1 DEF OneOrder
<1>4. Order => CalmOrder
  BY <1>1 DEF Order, CalmOrder
<1>5. LoopReconciles \/ LoopRefreshes \/ LoopGoesOn => "loop" \in Actors
  BY DEF LoopReconciles, LoopRefreshes, LoopGoesOn, Actors
<1> QED
  BY <1>1, <1>2, <1>3, <1>4, <1>5 DEF Next, LoopStep

\* The order's steps and the loop's keep the accounts together.
LEMMA OneOrderKept ==
    ASSUME Typed, OneOrder, [Next]_vars, Calm, Calm'
    PROVE  OneOrder'
<1> DEFINE Trades == /\ request = "quoting" <=> intent = "quoting"
                     /\ request = "sent" <=> intent = "sent"
                     /\ intent \in {"none", "quoting"} => fills = known
                     /\ intent \in {"none", "quoting", "sent"} /\ fills = known => tracked = var
                     /\ ~hedging => lighter = tracked
                     /\ snap.fills = fills => snap.var = var
<1>1. Trades /\ ~flattening /\ shown = <<>>
      /\ \A a \in Actors : a # "loop" => pc[a] = "idle"
  BY DEF OneOrder
<1>2. fills \in Nat /\ known \in Nat /\ known <= fills /\ snap.fills \in Nat /\ snap.fills <= fills
      /\ intent \in Intents
  BY DEF Typed, WorldTyped, OrderTyped
<1>3. CASE CalmOrder
  <2> USE DEF execution, accounts, Enter
  <2>1. UNCHANGED <<shown, pc>>
    BY <1>3
       DEF CalmOrder, Submit, QuoteFails, Commit, Execute, Refused, Accepted, Ambiguous,
           Confirm, Unconfirmed, Hedged, operator, procs
  <2>2. ~flattening'
    BY <1>1, <1>3
       DEF CalmOrder, Submit, Begin, QuoteFails, Commit, Execute, Refused, Accepted,
           Ambiguous, Confirm, Unconfirmed, RollsBack, Hedged
  <2>3. CASE Submit \/ QuoteFails \/ Commit
    <3>1. Trades'
      BY <1>1, <2>3 DEF Submit, CanSubmit, TransitionInProgress, Begin, QuoteFails, Commit
    <3> QED
      BY <1>1, <2>1, <2>2, <3>1 DEF OneOrder
  <2>4. CASE Execute
    <3>1. Trades'
      BY <1>1, <1>2, <2>4 DEF Execute
    <3> QED
      BY <1>1, <2>1, <2>2, <3>1 DEF OneOrder
  <2>5. CASE Refused \/ Accepted \/ Ambiguous
    <3>1. Trades'
      BY <1>1, <2>5 DEF Refused, Accepted, Ambiguous
    <3> QED
      BY <1>1, <2>1, <2>2, <3>1 DEF OneOrder
  <2>6. CASE Confirm \/ Unconfirmed
    <3>1. Trades'
      BY <1>1, <1>2, <2>6 DEF Confirm, Unconfirmed, RollsBack, Intents
    <3> QED
      BY <1>1, <2>1, <2>2, <3>1 DEF OneOrder
  <2>7. CASE Hedged
    <3>1. Trades'
      BY <1>1, <2>7 DEF Hedged
    <3> QED
      BY <1>1, <2>1, <2>2, <3>1 DEF OneOrder
  <2> QED
    BY <1>3, <2>3, <2>4, <2>5, <2>6, <2>7 DEF CalmOrder
<1>4. CASE Publish
  <2>1. Trades'
    BY <1>1, <1>4 DEF Publish, execution
  <2>2. UNCHANGED <<shown, pc, flattening>>
    BY <1>4 DEF Publish, execution, operator, procs
  <2> QED
    BY <1>1, <2>1, <2>2 DEF OneOrder
<1>5. CASE "loop" \in Actors /\ LoopStep
  <2>1. UNCHANGED <<shown, flattening>>
    BY <1>5
       DEF LoopStep, LoopReconciles, LoopRefreshes, LoopGoesOn, Compare, ReadLighter,
           LighterFails, Mismatch, Match, Refresh, TakeRefreshLock, Reload, Reloaded,
           ReloadFails, PortfolioArrives, PortfolioStaysAway, InspectUnknown, InspectFills,
           InspectGone, InspectRollsBack, operator, execution, RollsBack, Enter
  <2>2. \A a \in Actors : a # "loop" => pc'[a] = "idle"
    <3>1. \E place : pc' = [pc EXCEPT !["loop"] = place]
      BY <1>5
         DEF LoopStep, LoopReconciles, LoopRefreshes, LoopGoesOn, Queue, Compare,
             ReadLighter, LighterFails, Mismatch, Match, Refresh, TakeRefreshLock, Reload,
             Reloaded, ReloadFails, PortfolioArrives, PortfolioStaysAway, InspectUnknown,
             InspectFills, InspectGone, InspectRollsBack, Read, Ends, EndsUnmatched
    <3> QED
      BY <1>1, <3>1 DEF Typed, PlacesTyped
  <2>3. Trades'
    <3>1. CASE UNCHANGED <<accounts, execution>>
      BY <1>1, <3>1 DEF accounts, execution
    <3>2. CASE Match("loop")
      <4>1. intent' = intent
        BY <3>2 DEF Match, Calm
      <4> QED
        BY <1>1, <3>2, <4>1 DEF Match, accounts
    <3>3. CASE InspectFills("loop") \/ InspectRollsBack("loop")
      BY <1>1, <1>2, <3>3
         DEF InspectFills, InspectRollsBack, Enter, RollsBack, accounts, Intents
    <3> QED
      BY <1>5, <3>1, <3>2, <3>3
         DEF LoopStep, LoopReconciles, LoopRefreshes, LoopGoesOn, Compare, ReadLighter,
             LighterFails, Mismatch, Refresh, TakeRefreshLock, Reload, Reloaded,
             ReloadFails, PortfolioArrives, PortfolioStaysAway, InspectUnknown, InspectGone
  <2> QED
    BY <2>1, <1>1, <2>2, <2>3 DEF OneOrder
<1>6. CASE UNCHANGED vars
  BY <1>6 DEF vars, accounts, execution, operator, procs, OneOrder
<1> QED
  BY <1>3, <1>4, <1>5, <1>6, CalmSteps

\* And what the loop has read since its reload is true.
LEMMA SuspicionKept ==
    ASSUME Typed, OneOrder, Suspicion, [Next]_vars, Calm, Calm'
    PROVE  Suspicion'
<1>1. CASE CalmOrder
  <2> SUFFICES ASSUME firstToken' # <<>>
               PROVE  Suspicion'
    BY DEF Suspicion
  <2>1. UNCHANGED <<firstToken, outcome, ready, pc, got>>
    BY <1>1
       DEF CalmOrder, Submit, QuoteFails, Commit, Execute, Refused, Accepted, Ambiguous,
           Confirm, Unconfirmed, RollsBack, Hedged, control, procs
  <2>2. outcome = "mismatch" /\ ~ready /\ \A a \in Actors : Suspects(a)
    BY <2>1 DEF Suspicion
  <2>3. TransitionInProgress
    <3>1. ~Submit
      BY <2>2 DEF Submit, CanSubmit, DegradedCloseAllowed
    <3>2. (\/ QuoteFails \/ Commit \/ Execute \/ Refused \/ Accepted
           \/ Ambiguous \/ Unconfirmed \/ Hedged)
             => TransitionInProgress
      BY DEF QuoteFails, Commit, Execute, Refused, Accepted, Ambiguous, Unconfirmed,
             RollsBack, Hedged, TransitionInProgress
    <3>3. Confirm => TransitionInProgress
      BY DEF Confirm, OneOrder, TransitionInProgress, Typed, WorldTyped
    <3> QED
      BY <1>1, <3>1, <3>2, <3>3 DEF CalmOrder
  <2> QED
    BY <2>1, <2>2, <2>3 DEF Suspicion, Suspects
<1>2. CASE Publish \/ UNCHANGED vars
  <2>1. UNCHANGED <<firstToken, outcome, ready, pc, got, intent, request, hedging, tracked, known>>
    BY <1>2 DEF Publish, vars, control, execution, procs
  <2> QED
    BY <2>1 DEF Suspicion, Suspects, TransitionInProgress
<1>3. CASE "loop" \in Actors /\ LoopStep
  <2> SUFFICES ASSUME firstToken' # <<>>
               PROVE  Suspicion'
    BY DEF Suspicion
  <2>1. pc \in [Actors -> Places] /\ got \in [Actors -> Reading] /\ "loop" \in Actors
    BY <1>3 DEF Typed, PlacesTyped
  <2>2. \A a \in Actors : a # "loop" => pc[a] = "idle" /\ pc'[a] = "idle"
    BY OneOrderKept DEF OneOrder
  <2>3. \A a \in Actors : a # "loop" => Suspects(a)'
    BY <2>2 DEF Suspects
  <2>4. ASSUME outcome' = "mismatch", ~ready', Suspects("loop")'
        PROVE  Suspicion'
    BY <2>3, <2>4 DEF Suspicion
  <2>5. CASE Mismatch("loop")
    <3>1. pc'["loop"] \in {"idle", "unmatched"}
      BY <2>1, <2>5 DEF Mismatch, EndsUnmatched, Ends
    <3>2. outcome' = "mismatch" /\ ~ready'
      BY <2>5 DEF Mismatch
    <3> QED
      BY <2>4, <3>1, <3>2 DEF Suspects
  <2>6. ASSUME UNCHANGED <<firstToken, outcome, ready>>
        PROVE  outcome' = "mismatch" /\ ~ready' /\ Suspects("loop")
    BY <2>6, <2>1 DEF Suspicion
  <2>7. ASSUME NEW how, Read("loop", how), how \in Reading,
               UNCHANGED <<accounts, execution>>,
               how.reloaded => ~TransitionInProgress /\ (snap.fills >= known)
        PROVE  Suspicion'
    <3>1. ~Stale
      BY <2>7 DEF Read, Degrade
    <3>2. UNCHANGED <<firstToken, outcome, ready>>
      BY <2>7, <3>1 DEF Read, control
    <3>3. pc'["loop"] = "lighter" /\ got'["loop"] = [how EXCEPT !.rev = snap.rev, !.var = snap.var]
      BY <2>1, <2>7, <3>1 DEF Read
    <3>4. got'["loop"].reloaded = how.reloaded /\ got'["loop"].var = snap.var
      BY <3>3, <2>7 DEF Reading
    <3>5. how.reloaded => snap.var = tracked
      BY <2>7 DEF OneOrder, TransitionInProgress, Typed, WorldTyped
    <3>6. tracked' = tracked /\ (TransitionInProgress' <=> TransitionInProgress)
      BY <2>7 DEF execution, TransitionInProgress
    <3> QED
      BY <2>4, <2>6, <2>7, <3>2, <3>3, <3>4, <3>5, <3>6 DEF Suspects
  <2>8. CASE LoopReconciles
    <3>1. Read("loop", Nothing) /\ UNCHANGED <<accounts, execution>> /\ ~Nothing.reloaded
      BY <2>8 DEF LoopReconciles, Nothing
    <3> QED
      BY <3>1, <2>7, NothingIsReading
  <2>9. CASE InspectGone("loop")
    <3>1. ~Read("loop", AfterReload)
      <4>1. pc["loop"] = "inspect"
        BY <2>9 DEF InspectGone
      <4>2. firstToken = <<>>
        BY <2>1, <4>1 DEF Suspicion, Suspects
      <4> QED
        BY <4>2 DEF Read, Degrade, control
    <3> QED
      BY <2>9, <3>1 DEF InspectGone
  <2>10. CASE PortfolioArrives("loop")
    <3>1. firstToken # <<>>
      BY <2>10 DEF PortfolioArrives, Read, Degrade, control
    <3>2. Suspects("loop")
      BY <2>1, <3>1 DEF Suspicion
    <3>3. ~TransitionInProgress /\ snap.fills >= known
      BY <2>10, <3>2 DEF PortfolioArrives, Suspects
    <3>4. Read("loop", AfterReload) /\ UNCHANGED <<accounts, execution>>
      BY <2>10, <3>3 DEF PortfolioArrives, TransitionInProgress
    <3>5. AfterReload \in Reading
      BY NothingIsReading DEF AfterReload, Reading
    <3> QED
      BY <2>7, <3>3, <3>4, <3>5
  <2>11. CASE LoopRefreshes
    <3>1. UNCHANGED <<execution, control>> /\ ~TransitionInProgress
      BY <2>11 DEF LoopRefreshes, RefreshWanted
    <3>2. pc'["loop"] = "queued" /\ got'["loop"] = [Nothing EXCEPT !.since = known]
      BY <2>1, <2>11 DEF LoopRefreshes, Queue
    <3>3. got'["loop"].since = known
      BY <3>2 DEF Nothing
    <3>4. Suspects("loop")'
      BY <3>1, <3>2, <3>3 DEF Suspects, TransitionInProgress, execution
    <3> QED
      BY <2>4, <2>6, <3>1, <3>4 DEF control
  <2>12. CASE \/ LoopGoesOn \/ ReloadFails("loop")
              \/ PortfolioStaysAway("loop") \/ InspectUnknown("loop")
    <3>1. UNCHANGED control /\ pc'["loop"] = "idle"
      BY <2>1, <2>12 DEF LoopGoesOn, ReloadFails, PortfolioStaysAway, InspectUnknown, Ends
    <3> QED
      BY <2>4, <2>6, <3>1 DEF control, Suspects
  <2>13. CASE TakeRefreshLock("loop") \/ Reload("loop") \/ Reloaded("loop")
    <3>1. UNCHANGED <<control, execution, got>>
          /\ pc["loop"] \in {"queued", "drain", "reload"}
          /\ pc'["loop"] \in {"drain", "reload", "portfolio"}
      BY <2>1, <2>13 DEF TakeRefreshLock, Reload, Reloaded
    <3>2. Suspects("loop") /\ outcome' = "mismatch" /\ ~ready'
      BY <2>6, <3>1 DEF control
    <3>3. Suspects("loop")'
      BY <3>1, <3>2 DEF Suspects, TransitionInProgress, execution
    <3> QED
      BY <2>4, <3>2, <3>3
  <2>14. CASE InspectFills("loop") \/ InspectRollsBack("loop")
    <3>1. pc["loop"] = "inspect" /\ UNCHANGED firstToken
      BY <2>14 DEF InspectFills, InspectRollsBack, RollsBack, control
    <3> QED
      BY <2>1, <3>1 DEF Suspicion, Suspects
  <2>15. CASE ReadLighter("loop")
    <3>1. UNCHANGED <<control, execution>> /\ pc["loop"] = "lighter" /\ pc'["loop"] = "orders"
      BY <2>1, <2>15 DEF ReadLighter
    <3>2. got'["loop"] = [got["loop"] EXCEPT !.lighter = lighter]
      BY <2>1, <2>15 DEF ReadLighter
    <3>3. /\ got'["loop"].reloaded = got["loop"].reloaded
          /\ got'["loop"].var = got["loop"].var /\ got'["loop"].lighter = lighter
      BY <2>1, <3>2 DEF Reading
    <3>4. Suspects("loop") /\ outcome' = "mismatch" /\ ~ready'
      BY <2>6, <3>1 DEF control
    <3>5. ~TransitionInProgress => lighter = tracked
      BY DEF OneOrder, TransitionInProgress
    <3>6. tracked' = tracked /\ (TransitionInProgress' <=> TransitionInProgress)
      BY <3>1 DEF execution, TransitionInProgress
    <3>7. Suspects("loop")'
      BY <3>1, <3>3, <3>4, <3>5, <3>6 DEF Suspects
    <3> QED
      BY <2>4, <3>4, <3>7
  <2>16. CASE LighterFails("loop") \/ Match("loop")
    BY <2>16 DEF LighterFails, Degrade, Match
  <2> QED
    BY <1>3, <2>5, <2>8, <2>9, <2>10, <2>11, <2>12, <2>13, <2>14, <2>15, <2>16
       DEF LoopStep, Compare, Refresh
<1> QED
  BY <1>1, <1>2, <1>3, CalmSteps

\* In the calm no comparison after a reload differs once another did.
LEMMA NoAlarm ==
    ASSUME Typed, CalmInv, [Next]_vars, paused # "mismatch", paused' = "mismatch"
    PROVE  drifts > 0 \/ actions > 0 \/ dropped
<1>1. \E a \in Actors : Mismatch(a) /\ Confirms(got[a])
  <2> USE DEF control, RollsBack, PauseAutomation, PauseForReconciliation, Read, Degrade
  <2>1. ~Order
    BY DEF Order, Submit, QuoteFails, Commit, Execute, Refused, Accepted, Ambiguous,
     Confirm, Unconfirmed, Hedged, HedgeFails
  <2>2. ~Operate
    BY DEF Operate, Preview, Rejected, PauseOpens, OperatorRefreshes, OperatorCloses,
     OperatorFlattens, OperatorFindsNothing, OperatorClosesLighter, OperatorAnswered
  <2>3. \A a \in Actors : ~Refresh(a)
    BY DEF Refresh, TakeRefreshLock, Reload, Reloaded, ReloadFails, PortfolioArrives,
     PortfolioStaysAway, InspectUnknown, InspectFills, InspectGone, InspectRollsBack
  <2>4. \A a \in Actors : Compare(a) => Mismatch(a) /\ Confirms(got[a])
    BY DEF Compare, ReadLighter, LighterFails, Mismatch, Match
  <2>5. ~(\/ Publish \/ ManualTrade \/ Drift \/ LoopReconciles \/ WatchdogReconciles
           \/ LoopRefreshes \/ LoopGoesOn \/ ScheduledRefresh \/ UNCHANGED vars)
    BY DEF Publish, ManualTrade, Drift, LoopReconciles, WatchdogReconciles,
     LoopRefreshes, LoopGoesOn, ScheduledRefresh, vars
  <2> QED
    BY <2>1, <2>2, <2>3, <2>4, <2>5 DEF Next
<1>2. PICK a \in Actors : Mismatch(a) /\ Confirms(got[a])
  BY <1>1
<1>3. SUFFICES ASSUME Calm PROVE FALSE
  <2>1. drifts \in Nat /\ actions \in Nat
    BY DEF Typed, WorldTyped
  <2> QED
    BY <1>3, <2>1 DEF Calm
<1>4. pc[a] = "orders" /\ ~PositionsMatch(got[a]) /\ firstToken # <<>> /\ got[a].reloaded
  BY <1>2 DEF Mismatch, Confirms
<1>5. Suspects(a)
  BY <1>3, <1>4 DEF CalmInv, Suspicion
<1> QED
  BY <1>4, <1>5 DEF Suspects, PositionsMatch

\* With the loop alone at work, only accounts that have parted (or a match that dropped an
\* order's intent) pause automation for a mismatch.
THEOREM AlarmIsTrue == Spec => NoFalseAlarm
<1> DEFINE Alarm == paused # "mismatch" /\ paused' = "mismatch"
                        => drifts > 0 \/ actions > 0 \/ dropped
<1>1. Init => Typed /\ CalmInv
  <2>1. Init => Typed
    BY InitTyped
  <2>2. Init => CalmInv
    BY DEF Init, CalmInv, OneOrder, Suspicion, Nothing
  <2> QED
    BY <2>1, <2>2
<1>2. Typed /\ CalmInv /\ [Next]_vars => Typed' /\ CalmInv'
  BY TypedIsKept, OneOrderKept, SuspicionKept, DriftsGrow DEF CalmInv
<1>3. Typed /\ CalmInv /\ [Next]_vars => [Alarm]_vars
  BY NoAlarm
<1>4. NoFalseAlarm <=> [][Alarm]_vars
  BY DEF NoFalseAlarm
<1> HIDE DEF Alarm
<1> QED
  BY <1>1, <1>2, <1>3, <1>4, PTL DEF Spec
=============================================================================
