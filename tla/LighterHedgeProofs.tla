------------------------- MODULE LighterHedgeProofs -------------------------
(***************************************************************************)
(* What holds of the hedge of one record for every Firm Quote, every       *)
(* confirmed quantity and every number of attempts: and what a hedge of    *)
(* several attempts never does, which is to send twice, to fill too much,  *)
(* or to send on while Variational is being flattened.                     *)
(***************************************************************************)
EXTENDS LighterHedge, FiniteSetTheorems, SequenceTheorems, TLAPS

-----------------------------------------------------------------------------
(* Lemmas about the operators *)

\* Everything a report can say is a total that is no greater than the truth, and
\* the truth itself when it says that the order has ended.
LEMMA ReportsTrue ==
    ASSUME NEW id, exch[id] \in Order, NEW r \in Reports(id)
    PROVE  /\ r \in [done : Nat, ended : BOOLEAN]
           /\ r.done <= exch[id].done
           /\ r.ended => r.done = exch[id].done
<1>1. exch[id].done \in Nat
  BY DEF Order
<1>2. CASE r = Ending(id)
  BY <1>1, <1>2 DEF Ending
<1>3. CASE r \in [done : {d \in 0..exch[id].done : d < exch[id].qty}, ended : {FALSE}]
  <2>1. r.done \in {d \in 0..exch[id].done : d < exch[id].qty} /\ r.ended = FALSE
    BY <1>3
  <2>2. r = [done |-> r.done, ended |-> r.ended]
    BY <1>3
  <2>3. r.done \in Nat /\ r.done <= exch[id].done /\ r.ended = FALSE
    BY <1>1, <2>1
  <2>4. [done |-> r.done, ended |-> r.ended] \in [done : Nat, ended : BOOLEAN]
    BY <2>3
  <2>5. QED
    BY <2>2, <2>3, <2>4
<1>4. QED
  BY <1>2, <1>3 DEF Reports

\* A scheduled quantity is never lowered and covers the one asked for.
LEMMA RaiseToCovers ==
    ASSUME NEW a \in Nat, NEW b \in Nat
    PROVE  RaiseTo(a, b) \in Nat /\ RaiseTo(a, b) >= a /\ RaiseTo(a, b) >= b
  BY DEF RaiseTo

-----------------------------------------------------------------------------
(* Type correctness *)

\* While the task works on an order there is one.
HasOrder == {"send", "await", "confirm", "found", "applied", "decide"}
OrderHeld == pc \in HasOrder => exch # <<>>

TInv == TypeOK /\ OrderHeld

\* The sum a report leaves is a quantity again, because an older total is stale.
LEMMA SumGrows ==
    ASSUME TypeOK, NEW id \in Ids, NEW r \in [done : Nat, ended : BOOLEAN],
           ~Stale(id, r)
    PROVE  NewSum(id, r) \in Nat /\ NewSum(id, r) >= filled
<1>1. total[id] \in Nat
  BY ElementOfSeq DEF TypeOK, Ids
<1>2. QED
  BY <1>1 DEF TypeOK, Stale, NewSum

\* The critical section of a report keeps the types.
LEMMA ApplyTypes ==
    ASSUME TInv, NEW id \in Ids, NEW r \in [done : Nat, ended : BOOLEAN],
           ~Stale(id, r), Apply(id, r)
    PROVE  /\ hedge' \in HedgeStatus /\ filled' \in Nat /\ final' \in BOOLEAN
           /\ total' \in Seq(Nat) /\ Len(total') = Len(total)
           /\ terminal' \subseteq Nat
           /\ correction' \in Nat /\ rollback' \in Nat /\ retryPending' \in BOOLEAN
           /\ writer' \in FollowUps
<1> USE DEF TInv, TypeOK
<1>1. NewSum(id, r) \in Nat
  BY SumGrows
<1>2. total' \in Seq(Nat) /\ Len(total') = Len(total)
  BY ExceptSeq DEF Apply, Ids
<1>3. hedge' \in HedgeStatus
  BY DEF Apply, ReportedStatus, HedgeStatus
<1>4. correction' \in Nat /\ rollback' \in Nat
  BY <1>1 DEF Apply, ReportedStatus, RaiseTo
<1>5. id \in Nat
  BY DEF Ids
<1>6. terminal' \subseteq Nat
  BY <1>5 DEF Apply
<1>7. final' \in BOOLEAN /\ filled' \in Nat
  BY <1>1 DEF Apply, AllTerminal
<1>8. retryPending' \in BOOLEAN /\ writer' \in FollowUps
  BY Zenon DEF Apply, FollowUps
<1>9. QED
  BY <1>2, <1>3, <1>4, <1>6, <1>7, <1>8

\* A new order is reserved, and nothing of it is known to be filled.
LEMMA ReservedTypes ==
    ASSUME TypeOK,
           exch' = Append(exch, [st |-> "reserved", qty |-> 0, done |-> 0]),
           total' = Append(total, 0)
    PROVE  /\ exch' \in Seq(Order) /\ total' \in Seq(Nat)
           /\ Len(total') = Len(exch') /\ exch' # <<>>
  BY DEF TypeOK, Order, OrderState

\* What fail_lighter_hedge leaves, whether it finds the hedge complete or failed.
LEMMA FailHedgeTypes ==
    ASSUME TypeOK, NEW h, FailHedge(h)
    PROVE  /\ hedge' \in HedgeStatus /\ pc' \in {"loop", "flatten"}
           /\ paused' \in {"none", "reconcile", "automation"}
<1>1. hedge' \in HedgeStatus /\ pc' \in {"loop", "flatten"}
  BY DEF FailHedge, HedgeStatus
<1>2. paused' \in {"none", "reconcile", "automation"}
  BY DEF FailHedge, TypeOK, PauseForReconciliation
<1>3. QED
  BY <1>1, <1>2

\* What the task's decision after a reconciliation leaves.
LEMMA DecideTypes ==
    ASSUME TypeOK, pc # "idle", NEW outcome, DecideOn(outcome)
    PROVE  /\ hedge' \in HedgeStatus /\ pc' \in {"loop", "flatten"}
           /\ retryPending' \in BOOLEAN /\ requeue' \in BOOLEAN
           /\ paused' \in {"none", "reconcile", "automation"}
<1>1. CASE Overtaken /\ UNCHANGED <<hedge, flags, paused>> /\ pc' = "loop"
  BY <1>1 DEF TypeOK, flags
<1>2. CASE /\ hedge' = "uncertain" /\ paused' = PauseAutomation(paused)
           /\ pc' = "loop" /\ UNCHANGED flags
  BY <1>2 DEF TypeOK, flags, PauseAutomation, HedgeStatus
<1>3. CASE QueueRetry("retrying", "loop") /\ UNCHANGED paused
  BY <1>3 DEF TypeOK, QueueRetry, HedgeStatus
<1>4. CASE FailHedge("error") /\ UNCHANGED flags
  BY <1>4, FailHedgeTypes DEF TypeOK, flags
<1>5. QED
  BY <1>1, <1>2, <1>3, <1>4 DEF DecideOn

LEMMA InitTInv == Init => TInv
<1>1. FirmQty \in Nat
  BY QtyAssumption
<1>2. NoFollowUp \in FollowUps
  BY DEF NoFollowUp, FollowUps
<1>3. Init => hedge \in HedgeStatus /\ pc \in TaskPc /\ OrderHeld
  BY DEF Init, HedgeStatus, TaskPc, OrderHeld, HasOrder
<1>4. Init => exch \in Seq(Order) /\ total \in Seq(Nat) /\ Len(total) = Len(exch)
  BY EmptySeq DEF Init
<1>5. QED
  <2>1. ASSUME Init PROVE TypeOK
    BY <1>1, <1>2, <1>3, <1>4, <2>1 DEF Init, TypeOK
  <2>2. QED
    BY <1>3, <2>1 DEF TInv

\* The inductive step of type correctness.
LEMMA NextTInv == TInv /\ [Next]_vars => TInv'
<1> SUFFICES ASSUME TInv, [Next]_vars PROVE TInv'
  OBVIOUS
<1> USE DEF TInv, TypeOK, OrderHeld, recordVars, knowledge, taskVars, flags,
            children, handlers, alarms, others
<1>1. CASE AttemptNothing
  <2>1. hedge' \in HedgeStatus /\ pc' \in TaskPc
    BY <1>1 DEF AttemptNothing, HedgeStatus, TaskPc
  <2>2. OrderHeld'
    BY <1>1 DEF AttemptNothing, HasOrder
  <2>3. QED
    BY <1>1, <2>1, <2>2 DEF AttemptNothing
<1>2. CASE AttemptExceeded
  <2>1. /\ hedge' \in HedgeStatus /\ pc' \in {"loop", "flatten"}
        /\ paused' \in {"none", "reconcile", "automation"}
    BY <1>2, FailHedgeTypes DEF AttemptExceeded
  <2>2. pc' \in TaskPc /\ OrderHeld'
    BY <2>1 DEF TaskPc, HasOrder
  <2>3. QED
    BY <1>2, <2>1, <2>2 DEF AttemptExceeded
<1>3. CASE Attempt
  <2>1. /\ exch' \in Seq(Order) /\ total' \in Seq(Nat)
        /\ Len(total') = Len(exch') /\ exch' # <<>>
    BY <1>3, ReservedTypes DEF Attempt, Allocate
  <2>2. hedge' \in HedgeStatus /\ pc' \in TaskPc
    BY <1>3 DEF Attempt, HedgeStatus, TaskPc
  <2>3. OrderHeld'
    BY <2>1
  <2>4. sendQty' \in Nat
    BY <1>3 DEF Attempt, Allocate, Remaining
  <2>5. QED
    BY <1>3, <2>1, <2>2, <2>3, <2>4 DEF Attempt, Allocate
<1>4. CASE GuardedRetry
  <2>1. /\ exch' \in Seq(Order) /\ total' \in Seq(Nat)
        /\ Len(total') = Len(exch') /\ exch' # <<>>
    BY <1>4, ReservedTypes DEF GuardedRetry
  <2>2. hedge' \in HedgeStatus /\ pc' \in TaskPc
    BY <1>4 DEF GuardedRetry, HedgeStatus, TaskPc
  <2>3. OrderHeld'
    BY <2>1
  <2>4. sendQty' \in Nat
    BY <1>4 DEF GuardedRetry, Remaining
  <2>5. terminal' \subseteq Nat
    <3>1. PICK n \in Nat : n = Len(exch)
      BY LenProperties
    <3>2. terminal' = terminal \cup {n + 1}
      BY <1>4, <3>1 DEF GuardedRetry, WithTerminal
    <3>3. terminal \subseteq Nat /\ n + 1 \in Nat
      BY <3>1
    <3>4. QED
      BY <3>2, <3>3, Zenon
  <2>6. QED
    BY <1>4, <2>1, <2>2, <2>3, <2>4, <2>5 DEF GuardedRetry
<1>5. CASE GuardedFail
  <2>1. /\ exch' \in Seq(Order) /\ total' \in Seq(Nat)
        /\ Len(total') = Len(exch') /\ exch' # <<>>
    BY <1>5, ReservedTypes DEF GuardedFail, Allocate
  <2>2. /\ hedge' \in HedgeStatus /\ pc' \in {"loop", "flatten"}
        /\ paused' \in {"none", "reconcile", "automation"}
    BY <1>5, FailHedgeTypes DEF GuardedFail
  <2>3. pc' \in TaskPc /\ OrderHeld'
    BY <2>1, <2>2 DEF TaskPc
  <2>4. sendQty' \in Nat
    BY <1>5 DEF GuardedFail, Allocate, Remaining
  <2>5. QED
    BY <1>5, <2>1, <2>2, <2>3, <2>4 DEF GuardedFail, Allocate
<1>6. CASE Wake
  <2>1. hedge' \in HedgeStatus /\ pc' \in TaskPc
    BY <1>6 DEF Wake, HedgeStatus, TaskPc
  <2>2. OrderHeld'
    BY <1>6 DEF Wake, HasOrder
  <2>3. QED
    BY <1>6, <2>1, <2>2 DEF Wake
<1>7. CASE Send
  <2>1. [st |-> "inflight", qty |-> sendQty, done |-> 0] \in Order
    BY DEF Order, OrderState
  <2>2. exch' \in Seq(Order) /\ Len(exch') = Len(exch) /\ exch' # <<>>
    BY <1>7, <2>1, ExceptSeq DEF Send, HasOrder, Newest
  <2>3. hedge' \in HedgeStatus /\ pc' \in TaskPc
    BY <1>7 DEF Send, HedgeStatus, TaskPc
  <2>4. OrderHeld'
    BY <1>7, <2>2 DEF Send, HasOrder
  <2>5. QED
    BY <1>7, <2>2, <2>3, <2>4 DEF Send
<1>8. CASE Acknowledged
  <2>1. hedge' \in HedgeStatus /\ pc' \in TaskPc
    BY <1>8 DEF Acknowledged, HedgeStatus, TaskPc
  <2>2. OrderHeld'
    BY <1>8 DEF Acknowledged, HasOrder
  <2>3. QED
    BY <1>8, <2>1, <2>2 DEF Acknowledged
<1>9. CASE Raised
  <2>1. /\ hedge' \in HedgeStatus /\ pc' \in {"loop", "flatten", "confirm"}
        /\ paused' \in {"none", "reconcile", "automation"} /\ pc \in HasOrder
    <3>1. CASE pc' = "loop" /\ UNCHANGED <<hedge, paused>>
      BY <1>9, <3>1 DEF Raised, HasOrder
    <3>2. CASE FailHedge(hedge)
      BY <1>9, <3>2, FailHedgeTypes DEF Raised, HasOrder
    <3>3. CASE hedge' = "uncertain" /\ pc' = "confirm" /\ UNCHANGED paused
      BY <1>9, <3>3 DEF Raised, HasOrder, HedgeStatus
    <3>4. QED
      BY <1>9, <3>1, <3>2, <3>3 DEF Raised
  <2>2. exch' = exch
    BY <1>9 DEF Raised
  <2>3. pc' \in TaskPc /\ OrderHeld'
    BY <2>1, <2>2 DEF TaskPc
  <2>4. QED
    BY <1>9, <2>1, <2>3 DEF Raised
<1>10. CASE Flatten
  <2>1. pc' \in TaskPc /\ OrderHeld'
    BY <1>10 DEF Flatten, TaskPc, HasOrder
  <2>2. emergency' \in BOOLEAN
    BY <1>10, Zenon DEF Flatten, FlattenStarts
  <2>3. paused' \in {"none", "reconcile", "automation"}
    BY <1>10 DEF Flatten, FlattenPause, PauseAutomation
  <2>4. QED
    BY <1>10, <2>1, <2>2, <2>3 DEF Flatten
<1>11. CASE Loop
  <2>1. hedge' \in HedgeStatus /\ pc' \in TaskPc
    BY <1>11 DEF Loop, HedgeStatus, TaskPc
  <2>2. OrderHeld'
    BY <1>11 DEF Loop, HasOrder
  <2>3. QED
    BY <1>11, <2>1, <2>2 DEF Loop
<1>12. CASE ReconcileFound
  <2>1. hedge' \in HedgeStatus /\ pc' \in TaskPc
    BY <1>12 DEF ReconcileFound, HedgeStatus, TaskPc
  <2>2. OrderHeld'
    BY <1>12 DEF ReconcileFound, HasOrder
  <2>3. QED
    BY <1>12, <2>1, <2>2 DEF ReconcileFound
<1>13. CASE ApplyReply
  <2>1. Newest \in Ids /\ exch[Newest] \in Order /\ exch # <<>>
    BY <1>13, LenProperties, ElementOfSeq DEF ApplyReply, Ids, Newest, HasOrder
  <2>2. Ending(Newest) \in [done : Nat, ended : BOOLEAN]
    BY <2>1 DEF Ending, Order
  <2>3. pc' \in TaskPc /\ OrderHeld'
    BY <1>13, <2>1 DEF ApplyReply, TaskPc
  <2>4. CASE Stale(Newest, Ending(Newest))
    BY <1>13, <2>3, <2>4 DEF ApplyReply
  <2>5. CASE ~Stale(Newest, Ending(Newest))
    <3>1. Apply(Newest, Ending(Newest))
      BY <1>13, <2>5 DEF ApplyReply
    <3>2. QED
      BY <1>13, <2>1, <2>2, <2>3, <2>5, <3>1, ApplyTypes DEF ApplyReply
  <2>6. QED
    BY <2>4, <2>5
<1>14. CASE Decide
  <2>1. /\ hedge' \in HedgeStatus /\ pc' \in {"loop", "flatten"}
        /\ retryPending' \in BOOLEAN /\ requeue' \in BOOLEAN
        /\ paused' \in {"none", "reconcile", "automation"}
    BY <1>14, DecideTypes DEF Decide
  <2>2. pc' \in TaskPc /\ OrderHeld'
    BY <2>1 DEF TaskPc, HasOrder
  <2>3. QED
    BY <1>14, <2>1, <2>2 DEF Decide
<1>15. CASE ReconcileMissing
  <2>1. /\ hedge' \in HedgeStatus /\ pc' \in {"loop", "flatten"}
        /\ retryPending' \in BOOLEAN /\ requeue' \in BOOLEAN
        /\ paused' \in {"none", "reconcile", "automation"}
    BY <1>15, DecideTypes DEF ReconcileMissing
  <2>2. pc' \in TaskPc /\ OrderHeld'
    BY <2>1 DEF TaskPc, HasOrder
  <2>3. absent' \subseteq Nat
    BY <1>15, LenProperties DEF ReconcileMissing, Newest
  <2>4. QED
    BY <1>15, <2>1, <2>2, <2>3 DEF ReconcileMissing
<1>16. CASE FollowUp
  <2>1. hedge' \in HedgeStatus /\ pc' \in TaskPc
    BY <1>16 DEF FollowUp, HedgeStatus, TaskPc, QueueRetry, Resumed
  <2>2. OrderHeld'
    BY <1>16 DEF FollowUp, HasOrder, QueueRetry, Resumed
  <2>3. retryPending' \in BOOLEAN /\ requeue' \in BOOLEAN /\ emergency' \in BOOLEAN
    BY <1>16, Zenon DEF FollowUp, QueueRetry, FlattenStarts
  <2>4. paused' \in {"none", "reconcile", "automation"}
    BY <1>16 DEF FollowUp, FlattenPause, PauseForReconciliation, PauseAutomation
  <2>5. writer' \in FollowUps
    BY <1>16 DEF FollowUp, FollowUps, NoFollowUp
  <2>6. QED
    BY <1>16, <2>1, <2>2, <2>3, <2>4, <2>5 DEF FollowUp
<1>17. ASSUME NEW id \in Ids, Report(id) PROVE TInv'
  <2>1. exch[id] \in Order
    BY ElementOfSeq DEF Ids
  <2>2. PICK r \in Reports(id) : ~Stale(id, r) /\ Apply(id, r)
    BY <1>17 DEF Report
  <2>3. r \in [done : Nat, ended : BOOLEAN]
    BY <2>1, ReportsTrue
  <2>4. QED
    BY <1>17, <2>2, <2>3, ApplyTypes DEF Report
<1>18. ASSUME NEW q \in VarQtys, VarConfirm(q) PROVE TInv'
  <2>1. q \in Nat
    BY QtyAssumption
  <2>2. correction' \in Nat
    BY <1>18, <2>1 DEF VarConfirm, RaiseTo
  <2>3. hedge' \in HedgeStatus /\ pc' \in TaskPc
    BY <1>18 DEF VarConfirm, HedgeStatus, TaskPc, QueueRetry
  <2>4. OrderHeld'
    BY <1>18 DEF VarConfirm, HasOrder, QueueRetry
  <2>5. retryPending' \in BOOLEAN /\ requeue' \in BOOLEAN
    BY <1>18, Zenon DEF VarConfirm, QueueRetry
  <2>6. QED
    BY <1>18, <2>1, <2>2, <2>3, <2>4, <2>5 DEF VarConfirm
<1>19. CASE VarFollowUp
  <2>1. emergency' \in BOOLEAN /\ varFollows' \in BOOLEAN
    BY <1>19, Zenon DEF VarFollowUp
  <2>2. OrderHeld'
    BY <1>19 DEF VarFollowUp
  <2>3. QED
    BY <1>19, <2>1, <2>2 DEF VarFollowUp
<1>20. CASE Unconfirmed
  <2>1. rollback' \in Nat
    BY <1>20 DEF Unconfirmed, RaiseTo
  <2>2. OrderHeld'
    BY <1>20 DEF Unconfirmed
  <2>3. QED
    BY <1>20, <2>1, <2>2 DEF Unconfirmed, PauseAutomation
<1>21. CASE Normalize
  BY <1>21 DEF Normalize, HedgeStatus
<1>22. CASE TimeOut
  BY <1>22 DEF TimeOut, PauseForReconciliation, HedgeStatus
<1>23. CASE ReconcileFlat
  <2>1. DOMAIN exch = 1..Len(exch) /\ Len(exch) \in Nat
    BY LenProperties
  <2>2. Ids \subseteq Nat
    BY <2>1 DEF Ids
  <2>3. terminal' \subseteq Nat
    BY <1>23, <2>2 DEF ReconcileFlat
  <2>4. hedge' \in HedgeStatus
    BY <1>23 DEF ReconcileFlat, HedgeStatus
  <2>5. QED
    BY <1>23, <2>3, <2>4 DEF ReconcileFlat
<1>24. ASSUME NEW id \in Ids, Arrive(id) PROVE TInv'
  <2>1. exch[id] \in Order /\ id \in DOMAIN exch
    BY ElementOfSeq DEF Ids
  <2>2. exch' \in Seq(Order) /\ Len(exch') = Len(exch)
    <3>1. CASE \E s \in {"rejected", "lost"} : exch' = [exch EXCEPT ![id].st = s]
      <4>1. PICK s \in {"rejected", "lost"} : exch' = [exch EXCEPT ![id].st = s]
        BY <3>1
      <4>2. [exch[id] EXCEPT !.st = s] \in Order
        BY <2>1 DEF Order, OrderState
      <4>3. exch' = [exch EXCEPT ![id] = [exch[id] EXCEPT !.st = s]]
        BY <4>1
      <4>4. QED
        BY <2>1, <4>2, <4>3, ExceptSeq
    <3>2. CASE \E d \in 0..exch[id].qty :
                  exch' = [exch EXCEPT ![id] = [@ EXCEPT !.st = "done", !.done = d]]
      <4>1. PICK d \in 0..exch[id].qty :
                    exch' = [exch EXCEPT ![id] = [@ EXCEPT !.st = "done", !.done = d]]
        BY <3>2
      <4>2. d \in Nat
        BY <2>1 DEF Order
      <4>3. [exch[id] EXCEPT !.st = "done"] \in Order
        BY <2>1 DEF Order, OrderState
      <4>4. [[exch[id] EXCEPT !.st = "done"] EXCEPT !.done = d] \in Order
        BY <4>2, <4>3 DEF Order
      <4>5. exch' = [exch EXCEPT ![id] =
                       [[exch[id] EXCEPT !.st = "done"] EXCEPT !.done = d]]
        BY <4>1
      <4>6. QED
        BY <2>1, <4>4, <4>5, ExceptSeq
    <3>3. QED
      BY <1>24, <3>1, <3>2 DEF Arrive
  <2>3. exch # <<>>
    BY <2>1
  <2>4. exch' # <<>>
    BY <2>2, <2>3
  <2>5. QED
    BY <1>24, <2>2, <2>4 DEF Arrive
<1>25. CASE UNCHANGED vars
  BY <1>25 DEF vars
<1>26. QED
  BY <1>1, <1>2, <1>3, <1>4, <1>5, <1>6, <1>7, <1>8, <1>9, <1>10, <1>11, <1>12,
     <1>13, <1>14, <1>15, <1>16, <1>17, <1>18, <1>19, <1>20, <1>21, <1>22, <1>23,
     <1>24, <1>25 DEF Next, Task, Writer, Var, Watchdog, Exchange

\* Every reachable state of the three coroutines and the exchange is well typed:
\* the totals by order and the orders stay aligned although ids are allocated,
\* given up by a guard and reported on out of order.
THEOREM TypeCorrect == Spec => []TypeOK
<1>1. Spec => []TInv
  BY InitTInv, NextTInv, PTL DEF Spec
<1>2. TInv => TypeOK
  BY DEF TInv
<1>3. QED
  BY <1>1, <1>2, PTL

-----------------------------------------------------------------------------
(* Reports are cumulative *)

\* Only a report that is not stale touches the record's sum.
LEMMA FilledGrows == TInv /\ [Next]_vars => filled' >= filled
<1> SUFFICES ASSUME TInv, [Next]_vars PROVE filled' >= filled
  OBVIOUS
<1>1. filled \in Nat
  BY DEF TInv, TypeOK
<1>2. ASSUME NEW id \in Ids, NEW r \in [done : Nat, ended : BOOLEAN],
             ~Stale(id, r), Apply(id, r)
      PROVE  filled' >= filled
  BY <1>2, SumGrows DEF TInv, Apply
<1>3. ASSUME NEW id \in Ids, Report(id) PROVE filled' >= filled
  <2>1. exch[id] \in Order
    BY ElementOfSeq DEF Ids, TInv, TypeOK
  <2>2. QED
    BY <1>2, <1>3, <2>1, ReportsTrue DEF Report
<1>4. CASE ApplyReply
  <2>1. Newest \in Ids /\ exch[Newest] \in Order
    BY <1>4, LenProperties, ElementOfSeq
       DEF ApplyReply, Ids, Newest, TInv, TypeOK, OrderHeld, HasOrder
  <2>2. Ending(Newest) \in [done : Nat, ended : BOOLEAN]
    BY <2>1 DEF Ending, Order
  <2>3. CASE Stale(Newest, Ending(Newest))
    BY <1>1, <1>4, <2>3 DEF ApplyReply, knowledge
  <2>4. CASE ~Stale(Newest, Ending(Newest))
    BY <1>2, <1>4, <2>1, <2>2, <2>4 DEF ApplyReply
  <2>5. QED
    BY <2>3, <2>4
<1>5. CASE Next /\ ~ApplyReply /\ ~(\E id \in Ids : Report(id))
  <2>1. filled' = filled
    <3> USE DEF knowledge
    <3>1. CASE Task
      BY <1>5, <3>1 DEF Task, AttemptNothing, AttemptExceeded, Attempt, Allocate, GuardedRetry,
         GuardedFail, Wake, Send, Acknowledged, Raised, Flatten, Loop,
         ReconcileFound, Decide, ReconcileMissing
    <3>2. CASE Writer
      BY <1>5, <3>2 DEF Writer, FollowUp
    <3>3. CASE Var
      BY <3>3 DEF Var, Unconfirmed, VarFollowUp, VarConfirm
    <3>4. CASE Watchdog \/ Exchange
      BY <3>4 DEF Watchdog, Normalize, TimeOut, ReconcileFlat, Exchange, Arrive
    <3>5. QED
      BY <1>5, <3>1, <3>2, <3>3, <3>4 DEF Next
  <2>2. QED
    BY <1>1, <2>1
<1>6. CASE UNCHANGED vars
  BY <1>1, <1>6 DEF vars, knowledge
<1>7. QED
  BY <1>3, <1>4, <1>5, <1>6

\* No report, however late, repeated or reordered, takes back a fill of the record.
THEOREM ReportsMonotone == Spec => ReportsNeverRollBack
<1>1. Spec => []TInv
  BY InitTInv, NextTInv, PTL DEF Spec
<1>2. TInv /\ [Next]_vars => [filled' >= filled]_vars
  BY FilledGrows
<1>3. QED
  BY <1>1, <1>2, PTL DEF Spec, ReportsNeverRollBack

-----------------------------------------------------------------------------
(* An unconfirmed Commit *)

\* Before the verdict nothing is scheduled to be rolled back; after it, all fills.
RInv == /\ TInv
        /\ RollbackCoversFills
        /\ varSource # "unconfirmed_commit" => rollback = 0

\* A report keeps the rollback equal to the sum it leaves.
LEMMA ApplyKeepsRollback ==
    ASSUME RInv, NEW id \in Ids, NEW r \in [done : Nat, ended : BOOLEAN],
           ~Stale(id, r), Apply(id, r), varSource' = varSource
    PROVE  /\ varSource' = "unconfirmed_commit" => rollback' = filled'
           /\ varSource' # "unconfirmed_commit" => rollback' = 0
<1>1. NewSum(id, r) \in Nat /\ NewSum(id, r) >= filled
  BY SumGrows DEF RInv, TInv
<1>2. filled \in Nat
  BY DEF RInv, TInv, TypeOK
<1>3. filled' = NewSum(id, r)
  BY DEF Apply
<1>4. CASE varSource = "unconfirmed_commit"
  <2>1. rollback' = RaiseTo(filled, NewSum(id, r))
    BY <1>4 DEF Apply, RInv, RollbackCoversFills
  <2>2. QED
    BY <1>1, <1>2, <1>3, <1>4, <2>1 DEF RaiseTo
<1>5. CASE varSource # "unconfirmed_commit"
  BY <1>5 DEF Apply, RInv
<1>6. QED
  BY <1>4, <1>5

LEMMA NextRInv == RInv /\ [Next]_vars => RInv'
<1> SUFFICES ASSUME RInv, [Next]_vars PROVE RInv'
  OBVIOUS
<1>1. TInv /\ TInv'
  BY NextTInv DEF RInv
<1> USE DEF recordVars, knowledge, children, others
<1>2. ASSUME NEW id \in Ids, Report(id) PROVE RInv'
  <2>1. exch[id] \in Order
    BY <1>1, ElementOfSeq DEF Ids, TInv, TypeOK
  <2>2. PICK r \in [done : Nat, ended : BOOLEAN] : ~Stale(id, r) /\ Apply(id, r)
    BY <1>2, <2>1, ReportsTrue DEF Report
  <2>3. varSource' = varSource
    BY <1>2 DEF Report
  <2>4. QED
    BY <1>1, <2>2, <2>3, ApplyKeepsRollback DEF RInv, RollbackCoversFills
<1>3. CASE ApplyReply
  <2>1. Newest \in Ids /\ exch[Newest] \in Order
    BY <1>1, <1>3, LenProperties, ElementOfSeq
       DEF ApplyReply, Ids, Newest, TInv, TypeOK, OrderHeld, HasOrder
  <2>2. Ending(Newest) \in [done : Nat, ended : BOOLEAN]
    BY <2>1 DEF Ending, Order
  <2>3. varSource' = varSource
    BY <1>3 DEF ApplyReply
  <2>4. CASE Stale(Newest, Ending(Newest))
    BY <1>1, <1>3, <2>3, <2>4 DEF ApplyReply, RInv, RollbackCoversFills
  <2>5. CASE ~Stale(Newest, Ending(Newest))
    BY <1>1, <1>3, <2>1, <2>2, <2>3, <2>5, ApplyKeepsRollback
       DEF ApplyReply, RInv, RollbackCoversFills
  <2>6. QED
    BY <2>4, <2>5
<1>4. CASE Unconfirmed
  <2>1. filled \in Nat /\ rollback = 0
    BY <1>1, <1>4 DEF Unconfirmed, TInv, TypeOK, RInv
  <2>2. rollback' = filled /\ filled' = filled /\ varSource' = "unconfirmed_commit"
    BY <1>4, <2>1 DEF Unconfirmed, RaiseTo
  <2>3. QED
    BY <1>1, <2>2 DEF RInv, RollbackCoversFills
<1>5. ASSUME NEW q \in VarQtys, VarConfirm(q) PROVE RInv'
  BY <1>1, <1>5 DEF VarConfirm, RInv, RollbackCoversFills
<1>6. ASSUME UNCHANGED <<varSource, rollback, filled>> PROVE RInv'
  BY <1>1, <1>6 DEF RInv, RollbackCoversFills
<1>7. CASE Task /\ ~ApplyReply
  <2>1. UNCHANGED <<varSource, rollback, filled>>
    BY <1>7 DEF Task, AttemptNothing, AttemptExceeded, Attempt, Allocate, GuardedRetry,
         GuardedFail, Wake, Send, Acknowledged, Raised, Flatten, Loop,
         ReconcileFound, Decide, ReconcileMissing
  <2>2. QED
    BY <1>6, <2>1
<1>8. CASE FollowUp \/ VarFollowUp
  BY <1>6, <1>8 DEF FollowUp, VarFollowUp
<1>9. CASE Watchdog \/ Exchange
  BY <1>6, <1>9 DEF Watchdog, Normalize, TimeOut, ReconcileFlat, Exchange, Arrive
<1>10. CASE UNCHANGED vars
  BY <1>6, <1>10 DEF vars
<1>11. QED
  BY <1>2, <1>3, <1>4, <1>5, <1>7, <1>8, <1>9, <1>10 DEF Next, Writer, Var

\* What filled for a Commit that was never confirmed is rolled back to the last
\* tick, whichever comes last: the fill or the verdict.
THEOREM RollbackCorrect == Spec => []RollbackCoversFills
<1>1. Init => RInv
  BY InitTInv DEF Init, RInv, RollbackCoversFills
<1>2. RInv => RollbackCoversFills
  BY DEF RInv
<1>3. QED
  BY <1>1, <1>2, NextRInv, PTL DEF Spec

-----------------------------------------------------------------------------
(* What the runtime believes of the exchange *)

\* What holds of one order: an order that has not landed has filled nothing, the
\* known total never exceeds the true one, and an order held finished can fill no
\* more: it was executed, or it never left the process.
OrderTrue(id) ==
    /\ exch[id].st # "done" => exch[id].done = 0
    /\ total[id] <= exch[id].done
    /\ id \in terminal /\ ~ReduceOnly
         => total[id] = exch[id].done /\ exch[id].st \in {"reserved", "done"}
OrdersTrue == \A id \in Ids : OrderTrue(id)

\* The order about to be sent has not been sent, nor given up, before; the order
\* that was found was executed.
FreshOrder ==
    /\ pc = "send" => /\ exch[Newest].st = "reserved"
                      /\ ~ReduceOnly => Newest \notin terminal
    /\ pc = "found" => exch[Newest].st = "done"

KInv == TInv /\ OrdersTrue /\ FreshOrder

\* The indices and elements of the orders and their totals.
LEMMA OrderTypes ==
    ASSUME TInv
    PROVE  /\ Newest \in Nat /\ Ids = 1..Newest /\ DOMAIN total = Ids
           /\ \A id \in Ids : exch[id] \in Order /\ total[id] \in Nat /\ id \in Nat
           /\ pc \in HasOrder => Newest \in Ids
<1> USE DEF TInv, TypeOK, Ids, Newest
<1>1. Newest \in Nat /\ Ids = 1..Newest /\ DOMAIN total = Ids
  BY LenProperties
<1>2. \A id \in Ids : exch[id] \in Order /\ total[id] \in Nat /\ id \in Nat
  BY <1>1, ElementOfSeq
<1>3. pc \in HasOrder => Newest \in Ids
  BY <1>1, EmptySeq DEF OrderHeld
<1>4. QED
  BY <1>1, <1>2, <1>3

\* A record remains what it is: no step turns a close into an open.
LEMMA KindIsFixed == [Next]_vars => ReduceOnly' = ReduceOnly
<1> SUFFICES ASSUME [Next]_vars PROVE kind' = kind
  BY DEF ReduceOnly
<1> USE DEF others, recordVars
<1>1. CASE AttemptNothing \/ AttemptExceeded \/ Attempt \/ GuardedRetry \/ GuardedFail
  BY <1>1 DEF AttemptNothing, AttemptExceeded, Attempt, GuardedRetry, GuardedFail
<1>2. CASE Wake \/ Send \/ Acknowledged \/ Raised \/ Flatten \/ Loop
  BY <1>2 DEF Wake, Send, Acknowledged, Raised, Flatten, Loop
<1>3. CASE ReconcileFound \/ ApplyReply \/ Decide \/ ReconcileMissing
  BY <1>3 DEF ReconcileFound, ApplyReply, Decide, ReconcileMissing
<1>4. CASE FollowUp \/ VarFollowUp \/ Unconfirmed \/ Watchdog
  BY <1>4 DEF FollowUp, VarFollowUp, Unconfirmed, Watchdog, Normalize, TimeOut,
              ReconcileFlat
<1>5. ASSUME NEW id \in Ids, Report(id) \/ Arrive(id) PROVE kind' = kind
  BY <1>5 DEF Report, Arrive
<1>6. ASSUME NEW q \in VarQtys, VarConfirm(q) PROVE kind' = kind
  BY <1>6 DEF VarConfirm
<1>7. CASE UNCHANGED vars
  BY <1>7 DEF vars
<1>8. QED
  BY <1>1, <1>2, <1>3, <1>4, <1>5, <1>6, <1>7 DEF Next, Task, Writer, Var, Exchange

\* A report leaves what is believed of every order true.
LEMMA ApplyKeepsTruth ==
    ASSUME KInv, NEW id \in Ids, NEW r \in Reports(id), exch[id].st = "done",
           ~Stale(id, r), Apply(id, r), exch' = exch, ReduceOnly' = ReduceOnly
    PROVE  OrdersTrue'
<1>1. TInv
  BY DEF KInv
<1>2. /\ r.done \in Nat /\ r.done <= exch[id].done
      /\ r.ended => r.done = exch[id].done
  BY <1>1, OrderTypes, ReportsTrue
<1>3. Ids' = Ids
  BY DEF Ids
<1>4. total' = [total EXCEPT ![id] = r.done] /\ DOMAIN total = Ids
  BY <1>1, OrderTypes DEF Apply
<1>5. terminal' = IF r.ended THEN terminal \cup {id} ELSE terminal
  BY DEF Apply
<1>6. ASSUME NEW i \in Ids PROVE OrderTrue(i)'
  <2>1. OrderTrue(i)
    BY DEF KInv, OrdersTrue
  <2>2. CASE i # id
    BY <1>4, <1>5, <2>1, <2>2 DEF OrderTrue
  <2>3. CASE i = id /\ r.ended
    BY <1>1, <1>2, <1>4, <2>3, OrderTypes DEF OrderTrue, Order
  <2>4. CASE i = id /\ ~r.ended
    <3>1. total[id] \in Nat /\ exch[id].done \in Nat
      BY <1>1, OrderTypes DEF Order
    <3>2. total'[i] = r.done /\ terminal' = terminal
      BY <1>4, <1>5, <2>4
    <3>3. id \in terminal => ReduceOnly
      BY <1>2, <2>1, <2>4, <3>1 DEF OrderTrue, Stale
    <3>4. QED
      BY <1>2, <2>1, <2>4, <3>2, <3>3 DEF OrderTrue
  <2>5. QED
    BY <2>2, <2>3, <2>4
<1>7. QED
  BY <1>3, <1>6 DEF OrdersTrue

\* A new order joins the others, which keep their places.
LEMMA ReserveAppends ==
    ASSUME TInv,
           exch' = Append(exch, [st |-> "reserved", qty |-> 0, done |-> 0]),
           total' = Append(total, 0)
    PROVE  /\ Newest' = Newest + 1
           /\ exch'[Newest + 1].st = "reserved" /\ exch'[Newest + 1].done = 0
           /\ total'[Newest + 1] = 0
           /\ \A i \in Ids : exch'[i] = exch[i] /\ total'[i] = total[i]
<1>1. PICK n \in Nat : n = Newest
  BY OrderTypes
<1>2. /\ exch \in Seq(Order) /\ total \in Seq(Nat) /\ Len(total) = n /\ Len(exch) = n
      /\ Ids = 1..n
  BY <1>1, OrderTypes DEF TInv, TypeOK, Newest
<1>3. PICK new : new = [st |-> "reserved", qty |-> 0, done |-> 0]
  OBVIOUS
<1>4. exch' = Append(exch, new) /\ new.st = "reserved" /\ new.done = 0
  BY <1>3
<1>5. Len(exch') = n + 1 /\ exch'[n + 1] = new /\ \A i \in 1..n : exch'[i] = exch[i]
  BY <1>2, <1>4, AppendProperties
<1>6. total'[n + 1] = 0 /\ \A i \in 1..n : total'[i] = total[i]
  BY <1>2, AppendProperties
<1>7. QED
  BY <1>1, <1>2, <1>4, <1>5, <1>6 DEF Newest

\* If nothing of a new order is filled, and nothing known, the others stay true.
LEMMA ReserveKeepsTruth ==
    ASSUME KInv, TInv', Newest' = Newest + 1, ReduceOnly' = ReduceOnly,
           exch'[Newest + 1].st = "reserved", exch'[Newest + 1].done = 0,
           total'[Newest + 1] = 0,
           \A i \in Ids : exch'[i] = exch[i] /\ total'[i] = total[i],
           \A i \in Ids : i \in terminal' => i \in terminal
    PROVE  OrdersTrue'
<1>1. PICK n \in Nat : n = Newest
  BY OrderTypes DEF KInv
<1>2. Ids = 1..n /\ Ids' = 1..(n + 1) /\ OrdersTrue
  BY <1>1, OrderTypes, LenProperties DEF KInv, TInv, TypeOK, Newest, Ids
<1>3. ASSUME NEW i \in 1..n PROVE OrderTrue(i)'
  BY <1>2 DEF OrdersTrue, OrderTrue
<1>4. OrderTrue(n + 1)'
  BY <1>1 DEF OrderTrue
<1>5. QED
  BY <1>2, <1>3, <1>4 DEF OrdersTrue

LEMMA NextKInv == KInv /\ [Next]_vars => KInv'
<1> SUFFICES ASSUME KInv, [Next]_vars PROVE KInv'
  OBVIOUS
<1>1. TInv /\ TInv' /\ OrdersTrue /\ FreshOrder /\ ReduceOnly' = ReduceOnly
  BY NextTInv, KindIsFixed DEF KInv
<1>2. /\ Newest \in Nat /\ Ids = 1..Newest /\ DOMAIN total = Ids
      /\ \A id \in Ids : exch[id] \in Order /\ total[id] \in Nat /\ id \in Nat
      /\ pc \in HasOrder => Newest \in Ids
  BY <1>1, OrderTypes
<1> USE DEF knowledge, taskVars, others, flags, children, handlers, alarms
\* A step that leaves the orders and what is known of them alone.
<1>3. ASSUME UNCHANGED <<exch, total, terminal>>,
             pc' = "send" => pc = "send",
             pc' = "found" => pc = "found" \/ exch[Newest].st = "done"
      PROVE  KInv'
  <2>1. Ids' = Ids /\ Newest' = Newest
    BY <1>3 DEF Ids, Newest
  <2>2. OrdersTrue'
    BY <1>1, <1>3, <2>1 DEF OrdersTrue, OrderTrue
  <2>3. FreshOrder'
    BY <1>1, <1>3, <2>1 DEF FreshOrder
  <2>4. QED
    BY <1>1, <2>2, <2>3 DEF KInv
<1>4. CASE AttemptNothing \/ Wake \/ Acknowledged \/ Flatten \/ Loop \/ ReconcileFound
  BY <1>3, <1>4 DEF AttemptNothing, Wake, Acknowledged, Flatten, Loop, ReconcileFound
<1>5. CASE Attempt
  <2>1. /\ exch' = Append(exch, [st |-> "reserved", qty |-> 0, done |-> 0])
        /\ total' = Append(total, 0)
        /\ terminal' = terminal \ {Len(exch) + 1} /\ pc' = "send"
    BY <1>5 DEF Attempt, Allocate
  <2>2. /\ OrdersTrue'
        /\ Newest' = Len(exch) + 1 /\ exch'[Newest'].st = "reserved"
    BY <1>1, <2>1, ReserveAppends, ReserveKeepsTruth DEF Newest
  <2>3. FreshOrder'
    BY <2>1, <2>2 DEF FreshOrder
  <2>4. QED
    BY <1>1, <2>2, <2>3 DEF KInv
<1>6. CASE GuardedRetry
  <2>1. /\ exch' = Append(exch, [st |-> "reserved", qty |-> 0, done |-> 0])
        /\ total' = Append(total, 0)
        /\ terminal' = terminal \cup {Len(exch) + 1} /\ pc' = "sleep"
    BY <1>6 DEF GuardedRetry, WithTerminal
  <2>2. \A i \in Ids : i # Len(exch) + 1
    BY <1>2 DEF Newest
  <2>3. OrdersTrue'
    BY <1>1, <2>1, <2>2, ReserveAppends, ReserveKeepsTruth
  <2>4. FreshOrder'
    BY <2>1 DEF FreshOrder
  <2>5. QED
    BY <1>1, <2>3, <2>4 DEF KInv
<1>7. CASE GuardedFail
  <2>1. /\ exch' = Append(exch, [st |-> "reserved", qty |-> 0, done |-> 0])
        /\ total' = Append(total, 0)
        /\ terminal' = terminal \ {Len(exch) + 1} /\ pc' \in {"loop", "flatten"}
    BY <1>7, FailHedgeTypes DEF GuardedFail, Allocate, KInv, TInv
  <2>2. OrdersTrue'
    BY <1>1, <2>1, ReserveAppends, ReserveKeepsTruth
  <2>3. FreshOrder'
    BY <2>1 DEF FreshOrder
  <2>4. QED
    BY <1>1, <2>2, <2>3 DEF KInv
<1>8. CASE Send
  <2>1. /\ UNCHANGED <<total, terminal>> /\ pc' = "await" /\ Newest \in Ids
        /\ exch' = [exch EXCEPT ![Newest] =
                      [st |-> "inflight", qty |-> sendQty, done |-> 0]]
        /\ exch[Newest].st = "reserved" /\ (~ReduceOnly => Newest \notin terminal)
    BY <1>1, <1>2, <1>8 DEF Send, FreshOrder, HasOrder
  <2>2. Ids' = Ids
    BY <2>1 DEF Ids
  <2>3. total[Newest] = 0
    BY <1>1, <1>2, <2>1 DEF OrdersTrue, OrderTrue
  <2>4. ASSUME NEW i \in Ids PROVE OrderTrue(i)'
    <3>1. CASE i = Newest
      <4>1. exch'[i] = [st |-> "inflight", qty |-> sendQty, done |-> 0]
        BY <2>1, <3>1 DEF Ids
      <4>2. QED
        BY <1>1, <2>1, <2>3, <3>1, <4>1 DEF OrderTrue
    <3>2. CASE i # Newest
      BY <1>1, <2>1, <3>2 DEF OrdersTrue, OrderTrue, Ids
    <3>3. QED
      BY <3>1, <3>2
  <2>5. OrdersTrue'
    BY <2>2, <2>4 DEF OrdersTrue
  <2>6. FreshOrder'
    BY <2>1 DEF FreshOrder
  <2>7. QED
    BY <1>1, <2>5, <2>6 DEF KInv
<1>9. CASE AttemptExceeded \/ Raised
  BY <1>3, <1>9 DEF AttemptExceeded, Raised, FailHedge
<1>10. CASE Decide \/ ReconcileMissing
  BY <1>3, <1>10 DEF Decide, ReconcileMissing, DecideOn, FailHedge, QueueRetry
<1>11. CASE ApplyReply
  <2>1. UNCHANGED exch /\ pc' \in {"applied", "decide"} /\ Newest \in Ids
    BY <1>2, <1>11 DEF ApplyReply, HasOrder
  <2>2. CASE Stale(Newest, Ending(Newest))
    BY <1>3, <1>11, <2>1, <2>2 DEF ApplyReply
  <2>3. CASE ~Stale(Newest, Ending(Newest))
    <3>1. Apply(Newest, Ending(Newest)) /\ Ending(Newest) \in Reports(Newest)
      BY <1>11, <2>3 DEF ApplyReply, Reports
    <3>2. exch[Newest].st = "done"
      BY <1>1, <1>11 DEF ApplyReply, FreshOrder
    <3>3. OrdersTrue'
      BY <1>1, <2>1, <2>3, <3>1, <3>2, ApplyKeepsTruth
    <3>4. FreshOrder'
      BY <2>1 DEF FreshOrder
    <3>5. QED
      BY <1>1, <3>3, <3>4 DEF KInv
  <2>4. QED
    BY <2>2, <2>3
<1>12. ASSUME NEW id \in Ids, Report(id) PROVE KInv'
  <2>1. PICK r \in Reports(id) : ~Stale(id, r) /\ Apply(id, r)
    BY <1>12 DEF Report
  <2>2. UNCHANGED <<exch, pc>> /\ exch[id].st = "done"
    BY <1>12 DEF Report
  <2>3. OrdersTrue'
    BY <1>1, <2>1, <2>2, ApplyKeepsTruth
  <2>4. terminal' \subseteq terminal \cup {id} /\ Newest' = Newest
    BY <2>1, <2>2 DEF Apply, Newest
  <2>5. FreshOrder'
    BY <1>1, <2>2, <2>4 DEF FreshOrder
  <2>6. QED
    BY <1>1, <2>3, <2>5 DEF KInv
<1>13. CASE FollowUp
  BY <1>3, <1>13 DEF FollowUp, QueueRetry, Resumed
<1>14. ASSUME NEW q \in VarQtys, VarConfirm(q) PROVE KInv'
  BY <1>3, <1>14 DEF VarConfirm, QueueRetry
<1>15. CASE VarFollowUp \/ Unconfirmed \/ Normalize \/ TimeOut
  BY <1>3, <1>15 DEF VarFollowUp, Unconfirmed, Normalize, TimeOut
<1>16. CASE ReconcileFlat
  <2>1. UNCHANGED <<exch, total, pc>> /\ ReduceOnly
    BY <1>16 DEF ReconcileFlat
  <2>2. Ids' = Ids /\ Newest' = Newest
    BY <2>1 DEF Ids, Newest
  <2>3. OrdersTrue'
    BY <1>1, <2>1, <2>2 DEF OrdersTrue, OrderTrue
  <2>4. FreshOrder'
    BY <1>1, <2>1, <2>2 DEF FreshOrder
  <2>5. QED
    BY <1>1, <2>3, <2>4 DEF KInv
<1>17. ASSUME NEW id \in Ids, Arrive(id) PROVE KInv'
  <2>1. UNCHANGED <<total, terminal, pc>> /\ exch[id].st = "inflight"
    BY <1>17 DEF Arrive
  <2>2. Ids' = Ids /\ Newest' = Newest /\ \A i \in Ids \ {id} : exch'[i] = exch[i]
    BY <1>1, <1>17, LenProperties DEF Arrive, Ids, Newest, TInv, TypeOK
  <2>3. exch'[id].st # "done" => exch'[id].done = exch[id].done
    BY <1>2, <1>17 DEF Arrive, Ids, Order
  <2>4. exch'[id].done \in Nat
    <3>1. exch' \in Seq(Order) /\ DOMAIN exch' = Ids
      BY <1>1, <2>2 DEF TInv, TypeOK, Ids
    <3>2. exch'[id] \in Order
      BY <1>1, <3>1, ElementOfSeq DEF Ids
    <3>3. QED
      BY <3>2 DEF Order
  <2>5. ASSUME NEW i \in Ids PROVE OrderTrue(i)'
    <3>1. CASE i = id
      <4>1. exch[id].done = 0 /\ total[id] = 0 /\ (id \in terminal => ReduceOnly)
        BY <1>1, <1>2, <2>1 DEF OrdersTrue, OrderTrue
      <4>2. QED
        BY <1>1, <2>1, <2>3, <2>4, <3>1, <4>1 DEF OrderTrue
    <3>2. CASE i # id
      BY <1>1, <2>1, <2>2, <3>2 DEF OrdersTrue, OrderTrue
    <3>3. QED
      BY <3>1, <3>2
  <2>6. OrdersTrue'
    BY <2>2, <2>5 DEF OrdersTrue
  <2>7. FreshOrder'
    <3>1. CASE pc = "send"
      <4>1. Newest \in Ids /\ exch[Newest].st = "reserved" /\ Newest # id
        BY <1>1, <1>2, <2>1, <3>1 DEF FreshOrder, HasOrder
      <4>2. QED
        BY <1>1, <2>1, <2>2, <4>1 DEF FreshOrder
    <3>2. CASE pc = "found"
      <4>1. exch[Newest].st = "done" /\ Newest \in Ids /\ Newest # id
        BY <1>1, <1>2, <2>1, <3>2 DEF FreshOrder, HasOrder
      <4>2. QED
        BY <2>1, <2>2, <3>2, <4>1 DEF FreshOrder
    <3>3. CASE pc \notin {"send", "found"}
      BY <2>1, <3>3 DEF FreshOrder
    <3>4. QED
      BY <3>1, <3>2, <3>3
  <2>8. QED
    BY <1>1, <2>6, <2>7 DEF KInv
<1>18. CASE UNCHANGED vars
  <2>1. UNCHANGED <<exch, total, terminal, pc>>
    BY <1>18 DEF vars
  <2>2. QED
    BY <1>3, <2>1
<1>19. QED
  BY <1>4, <1>5, <1>6, <1>7, <1>8, <1>9, <1>10, <1>11, <1>12, <1>13, <1>14, <1>15,
     <1>16, <1>17, <1>18 DEF Next, Task, Writer, Var, Watchdog, Exchange

\* The runtime never believes in a fill the exchange did not make, and an order it
\* holds finished has no more to report: reports of any age, in any order, racing
\* with new attempts, cannot make it forget or invent a fill.
THEOREM KnowledgeCorrect == Spec => []KnowledgeIsTrue
<1>1. Init => KInv
  BY InitTInv DEF Init, KInv, OrdersTrue, FreshOrder, Ids
<1>2. KInv => KnowledgeIsTrue
  BY DEF KInv, OrdersTrue, OrderTrue, KnowledgeIsTrue
<1>3. QED
  BY <1>1, <1>2, NextKInv, PTL DEF Spec

-----------------------------------------------------------------------------
(* Sums over the orders of a record *)

\* Every set of numbers has a least one: the cases left by a property of all
\* numbers cannot descend for ever.
LEMMA LeastElement ==
    ASSUME NEW T, T \subseteq Nat, T # {}
    PROVE  \E x \in T : \A y \in T : x <= y
<1> DEFINE U == {0..x : x \in T}
<1>1. U \subseteq FiniteSubsetsOf(Nat)
  <2> SUFFICES ASSUME NEW x \in T PROVE 0..x \in FiniteSubsetsOf(Nat)
    OBVIOUS
  <2>1. x \in Int /\ 0 \in Int /\ 0..x \subseteq Nat
    OBVIOUS
  <2>2. IsFiniteSet(0..x)
    BY <2>1, FS_Interval
  <2>3. QED
    BY <2>1, <2>2 DEF FiniteSubsetsOf
<1>2. \E I \in U : \A J \in U : <<J, I>> \notin StrictSubsetOrdering(Nat)
  <2>1. IsWellFoundedOn(StrictSubsetOrdering(Nat), FiniteSubsetsOf(Nat))
    BY FS_StrictSubsetOrderingWellFounded
  <2>2. U # {}
    OBVIOUS
  <2>3. QED
    BY <1>1, <2>1, <2>2, WFMin
<1>3. PICK x \in T : \A y \in T : <<0..y, 0..x>> \notin StrictSubsetOrdering(Nat)
  BY <1>2
<1>4. ASSUME NEW y \in T, y < x
      PROVE  <<0..y, 0..x>> \in StrictSubsetOrdering(Nat)
  <2>1. 0..y \subseteq 0..x /\ x \in 0..x /\ x \notin 0..y /\ 0..x \subseteq Nat
    BY <1>4
  <2>2. 0..y # 0..x
    BY <2>1
  <2>3. QED
    BY <2>1, <2>2 DEF StrictSubsetOrdering
<1>5. \A y \in T : ~(y < x)
  BY <1>3, <1>4
<1>6. x \in Nat /\ \A y \in T : y \in Nat
  OBVIOUS
<1>7. QED
  BY <1>5, <1>6

\* The running sums of a sequence, up to its n-th element.
SumsOf(q, n, f) == f = [i \in 0..n |-> IF i = 0 THEN 0 ELSE f[i - 1] + q[i]]

LEMMA SumsExist ==
    ASSUME NEW q, NEW n \in Nat
    PROVE  \E f : SumsOf(q, n, f)
<1> DEFINE T == {m \in Nat : ~ \E f : SumsOf(q, m, f)}
<1> SUFFICES ASSUME T # {} PROVE FALSE
  OBVIOUS
<1>1. PICK m \in T : \A y \in T : m <= y
  <2>1. T \subseteq Nat /\ T # {}
    OBVIOUS
  <2> HIDE DEF T
  <2>2. QED
    BY <2>1, LeastElement
<1>2. m # 0
  <2>1. SumsOf(q, 0, [i \in 0..0 |-> 0])
    BY DEF SumsOf
  <2>2. QED
    BY <2>1
<1>3. m - 1 \in Nat /\ m - 1 \notin T
  BY <1>1, <1>2
<1>4. PICK f : SumsOf(q, m - 1, f)
  BY <1>3
<1> DEFINE g == [i \in 0..m |-> IF i = 0 THEN 0 ELSE f[i - 1] + q[i]]
<1>5. \A i \in 0..(m - 1) : f[i] = IF i = 0 THEN 0 ELSE f[i - 1] + q[i]
  BY <1>4 DEF SumsOf
<1>6. \A i \in 0..(m - 1) : g[i] = f[i]
  BY <1>3, <1>5
<1>7. \A i \in 0..m : i # 0 => g[i - 1] = f[i - 1]
  BY <1>3, <1>6
<1>8. g = [i \in 0..m |-> IF i = 0 THEN 0 ELSE g[i - 1] + q[i]]
  <2>1. \A i \in 0..m : g[i] = IF i = 0 THEN 0 ELSE g[i - 1] + q[i]
    BY <1>7
  <2> HIDE DEF g
  <2>2. g = [i \in 0..m |-> g[i]]
    BY DEF g
  <2>3. QED
    BY <2>1, <2>2
<1>9. SumsOf(q, m, g)
  <2> HIDE DEF g
  <2> QED
    BY <1>8 DEF SumsOf
<1>10. QED
  BY <1>9

LEMMA TotalBySums ==
    ASSUME NEW q, Len(q) \in Nat
    PROVE  \E f : SumsOf(q, Len(q), f) /\ TotalOf(q) = f[Len(q)]
<1> DEFINE f == CHOOSE g : SumsOf(q, Len(q), g)
<1>1. SumsOf(q, Len(q), f)
  BY SumsExist
<1>2. TotalOf(q) = f[Len(q)]
  BY DEF TotalOf, SumsOf
<1>3. QED
  BY <1>1, <1>2

\* Running sums are quantities.
LEMMA SumsAreNat ==
    ASSUME NEW q \in Seq(Nat), NEW f, SumsOf(q, Len(q), f)
    PROVE  \A i \in 0..Len(q) : f[i] \in Nat
<1> DEFINE T == {i \in 0..Len(q) : f[i] \notin Nat}
<1> SUFFICES ASSUME T # {} PROVE FALSE
  OBVIOUS
<1>1. PICK x \in T : \A y \in T : x <= y
  <2>1. T \subseteq Nat /\ T # {}
    OBVIOUS
  <2> HIDE DEF T
  <2>2. QED
    BY <2>1, LeastElement
<1>2. \A i \in 0..Len(q) : f[i] = IF i = 0 THEN 0 ELSE f[i - 1] + q[i]
  BY DEF SumsOf
<1>3. x # 0 /\ f[x - 1] \in Nat /\ q[x] \in Nat
  BY <1>1, <1>2
<1>4. QED
  BY <1>2, <1>3

LEMMA TotalIsNat ==
    ASSUME NEW q \in Seq(Nat)
    PROVE  TotalOf(q) \in Nat
<1>1. PICK f : SumsOf(q, Len(q), f) /\ TotalOf(q) = f[Len(q)]
  BY TotalBySums
<1>2. QED
  BY <1>1, SumsAreNat

\* The total grows with the elements.
LEMMA TotalMonotonic ==
    ASSUME NEW q \in Seq(Nat), NEW r \in Seq(Nat), Len(q) = Len(r),
           \A i \in 1..Len(q) : q[i] <= r[i]
    PROVE  TotalOf(q) \in Nat /\ TotalOf(q) <= TotalOf(r)
<1>1. PICK f : SumsOf(q, Len(q), f) /\ TotalOf(q) = f[Len(q)]
  BY TotalBySums
<1>2. PICK g : SumsOf(r, Len(q), g) /\ TotalOf(r) = g[Len(q)]
  BY TotalBySums
<1>3. \A i \in 0..Len(q) : f[i] \in Nat /\ g[i] \in Nat
  BY <1>1, <1>2, SumsAreNat
<1> DEFINE T == {i \in 0..Len(q) : ~(f[i] <= g[i])}
<1>4. CASE T # {}
  <2>1. PICK x \in T : \A y \in T : x <= y
    <3>1. T \subseteq Nat /\ T # {}
      BY <1>4
    <3> HIDE DEF T
    <3>2. QED
      BY <3>1, LeastElement
  <2>2. \A i \in 0..Len(q) : /\ f[i] = IF i = 0 THEN 0 ELSE f[i - 1] + q[i]
                             /\ g[i] = IF i = 0 THEN 0 ELSE g[i - 1] + r[i]
    BY <1>1, <1>2 DEF SumsOf
  <2>3. x # 0 /\ x \in 1..Len(q)
    BY <2>2
  <2>4. f[x - 1] <= g[x - 1] /\ x - 1 \in 0..Len(q)
    BY <2>1, <2>3
  <2>5. q[x] \in Nat /\ r[x] \in Nat /\ q[x] <= r[x]
    BY <2>3
  <2>6. f[x] = f[x - 1] + q[x] /\ g[x] = g[x - 1] + r[x]
    BY <2>2, <2>3
  <2>7. f[x - 1] \in Nat /\ g[x - 1] \in Nat
    BY <1>3, <2>4
  <2>8. f[x] <= g[x]
    <3> HIDE DEF T
    <3>1. \A a, b, c, d \in Nat : a <= b /\ c <= d => a + c <= b + d
      OBVIOUS
    <3>2. f[x - 1] + q[x] <= g[x - 1] + r[x]
      BY <2>4, <2>5, <2>7, <3>1
    <3>3. QED
      BY <2>6, <3>2
  <2>9. QED
    BY <2>8
<1>5. QED
  BY <1>1, <1>2, <1>3, <1>4

\* Where two sequences agree but for one place, so do their totals.
LEMMA TotalExcept ==
    ASSUME NEW q \in Seq(Nat), NEW r \in Seq(Nat), Len(q) = Len(r),
           NEW k \in 1..Len(q), \A i \in 1..Len(q) : i # k => q[i] = r[i]
    PROVE  TotalOf(r) + q[k] = TotalOf(q) + r[k]
<1>1. PICK f : SumsOf(q, Len(q), f) /\ TotalOf(q) = f[Len(q)]
  BY TotalBySums
<1>2. PICK g : SumsOf(r, Len(q), g) /\ TotalOf(r) = g[Len(q)]
  BY TotalBySums
<1>3. \A i \in 0..Len(q) : f[i] \in Nat /\ g[i] \in Nat
  BY <1>1, <1>2, SumsAreNat
<1> DEFINE Off(i) == IF i < k THEN g[i] # f[i] ELSE g[i] + q[k] # f[i] + r[k]
           T == {i \in 0..Len(q) : Off(i)}
<1>4. CASE T # {}
  <2>1. PICK x \in T : \A y \in T : x <= y
    <3>1. T \subseteq Nat /\ T # {}
      BY <1>4
    <3> HIDE DEF T
    <3>2. QED
      BY <3>1, LeastElement
  <2>2. \A i \in 0..Len(q) : /\ f[i] = IF i = 0 THEN 0 ELSE f[i - 1] + q[i]
                             /\ g[i] = IF i = 0 THEN 0 ELSE g[i - 1] + r[i]
    BY <1>1, <1>2 DEF SumsOf
  <2>3. x # 0 /\ x \in 1..Len(q)
    BY <2>2
  <2>4. ~Off(x - 1) /\ x - 1 \in 0..Len(q)
    BY <2>1, <2>3
  <2>5. q[x] \in Nat /\ r[x] \in Nat /\ q[k] \in Nat /\ r[k] \in Nat
    BY <2>3
  <2>6. /\ f[x] = f[x - 1] + q[x] /\ g[x] = g[x - 1] + r[x]
        /\ f[x] \in Nat /\ g[x] \in Nat /\ f[x - 1] \in Nat /\ g[x - 1] \in Nat
    BY <1>3, <2>2, <2>3, <2>4
  <2>7. CASE x < k
    <3>1. q[x] = r[x] /\ g[x - 1] = f[x - 1]
      BY <2>3, <2>4, <2>7
    <3>2. g[x] = f[x]
      BY <2>6, <3>1
    <3>3. QED
      BY <2>7, <3>2
  <2>8. CASE x = k
    <3>1. g[x - 1] = f[x - 1]
      BY <2>3, <2>4, <2>8
    <3>2. \A a, b, c \in Nat : (a + b) + c = (a + c) + b
      OBVIOUS
    <3>3. g[x] + q[k] = f[x] + r[k]
      <4>1. PICK a \in Nat, b \in Nat, c \in Nat :
                a = f[x - 1] /\ b = r[k] /\ c = q[k]
        BY <2>5, <2>6
      <4>2. g[x] = a + b /\ f[x] = a + c
        BY <2>6, <2>8, <3>1, <4>1
      <4>3. (a + b) + c = (a + c) + b
        BY <3>2
      <4>4. g[x] + q[k] = (a + b) + c /\ f[x] + r[k] = (a + c) + b
        BY <4>1, <4>2, Zenon
      <4>5. QED
        BY <4>3, <4>4, Zenon
    <3>4. QED
      BY <2>8, <3>3
  <2>9. CASE x > k
    <3>1. q[x] = r[x] /\ g[x - 1] + q[k] = f[x - 1] + r[k]
      BY <2>3, <2>4, <2>9
    <3>2. \A a, b, c, d, e \in Nat : a + d = b + e => (a + c) + d = (b + c) + e
      OBVIOUS
    <3>3. g[x] + q[k] = f[x] + r[k]
      <4>1. PICK a \in Nat, b \in Nat, c \in Nat, d \in Nat, e \in Nat :
                /\ a = g[x - 1] /\ b = f[x - 1] /\ c = q[x]
                /\ d = q[k] /\ e = r[k]
        BY <2>5, <2>6
      <4>2. g[x] = a + c /\ f[x] = b + c /\ a + d = b + e
        BY <2>6, <3>1, <4>1
      <4>3. (a + c) + d = (b + c) + e
        BY <3>2, <4>2
      <4>4. g[x] + q[k] = (a + c) + d /\ f[x] + r[k] = (b + c) + e
        BY <4>1, <4>2, Zenon
      <4>5. QED
        BY <4>3, <4>4, Zenon
    <3>4. QED
      BY <2>9, <3>3
  <2>10. QED
    BY <2>7, <2>8, <2>9
<1>5. CASE T = {}
  <2>1. Len(q) \in 0..Len(q) /\ ~(Len(q) < k)
    OBVIOUS
  <2>2. g[Len(q)] + q[k] = f[Len(q)] + r[k]
    BY <1>5, <2>1
  <2>3. QED
    BY <1>1, <1>2, <2>2
<1>6. QED
  BY <1>4, <1>5

\* An element more adds itself.
LEMMA TotalAppend ==
    ASSUME NEW q \in Seq(Nat), NEW e \in Nat
    PROVE  TotalOf(Append(q, e)) = TotalOf(q) + e
<1> DEFINE r == Append(q, e)
           n == Len(q)
<1>1. r \in Seq(Nat) /\ Len(r) = n + 1 /\ r[n + 1] = e /\ \A i \in 1..n : r[i] = q[i]
  BY AppendProperties
<1>2. n \in Nat
  OBVIOUS
<1> HIDE DEF r
<1>3. PICK f : SumsOf(q, n, f) /\ TotalOf(q) = f[n]
  BY TotalBySums
<1>4. PICK g : SumsOf(r, n + 1, g) /\ TotalOf(r) = g[n + 1]
  BY <1>1, <1>2, TotalBySums
<1>5. \A i \in 0..n : f[i] = IF i = 0 THEN 0 ELSE f[i - 1] + q[i]
  BY <1>3 DEF SumsOf
<1>6. \A i \in 0..(n + 1) : g[i] = IF i = 0 THEN 0 ELSE g[i - 1] + r[i]
  BY <1>4 DEF SumsOf
<1> DEFINE T == {i \in 0..n : g[i] # f[i]}
<1>7. CASE T # {}
  <2>1. PICK x \in T : \A y \in T : x <= y
    <3>1. T \subseteq Nat /\ T # {}
      BY <1>7
    <3> HIDE DEF T
    <3>2. QED
      BY <3>1, LeastElement
  <2>2. x # 0 /\ x \in 1..n
    BY <1>5, <1>6
  <2>3. g[x - 1] = f[x - 1] /\ x - 1 \in 0..n /\ r[x] = q[x]
    BY <1>1, <2>1, <2>2
  <2>4. g[x] = g[x - 1] + r[x] /\ f[x] = f[x - 1] + q[x]
    BY <1>2, <1>5, <1>6, <2>2
  <2>5. QED
    BY <2>3, <2>4
<1>8. CASE T = {}
  <2>1. g[n] = f[n]
    BY <1>2, <1>8
  <2>2. g[n + 1] = g[n] + e
    <3>1. n + 1 \in 0..(n + 1) /\ n + 1 # 0 /\ (n + 1) - 1 = n
      BY <1>2
    <3>2. g[n + 1] = g[(n + 1) - 1] + r[n + 1]
      BY <1>6, <3>1
    <3>3. QED
      BY <1>1, <3>1, <3>2
  <2>3. QED
    BY <1>3, <1>4, <2>1, <2>2 DEF r
<1>9. QED
  BY <1>7, <1>8

LEMMA TotalEmpty == TotalOf(<<>>) = 0
<1>1. PICK f : SumsOf(<<>>, 0, f) /\ TotalOf(<<>>) = f[0]
  BY TotalBySums
<1>2. QED
  BY <1>1 DEF SumsOf

-----------------------------------------------------------------------------
(* The retries of a record follow one another *)

\* The order can fill no more, the runtime knows all of its fill, and it is held
\* finished or was never executed: no report of it is news.
Settled(id) == /\ exch[id].st # "inflight" /\ total[id] = exch[id].done
               /\ id \in terminal \/ exch[id].st \in {"lost", "rejected"}
AllSettled == \A id \in Ids : Settled(id)
AllIdle == \A id \in Ids : Settled(id) \/ exch[id].st = "reserved"

\* The writer is to retry or to give up once it has written the state.
Failing == writer.retry \/ writer.pause

\* Only the newest order is ever open, and every path that leads to a retry (the
\* guard, a report, a reconciliation) is taken when that one is settled, too.
EarlierSettled == \A id \in Ids : id # Newest => Settled(id)
RetrySafe == pc \in {"begin", "sleep", "decide", "applied"} \/ requeue \/ Failing
                 => AllSettled
RequeueHeld == requeue => /\ hedge \in {"retrying", "filled"}
                          /\ pc \notin {"idle", "send", "flatten"}

\* What the writer's pending decision rests on is not overtaken.
FailureHeld ==
    /\ Failing => /\ writer.busy /\ exch # <<>> /\ exch[Newest].st = "done"
                  /\ pc \notin {"begin", "sleep", "send", "decide", "flatten"}
                  /\ ~requeue
                  /\ varSource = "http_commit" => hedge # "filled" /\ filled # varQty
    /\ writer.retry => hedge \in {"retrying", "filled"}
    /\ writer.pause => ~AttemptsLeft /\ ~writer.retry

\* The order about to be sent asks for what is missing, of the target it was
\* allocated for.
SendHeld ==
    pc = "send" => /\ hedge = "submitting" /\ ~final /\ Newest \notin terminal
                   /\ exch[Newest].st = "reserved" /\ total[Newest] = 0
                   /\ sendQty > 0 /\ filled + sendQty \in {FirmQty, varQty}

\* No order fills more than it asks for, and the newest one asks for what the
\* others have left of the Firm Quote or of the confirmed fill.
Fits ==
    /\ \A id \in Ids : exch[id].done <= exch[id].qty
    /\ exch # <<>> /\ exch[Newest].st # "reserved"
         => filled + exch[Newest].qty
                \in {FirmQty + total[Newest], varQty + total[Newest]}
    /\ filled <= FirmQty \/ filled <= varQty

\* Until Variational's fill is confirmed the target is the Firm Quote's, and a hedge
\* that has reached it has nothing open that the confirmation could double.
BeforeConfirm ==
    /\ varSource # "event" => varQty = FirmQty
    /\ varSource = "http_commit" =>
         /\ filled <= varQty /\ correction = 0 /\ hedge # "overfilled"
         /\ hedge = "filled" => filled = varQty
         /\ filled = varQty => AllSettled

\* Nothing is left that could make the task send once more.
Dormant == /\ AllIdle /\ ~requeue /\ ~writer.retry
           /\ pc \notin {"begin", "sleep", "send"}
           /\ pc \in {"await", "confirm", "found", "applied", "decide"}
                => Newest >= MaxAttempts

\* A hedge that failed stays as it failed, and so does a flattened record.
FailedIsDormant ==
    /\ pc = "flatten" \/ hedge = "error"
         => AllIdle /\ ~requeue /\ (varQty = FirmQty => filled < varQty)
    /\ hedge = "error" => Dormant
    /\ emergency => varSource = "event" /\ Dormant

\* No more is taken back than was filled in excess.
Excess == IF filled > varQty THEN filled - varQty ELSE 0
CorrectionHeld == /\ varSource = "event" => correction <= Excess
                  /\ OverfillIsCorrected

Serial == /\ EarlierSettled /\ RetrySafe /\ RequeueHeld /\ FailureHeld /\ SendHeld
          /\ Fits /\ BeforeConfirm /\ FailedIsDormant /\ CorrectionHeld
SInv == KInv /\ Serial

\* A step that leaves the orders alone leaves what is settled as it is.
LEMMA SettledKept ==
    ASSUME UNCHANGED <<exch, total, terminal>>
    PROVE  /\ Ids' = Ids /\ Newest' = Newest
           /\ AllSettled' <=> AllSettled
           /\ AllIdle' <=> AllIdle
           /\ EarlierSettled' <=> EarlierSettled
<1>1. Ids' = Ids /\ Newest' = Newest
  BY DEF Ids, Newest
<1>2. \A id \in Ids : Settled(id)' <=> Settled(id)
  BY DEF Settled
<1>3. (AllSettled' <=> AllSettled) /\ (AllIdle' <=> AllIdle)
  BY <1>1, <1>2 DEF AllSettled, AllIdle
<1>4. EarlierSettled' <=> EarlierSettled
  BY <1>1, <1>2 DEF EarlierSettled
<1>5. QED
  BY <1>1, <1>3, <1>4

LEMMA SettledFacts ==
    ASSUME SInv
    PROVE  /\ AllSettled => AllIdle
           /\ Newest \in Nat /\ (exch # <<>> => Newest \in Ids)
           /\ AllSettled /\ exch # <<>> => Settled(Newest)
           /\ exch # <<>> /\ Settled(Newest) => AllSettled
           /\ exch # <<>> /\ exch[Newest].st \in {"lost", "rejected"} => AllSettled
           /\ filled \in Nat /\ varQty \in Nat /\ correction \in Nat /\ sendQty \in Nat
           /\ FirmQty \in Nat /\ MaxAttempts \in Nat /\ (pc \in HasOrder => exch # <<>>)
<1>1. /\ Newest \in Nat /\ Ids = 1..Newest /\ DOMAIN total = Ids
      /\ \A id \in Ids : exch[id] \in Order /\ total[id] \in Nat /\ id \in Nat
  BY OrderTypes DEF SInv, KInv
<1>2. exch # <<>> => Newest \in Ids
  BY <1>1, EmptySeq DEF SInv, KInv, TInv, TypeOK, Newest
<1>3. exch # <<>> /\ Settled(Newest) => AllSettled
  BY DEF SInv, Serial, EarlierSettled, AllSettled
<1>4. exch # <<>> /\ exch[Newest].st \in {"lost", "rejected"} => Settled(Newest)
  BY <1>1, <1>2 DEF SInv, KInv, OrdersTrue, OrderTrue, Settled, Order
<1>5. /\ filled \in Nat /\ varQty \in Nat /\ correction \in Nat /\ sendQty \in Nat
      /\ FirmQty \in Nat /\ MaxAttempts \in Nat /\ (pc \in HasOrder => exch # <<>>)
  BY QtyAssumption, AttemptsAssumption DEF SInv, KInv, TInv, TypeOK, OrderHeld
<1>6. QED
  BY <1>1, <1>2, <1>3, <1>4, <1>5 DEF AllSettled, AllIdle

\* The task moves on without a decision.
LEMMA TaskMovesSafely ==
    ASSUME ~LateLanding, SInv, Wake \/ Acknowledged \/ Loop \/ ReconcileFound
    PROVE  Serial'
<1> USE DEF SInv, Serial, HasOrder, Failing, AttemptsLeft, OpenRecovery,
            knowledge, taskVars, others, flags, children, handlers, alarms, recordVars
<1> USE DEF Wake, Acknowledged, Loop, ReconcileFound, GoRound
<1>1. UNCHANGED <<exch, total, terminal, filled, varQty>>
  OBVIOUS
<1>2. /\ Ids' = Ids /\ Newest' = Newest /\ (AllSettled' <=> AllSettled)
      /\ (AllIdle' <=> AllIdle) /\ (EarlierSettled' <=> EarlierSettled)
  BY <1>1, SettledKept
<1>3. EarlierSettled'
  BY <1>2
<1>4. RetrySafe'
  BY <1>1, <1>2, SettledFacts DEF RetrySafe
<1>5. RequeueHeld'
  BY <1>1, <1>2, SettledFacts DEF RequeueHeld, FailureHeld
<1>6. FailureHeld'
  BY <1>1, <1>2, SettledFacts DEF FailureHeld
<1>7. SendHeld'
  BY <1>1, <1>2, SettledFacts DEF SendHeld
<1>8. Fits'
  BY <1>1, <1>2, SettledFacts DEF Fits
<1>9. BeforeConfirm'
  BY <1>1, <1>2, SettledFacts DEF BeforeConfirm
<1>10. FailedIsDormant'
  <2> USE DEF Dormant, RetrySafe, RequeueHeld, FailureHeld, SendHeld, Fits, BeforeConfirm
  <2>1. pc' = "flatten" \/ hedge' = "error"
          => AllIdle' /\ ~requeue' /\ (varQty' = FirmQty => filled' < varQty')
    BY <1>1, <1>2, SettledFacts DEF FailedIsDormant
  <2>2. hedge' = "error" => Dormant'
    BY <1>1, <1>2, SettledFacts DEF FailedIsDormant
  <2>3. emergency' => varSource' = "event" /\ Dormant'
    BY <1>1, <1>2, SettledFacts DEF FailedIsDormant
  <2>4. QED
    BY <2>1, <2>2, <2>3 DEF FailedIsDormant
<1>11. CorrectionHeld'
  BY <1>1, <1>2, SettledFacts DEF CorrectionHeld, Excess, OverfillIsCorrected
<1>12. QED
  BY <1>3, <1>4, <1>5, <1>6, <1>7, <1>8, <1>9, <1>10, <1>11

\* There is nothing to send.
LEMMA AttemptEndsSafely ==
    ASSUME ~LateLanding, SInv, AttemptNothing \/ AttemptExceeded
    PROVE  Serial'
<1> USE DEF SInv, Serial, HasOrder, Failing, AttemptsLeft, OpenRecovery,
            knowledge, taskVars, others, flags, children, handlers, alarms, recordVars
<1> USE DEF AttemptNothing, AttemptExceeded, FailHedge, Resolved
<1>1. UNCHANGED <<exch, total, terminal, filled, varQty>>
  OBVIOUS
<1>2. /\ Ids' = Ids /\ Newest' = Newest /\ (AllSettled' <=> AllSettled)
      /\ (AllIdle' <=> AllIdle) /\ (EarlierSettled' <=> EarlierSettled)
  BY <1>1, SettledKept
<1>3. EarlierSettled'
  BY <1>2
<1>4. RetrySafe'
  BY <1>1, <1>2, SettledFacts DEF RetrySafe
<1>5. RequeueHeld'
  BY <1>1, <1>2, SettledFacts DEF RequeueHeld, FailureHeld
<1>6. FailureHeld'
  BY <1>1, <1>2, SettledFacts DEF FailureHeld
<1>7. SendHeld'
  BY <1>1, <1>2, SettledFacts DEF SendHeld
<1>8. Fits'
  BY <1>1, <1>2, SettledFacts DEF Fits
<1>9. BeforeConfirm'
  BY <1>1, <1>2, SettledFacts DEF BeforeConfirm
<1>10. FailedIsDormant'
  <2> USE DEF Dormant, RetrySafe, RequeueHeld, FailureHeld, SendHeld, Fits, BeforeConfirm
  <2>1. pc' = "flatten" \/ hedge' = "error"
          => AllIdle' /\ ~requeue' /\ (varQty' = FirmQty => filled' < varQty')
    BY <1>1, <1>2, SettledFacts DEF FailedIsDormant
  <2>2. hedge' = "error" => Dormant'
    BY <1>1, <1>2, SettledFacts DEF FailedIsDormant
  <2>3. emergency' => varSource' = "event" /\ Dormant'
    BY <1>1, <1>2, SettledFacts DEF FailedIsDormant
  <2>4. QED
    BY <2>1, <2>2, <2>3 DEF FailedIsDormant
<1>11. CorrectionHeld'
  BY <1>1, <1>2, SettledFacts DEF CorrectionHeld, Excess, OverfillIsCorrected
<1>12. QED
  BY <1>3, <1>4, <1>5, <1>6, <1>7, <1>8, <1>9, <1>10, <1>11

\* A submission that raised is given up only when the exchange refused it.
LEMMA RaisedSafely ==
    ASSUME ~LateLanding, SInv, Raised
    PROVE  Serial'
<1> USE DEF SInv, Serial, HasOrder, Failing, AttemptsLeft, OpenRecovery,
            knowledge, taskVars, others, flags, children, handlers, alarms, recordVars
<1> USE DEF Raised, FailHedge, Resolved, Definitive
<1>1. UNCHANGED <<exch, total, terminal, filled, varQty>>
  OBVIOUS
<1>2. /\ Ids' = Ids /\ Newest' = Newest /\ (AllSettled' <=> AllSettled)
      /\ (AllIdle' <=> AllIdle) /\ (EarlierSettled' <=> EarlierSettled)
  BY <1>1, SettledKept
<1>3. EarlierSettled'
  BY <1>2
<1>4. RetrySafe'
  BY <1>1, <1>2, SettledFacts DEF RetrySafe
<1>5. RequeueHeld'
  BY <1>1, <1>2, SettledFacts DEF RequeueHeld, FailureHeld
<1>6. FailureHeld'
  BY <1>1, <1>2, SettledFacts DEF FailureHeld
<1>7. SendHeld'
  BY <1>1, <1>2, SettledFacts DEF SendHeld
<1>8. Fits'
  BY <1>1, <1>2, SettledFacts DEF Fits
<1>9. BeforeConfirm'
  BY <1>1, <1>2, SettledFacts DEF BeforeConfirm
<1>10. FailedIsDormant'
  <2> USE DEF Dormant, RetrySafe, RequeueHeld, FailureHeld, SendHeld, Fits, BeforeConfirm
  <2>1. pc' = "flatten" \/ hedge' = "error"
          => AllIdle' /\ ~requeue' /\ (varQty' = FirmQty => filled' < varQty')
    BY <1>1, <1>2, SettledFacts DEF FailedIsDormant
  <2>2. hedge' = "error" => Dormant'
    BY <1>1, <1>2, SettledFacts DEF FailedIsDormant
  <2>3. emergency' => varSource' = "event" /\ Dormant'
    BY <1>1, <1>2, SettledFacts DEF FailedIsDormant
  <2>4. QED
    BY <2>1, <2>2, <2>3 DEF FailedIsDormant
<1>11. CorrectionHeld'
  BY <1>1, <1>2, SettledFacts DEF CorrectionHeld, Excess, OverfillIsCorrected
<1>12. QED
  BY <1>3, <1>4, <1>5, <1>6, <1>7, <1>8, <1>9, <1>10, <1>11

\* The task flattens for a hedge that can fill no more.
LEMMA FlattenSafely ==
    ASSUME ~LateLanding, SInv, Flatten
    PROVE  Serial'
<1> USE DEF SInv, Serial, HasOrder, Failing, AttemptsLeft, OpenRecovery,
            knowledge, taskVars, others, flags, children, handlers, alarms, recordVars
<1> USE DEF Flatten, FlattenStarts
<1>1. UNCHANGED <<exch, total, terminal, filled, varQty>>
  OBVIOUS
<1>2. /\ Ids' = Ids /\ Newest' = Newest /\ (AllSettled' <=> AllSettled)
      /\ (AllIdle' <=> AllIdle) /\ (EarlierSettled' <=> EarlierSettled)
  BY <1>1, SettledKept
<1>3. EarlierSettled'
  BY <1>2
<1>4. RetrySafe'
  BY <1>1, <1>2, SettledFacts DEF RetrySafe
<1>5. RequeueHeld'
  BY <1>1, <1>2, SettledFacts DEF RequeueHeld, FailureHeld
<1>6. FailureHeld'
  BY <1>1, <1>2, SettledFacts DEF FailureHeld
<1>7. SendHeld'
  BY <1>1, <1>2, SettledFacts DEF SendHeld
<1>8. Fits'
  BY <1>1, <1>2, SettledFacts DEF Fits
<1>9. BeforeConfirm'
  BY <1>1, <1>2, SettledFacts DEF BeforeConfirm
<1>10. FailedIsDormant'
  <2> USE DEF Dormant, RetrySafe, RequeueHeld, FailureHeld, SendHeld, Fits, BeforeConfirm
  <2>1. pc' = "flatten" \/ hedge' = "error"
          => AllIdle' /\ ~requeue' /\ (varQty' = FirmQty => filled' < varQty')
    BY <1>1, <1>2, SettledFacts DEF FailedIsDormant
  <2>2. hedge' = "error" => Dormant'
    BY <1>1, <1>2, SettledFacts DEF FailedIsDormant
  <2>3. emergency' => varSource' = "event" /\ Dormant'
    BY <1>1, <1>2, SettledFacts DEF FailedIsDormant
  <2>4. QED
    BY <2>1, <2>2, <2>3 DEF FailedIsDormant
<1>11. CorrectionHeld'
  BY <1>1, <1>2, SettledFacts DEF CorrectionHeld, Excess, OverfillIsCorrected
<1>12. QED
  BY <1>3, <1>4, <1>5, <1>6, <1>7, <1>8, <1>9, <1>10, <1>11

\* A reconciliation that found the order or proved its absence has settled it.
LEMMA DecidesSafely ==
    ASSUME ~LateLanding, SInv, Decide \/ ReconcileMissing
    PROVE  Serial'
<1> USE DEF SInv, Serial, HasOrder, Failing, AttemptsLeft, OpenRecovery,
            knowledge, taskVars, others, flags, children, handlers, alarms, recordVars
<1> USE DEF Decide, ReconcileMissing, FailHedge, Resolved, DecideOn, QueueRetry,
            Overtaken, ProvenAbsent
<1>1. UNCHANGED <<exch, total, terminal, filled, varQty>>
  OBVIOUS
<1>2. /\ Ids' = Ids /\ Newest' = Newest /\ (AllSettled' <=> AllSettled)
      /\ (AllIdle' <=> AllIdle) /\ (EarlierSettled' <=> EarlierSettled)
  BY <1>1, SettledKept
<1>3. EarlierSettled'
  BY <1>2
<1>4. RetrySafe'
  BY <1>1, <1>2, SettledFacts DEF RetrySafe
<1>5. RequeueHeld'
  BY <1>1, <1>2, SettledFacts DEF RequeueHeld, FailureHeld
<1>6. FailureHeld'
  BY <1>1, <1>2, SettledFacts DEF FailureHeld
<1>7. SendHeld'
  BY <1>1, <1>2, SettledFacts DEF SendHeld
<1>8. Fits'
  BY <1>1, <1>2, SettledFacts DEF Fits
<1>9. BeforeConfirm'
  BY <1>1, <1>2, SettledFacts DEF BeforeConfirm
<1>10. FailedIsDormant'
  <2> USE DEF Dormant, RetrySafe, RequeueHeld, FailureHeld, SendHeld, Fits, BeforeConfirm
  <2>1. pc' = "flatten" \/ hedge' = "error"
          => AllIdle' /\ ~requeue' /\ (varQty' = FirmQty => filled' < varQty')
    BY <1>1, <1>2, SettledFacts DEF FailedIsDormant
  <2>2. hedge' = "error" => Dormant'
    BY <1>1, <1>2, SettledFacts DEF FailedIsDormant
  <2>3. emergency' => varSource' = "event" /\ Dormant'
    <3>1. emergency' = emergency /\ varSource' = varSource
      OBVIOUS
    <3>2. CASE emergency
      <4>1. Dormant
        BY <3>2 DEF FailedIsDormant
      <4>2. pc' \in {"loop", "flatten"} /\ ~writer.retry' /\ AllIdle'
        BY <1>1, <1>2, <4>1
      <4>3. ~requeue'
        BY <1>2, <4>1, SettledFacts
      <4>4. QED
        BY <3>1, <3>2, <4>2, <4>3 DEF FailedIsDormant
    <3>3. QED
      BY <3>1, <3>2
  <2>4. QED
    BY <2>1, <2>2, <2>3 DEF FailedIsDormant
<1>11. CorrectionHeld'
  BY <1>1, <1>2, SettledFacts DEF CorrectionHeld, Excess, OverfillIsCorrected
<1>12. QED
  BY <1>3, <1>4, <1>5, <1>6, <1>7, <1>8, <1>9, <1>10, <1>11

\* The writer retries or flattens on what it has read, which is still so.
LEMMA FollowsUpSafely ==
    ASSUME ~LateLanding, SInv, FollowUp
    PROVE  Serial'
<1> USE DEF SInv, Serial, HasOrder, Failing, AttemptsLeft, OpenRecovery,
            knowledge, taskVars, others, flags, children, handlers, alarms, recordVars
<1> USE DEF FollowUp, QueueRetry, Resumed, Resolved, FlattenStarts, NoFollowUp
<1>1. UNCHANGED <<exch, total, terminal, filled, varQty>>
  OBVIOUS
<1>2. /\ Ids' = Ids /\ Newest' = Newest /\ (AllSettled' <=> AllSettled)
      /\ (AllIdle' <=> AllIdle) /\ (EarlierSettled' <=> EarlierSettled)
  BY <1>1, SettledKept
<1>3. EarlierSettled'
  BY <1>2
<1>4. RetrySafe'
  BY <1>1, <1>2, SettledFacts DEF RetrySafe
<1>5. RequeueHeld'
  BY <1>1, <1>2, SettledFacts DEF RequeueHeld, FailureHeld
<1>6. FailureHeld'
  BY <1>1, <1>2, SettledFacts DEF FailureHeld
<1>7. SendHeld'
  BY <1>1, <1>2, SettledFacts DEF SendHeld
<1>8. Fits'
  BY <1>1, <1>2, SettledFacts DEF Fits
<1>9. BeforeConfirm'
  BY <1>1, <1>2, SettledFacts DEF BeforeConfirm
<1>10. FailedIsDormant'
  <2> USE DEF Dormant, RetrySafe, RequeueHeld, FailureHeld, SendHeld, Fits, BeforeConfirm
  <2>1. pc' = "flatten" \/ hedge' = "error"
          => AllIdle' /\ ~requeue' /\ (varQty' = FirmQty => filled' < varQty')
    BY <1>1, <1>2, SettledFacts DEF FailedIsDormant
  <2>2. hedge' = "error" => Dormant'
    BY <1>1, <1>2, SettledFacts DEF FailedIsDormant
  <2>3. emergency' => varSource' = "event" /\ Dormant'
    <3>1. CASE emergency
      <4>1. Dormant /\ varSource = "event" /\ varSource' = varSource
        BY <3>1 DEF FailedIsDormant
      <4>2. ~writer'.retry /\ AllIdle' /\ ~requeue'
        BY <1>2, <4>1
      <4>3. /\ pc' \notin {"begin", "sleep", "send"}
            /\ pc' \in HasOrder => Newest' >= MaxAttempts
        BY <1>2, <4>1, SettledFacts
      <4>4. QED
        BY <4>1, <4>2, <4>3
    <3>2. CASE emergency' /\ ~emergency
      <4>1. /\ writer.pause /\ varSource = "event" /\ varSource' = varSource
            /\ ~writer'.retry /\ pc' = Resumed /\ requeue' = requeue
        BY <3>2
      <4>2. Failing /\ AllIdle /\ ~AttemptsLeft
        BY <4>1, SettledFacts
      <4>3. pc' \notin {"begin", "sleep", "send"} /\ ~requeue'
        BY <4>1, <4>2
      <4>4. Newest >= MaxAttempts
        BY <4>2, SettledFacts
      <4>5. QED
        BY <1>2, <4>1, <4>2, <4>3, <4>4
    <3>3. QED
      BY <3>1, <3>2
  <2>4. QED
    BY <2>1, <2>2, <2>3 DEF FailedIsDormant
<1>11. CorrectionHeld'
  BY <1>1, <1>2, SettledFacts DEF CorrectionHeld, Excess, OverfillIsCorrected
<1>12. QED
  BY <1>3, <1>4, <1>5, <1>6, <1>7, <1>8, <1>9, <1>10, <1>11

\* The watchdog, the verdict and the handler's end touch no order.
LEMMA WatchesSafely ==
    ASSUME ~LateLanding, SInv, Normalize \/ TimeOut \/ Unconfirmed \/ VarFollowUp
    PROVE  Serial'
<1> USE DEF SInv, Serial, HasOrder, Failing, AttemptsLeft, OpenRecovery,
            knowledge, taskVars, others, flags, children, handlers, alarms, recordVars
<1> USE DEF Normalize, TimeOut, Unconfirmed, VarFollowUp, FlattenStarts
<1>1. UNCHANGED <<exch, total, terminal, filled, varQty>>
  OBVIOUS
<1>2. /\ Ids' = Ids /\ Newest' = Newest /\ (AllSettled' <=> AllSettled)
      /\ (AllIdle' <=> AllIdle) /\ (EarlierSettled' <=> EarlierSettled)
  BY <1>1, SettledKept
<1>3. EarlierSettled'
  BY <1>2
<1>4. RetrySafe'
  BY <1>1, <1>2, SettledFacts DEF RetrySafe
<1>5. RequeueHeld'
  BY <1>1, <1>2, SettledFacts DEF RequeueHeld, FailureHeld
<1>6. FailureHeld'
  BY <1>1, <1>2, SettledFacts DEF FailureHeld
<1>7. SendHeld'
  BY <1>1, <1>2, SettledFacts DEF SendHeld
<1>8. Fits'
  BY <1>1, <1>2, SettledFacts DEF Fits
<1>9. BeforeConfirm'
  BY <1>1, <1>2, SettledFacts DEF BeforeConfirm
<1>10. FailedIsDormant'
  <2> USE DEF Dormant, RetrySafe, RequeueHeld, FailureHeld, SendHeld, Fits, BeforeConfirm
  <2>1. pc' = "flatten" \/ hedge' = "error"
          => AllIdle' /\ ~requeue' /\ (varQty' = FirmQty => filled' < varQty')
    BY <1>1, <1>2, SettledFacts DEF FailedIsDormant
  <2>2. hedge' = "error" => Dormant'
    BY <1>1, <1>2, SettledFacts DEF FailedIsDormant
  <2>3. emergency' => varSource' = "event" /\ Dormant'
    BY <1>1, <1>2, SettledFacts DEF FailedIsDormant
  <2>4. QED
    BY <2>1, <2>2, <2>3 DEF FailedIsDormant
<1>11. CorrectionHeld'
  BY <1>1, <1>2, SettledFacts DEF CorrectionHeld, Excess, OverfillIsCorrected
<1>12. QED
  BY <1>3, <1>4, <1>5, <1>6, <1>7, <1>8, <1>9, <1>10, <1>11

\* Variational's fill changes the target: a hedge that was complete is topped up only
\* because nothing of it is open.
LEMMA ConfirmsSafely ==
    ASSUME ~LateLanding, SInv, NEW q \in VarQtys, VarConfirm(q)
    PROVE  Serial'
<1> USE DEF SInv, Serial, HasOrder, Failing, AttemptsLeft, OpenRecovery,
            knowledge, taskVars, others, flags, children, handlers, alarms, recordVars
<1> USE DEF VarConfirm, QueueRetry, RaiseTo, RetrySafe, SendHeld, BeforeConfirm,
            FailureHeld
<1>1. UNCHANGED <<exch, total, terminal, filled>>
  OBVIOUS
<1>2. /\ Ids' = Ids /\ Newest' = Newest /\ (AllSettled' <=> AllSettled)
      /\ (AllIdle' <=> AllIdle) /\ (EarlierSettled' <=> EarlierSettled)
  BY <1>1, SettledKept
<1>3. EarlierSettled' /\ q \in Nat
  BY <1>2, QtyAssumption
<1>4. RetrySafe'
  BY <1>1, <1>2, <1>3, SettledFacts DEF RetrySafe
<1>5. RequeueHeld'
  <2>1. CASE hedge = "filled" /\ filled < q
    <3>1. pc \notin {"send", "flatten"}
      BY <2>1, SettledFacts DEF FailedIsDormant
    <3>2. QED
      BY <2>1, <3>1 DEF RequeueHeld
  <2>2. CASE ~(hedge = "filled" /\ filled < q)
    BY <2>2 DEF RequeueHeld
  <2>3. QED
    BY <2>1, <2>2
<1>6. FailureHeld'
  BY <1>1, <1>2, <1>3, SettledFacts DEF FailureHeld
<1>7. SendHeld'
  BY <1>1, <1>2, <1>3, SettledFacts DEF SendHeld
<1>8. Fits'
  BY <1>1, <1>2, <1>3, SettledFacts DEF Fits
<1>9. BeforeConfirm'
  BY <1>1, <1>2, <1>3, SettledFacts DEF BeforeConfirm
<1>10. FailedIsDormant'
  <2> USE DEF Dormant, RetrySafe, RequeueHeld, FailureHeld, SendHeld, Fits, BeforeConfirm
  <2>1. pc' = "flatten" \/ hedge' = "error"
          => AllIdle' /\ ~requeue' /\ (varQty' = FirmQty => filled' < varQty')
    BY <1>1, <1>2, <1>3, SettledFacts DEF FailedIsDormant
  <2>2. hedge' = "error" => Dormant'
    BY <1>1, <1>2, <1>3, SettledFacts DEF FailedIsDormant
  <2>3. emergency' => varSource' = "event" /\ Dormant'
    BY <1>1, <1>2, <1>3, SettledFacts DEF FailedIsDormant
  <2>4. QED
    BY <2>1, <2>2, <2>3 DEF FailedIsDormant
<1>11. CorrectionHeld'
  BY <1>1, <1>2, <1>3, SettledFacts DEF CorrectionHeld, Excess, OverfillIsCorrected
<1>12. QED
  BY <1>3, <1>4, <1>5, <1>6, <1>7, <1>8, <1>9, <1>10, <1>11

\* The indices of the orders after a step.
LEMMA OrderTypesNext ==
    ASSUME TInv'
    PROVE  /\ Newest' \in Nat /\ Ids' = 1..Newest'
           /\ \A i \in Ids' : exch'[i] \in Order
<1>1. exch' \in Seq(Order)
  BY DEF TInv, TypeOK
<1>2. Newest' \in Nat /\ Ids' = 1..Newest'
  BY <1>1, LenProperties DEF Newest, Ids
<1>3. QED
  BY <1>1, <1>2, ElementOfSeq DEF Newest

\* A new order joins settled ones.
LEMMA ReserveOrders ==
    ASSUME SInv, TInv', pc = "begin",
           exch' = Append(exch, [st |-> "reserved", qty |-> 0, done |-> 0]),
           total' = Append(total, 0), UNCHANGED <<filled, varQty>>,
           \A i \in Ids : i \in terminal => i \in terminal'
    PROVE  /\ Newest' = Newest + 1 /\ Ids' = Ids \cup {Newest'}
           /\ exch'[Newest'].st = "reserved" /\ exch'[Newest'].done = 0
           /\ total'[Newest'] = 0 /\ exch' # <<>>
           /\ \A i \in Ids : Settled(i)'
           /\ EarlierSettled' /\ AllIdle' /\ Fits' /\ ~Failing
<1>1. /\ Newest \in Nat /\ Ids = 1..Newest /\ \A i \in Ids : i \in Nat
      /\ AllSettled /\ ~Failing
  BY OrderTypes DEF SInv, KInv, Serial, RetrySafe, FailureHeld
<1>2. /\ Newest' = Newest + 1
      /\ exch'[Newest + 1].st = "reserved" /\ exch'[Newest + 1].done = 0
      /\ total'[Newest + 1] = 0
      /\ \A i \in Ids : exch'[i] = exch[i] /\ total'[i] = total[i]
  BY ReserveAppends DEF SInv, KInv
<1>3. Newest' \in Nat /\ Ids' = 1..Newest' /\ \A i \in Ids' : exch'[i] \in Order
  BY OrderTypesNext
<1>4. Ids' = Ids \cup {Newest'} /\ exch' # <<>>
  BY <1>1, <1>2, <1>3 DEF Newest
<1>5. \A i \in Ids : Settled(i)'
  BY <1>1, <1>2 DEF AllSettled, Settled
<1>6. EarlierSettled'
  BY <1>4, <1>5 DEF EarlierSettled
<1>7. AllIdle'
  BY <1>2, <1>4, <1>5 DEF AllIdle
<1>8. Fits'
  <2>1. \A i \in Ids : exch'[i].done <= exch'[i].qty
    BY <1>2 DEF SInv, Serial, Fits
  <2>2. exch'[Newest'].done <= exch'[Newest'].qty
    <3>1. PICK o \in Order : o = exch'[Newest'] /\ o.done = 0
      BY <1>2, <1>3, <1>4
    <3>2. o.qty \in Nat
      BY DEF Order
    <3>3. \A n \in Nat : 0 <= n
      OBVIOUS
    <3>4. QED
      BY <3>1, <3>2, <3>3
  <2>3. QED
    BY <1>2, <1>4, <2>1, <2>2 DEF SInv, Serial, Fits
<1>9. QED
  BY <1>1, <1>2, <1>4, <1>5, <1>6, <1>7, <1>8

\* A new order is allocated when all others are settled: it waits to be sent, is
\* given up by the guard, or fails the hedge.
LEMMA AllocatesSafely ==
    ASSUME ~LateLanding, SInv, TInv', Attempt \/ GuardedRetry \/ GuardedFail
    PROVE  Serial'
<1> USE DEF SInv, Serial, HasOrder, Failing, Remaining, FailHedge, Resolved,
            knowledge, taskVars, others, flags, children, handlers, alarms, recordVars
<1>1. /\ pc = "begin" /\ UNCHANGED <<filled, varQty, varSource, writer, emergency>>
      /\ UNCHANGED correction /\ filled < varQty
      /\ exch' = Append(exch, [st |-> "reserved", qty |-> 0, done |-> 0])
      /\ total' = Append(total, 0)
      /\ final' = FALSE /\ sendQty' = varQty - filled
  BY DEF Attempt, GuardedRetry, GuardedFail, Allocate
<1>2. Newest \in Nat /\ Ids = 1..Newest
  BY OrderTypes DEF KInv
<1>3. \A i \in Ids : i \in terminal => i \in terminal'
  BY <1>2 DEF Attempt, GuardedRetry, GuardedFail, WithTerminal, Newest
<1>4. /\ Newest' = Newest + 1 /\ Ids' = Ids \cup {Newest'}
      /\ exch'[Newest'].st = "reserved" /\ exch'[Newest'].done = 0
      /\ total'[Newest'] = 0 /\ exch' # <<>>
      /\ \A i \in Ids : Settled(i)'
      /\ EarlierSettled' /\ AllIdle' /\ Fits' /\ ~Failing
  BY <1>1, <1>3, ReserveOrders
<1>5. GuardedRetry => AllSettled'
  <2>1. GuardedRetry => Settled(Newest)'
    BY <1>2, <1>4 DEF GuardedRetry, WithTerminal, Settled, Newest
  <2>2. QED
    BY <1>4, <2>1 DEF AllSettled
<1>6. /\ Attempt => /\ hedge' = "submitting" /\ pc' = "send" /\ ~requeue'
                    /\ Newest' \notin terminal'
      /\ GuardedRetry => hedge' = "retrying" /\ pc' = "sleep"
      /\ GuardedFail => hedge' = "error" /\ pc' = "flatten" /\ ~requeue'
  BY <1>1, <1>2, <1>4, SettledFacts
     DEF Attempt, GuardedRetry, GuardedFail, Allocate, Newest
<1>7. ~emergency
  BY <1>1 DEF FailedIsDormant, Dormant
<1>8. RetrySafe' /\ RequeueHeld'
  BY <1>1, <1>4, <1>5, <1>6 DEF RetrySafe, RequeueHeld
<1>9. FailureHeld'
  BY <1>1, <1>4, <1>6 DEF FailureHeld
<1>10. SendHeld'
  <2>1. sendQty' > 0 /\ filled' + sendQty' = varQty'
    BY <1>1, SettledFacts
  <2>2. QED
    BY <1>1, <1>4, <1>6, <2>1 DEF SendHeld
<1>11. BeforeConfirm'
  BY <1>1, <1>6, SettledFacts DEF BeforeConfirm
<1>12. FailedIsDormant'
  BY <1>1, <1>4, <1>6, <1>7, SettledFacts DEF FailedIsDormant, Dormant
<1>13. CorrectionHeld'
  BY <1>1, <1>6 DEF CorrectionHeld, OverfillIsCorrected, Excess
<1>14. QED
  BY <1>4, <1>8, <1>9, <1>10, <1>11, <1>12, <1>13

\* The order leaves the process: it is the only one that is open.
LEMMA SendsSafely ==
    ASSUME ~LateLanding, SInv, TInv', Send
    PROVE  Serial'
<1> USE DEF SInv, Serial, HasOrder, Failing,
            knowledge, taskVars, others, flags, children, handlers, alarms, recordVars
<1>1. /\ UNCHANGED <<filled, varQty, varSource, writer, emergency, correction>>
      /\ UNCHANGED <<hedge, requeue, total, terminal, final, sendQty>>
      /\ pc = "send" /\ pc' = "await"
      /\ exch' = [exch EXCEPT ![Newest] =
                    [st |-> "inflight", qty |-> sendQty, done |-> 0]]
  BY DEF Send
<1>2. Newest \in Nat /\ Ids = 1..Newest /\ Newest \in Ids
  BY <1>1, OrderTypes DEF KInv
<1>3. Ids' = Ids /\ Newest' = Newest /\ exch' # <<>>
  <2>1. Ids' = Ids
    BY <1>1 DEF Ids
  <2>2. Newest' \in Nat /\ Ids' = 1..Newest'
    BY OrderTypesNext
  <2>3. Newest' = Newest
    BY <1>2, <2>1, <2>2
  <2>4. QED
    BY <1>2, <2>1, <2>3, EmptySeq DEF Newest
<1>4. /\ exch'[Newest] = [st |-> "inflight", qty |-> sendQty, done |-> 0]
      /\ \A i \in Ids : i # Newest => exch'[i] = exch[i]
  BY <1>1, <1>2 DEF Ids
<1>5. EarlierSettled'
  BY <1>1, <1>3, <1>4 DEF EarlierSettled, Settled
<1>6. /\ hedge = "submitting" /\ ~final /\ total[Newest] = 0 /\ sendQty > 0
      /\ filled + sendQty \in {FirmQty, varQty}
  BY <1>1 DEF SendHeld
<1>7. ~requeue /\ ~Failing /\ ~emergency
  BY <1>1 DEF RequeueHeld, FailureHeld, FailedIsDormant, Dormant
<1>8. RetrySafe' /\ RequeueHeld' /\ FailureHeld' /\ SendHeld'
  BY <1>1, <1>6, <1>7 DEF RetrySafe, RequeueHeld, FailureHeld, SendHeld
<1>9. Fits'
  <2>1. \A i \in Ids : exch'[i].done <= exch'[i].qty
    BY <1>4, SettledFacts DEF Fits
  <2>2. filled' + exch'[Newest'].qty
          \in {FirmQty + total'[Newest'], varQty' + total'[Newest']}
    BY <1>1, <1>3, <1>4, <1>6, SettledFacts
  <2>3. QED
    BY <1>1, <1>3, <2>1, <2>2 DEF Fits
<1>10. BeforeConfirm'
  BY <1>1, <1>6, SettledFacts DEF BeforeConfirm
<1>11. FailedIsDormant'
  BY <1>1, <1>6, <1>7 DEF FailedIsDormant
<1>12. CorrectionHeld'
  BY <1>1 DEF CorrectionHeld, OverfillIsCorrected, Excess
<1>13. QED
  BY <1>5, <1>8, <1>9, <1>10, <1>11, <1>12

\* While one order is open nothing is about to be retried, flattened or sent.
LEMMA OpenOrderHeld ==
    ASSUME SInv, NEW id \in Ids, ~Settled(id), exch[id].st # "reserved"
    PROVE  /\ id = Newest /\ exch # <<>> /\ ~AllSettled /\ ~AllIdle
           /\ ~requeue /\ ~Failing /\ ~emergency /\ hedge # "error"
           /\ pc \notin {"begin", "sleep", "send", "decide", "applied", "flatten"}
           /\ varSource = "http_commit" => filled # varQty
<1> USE DEF SInv, Serial
<1>1. id = Newest /\ exch # <<>>
  BY DEF EarlierSettled, Ids
<1>2. ~AllSettled /\ ~AllIdle
  BY DEF AllSettled, AllIdle
<1>3. QED
  BY <1>1, <1>2 DEF RetrySafe, FailedIsDormant, Dormant, SendHeld, BeforeConfirm

\* The exchange executes or drops the one order that is open.
LEMMA ArrivesSafely ==
    ASSUME ~LateLanding, SInv, TInv', NEW id \in Ids, Arrive(id)
    PROVE  Serial'
<1> USE DEF SInv, Serial, HasOrder, Failing,
            knowledge, taskVars, others, flags, children, handlers, alarms, recordVars
<1>1. /\ UNCHANGED <<filled, varQty, varSource, writer, emergency, correction>>
      /\ UNCHANGED <<hedge, requeue, total, terminal, final, sendQty, pc>>
      /\ exch[id].st = "inflight"
  BY DEF Arrive
<1>2. /\ Newest \in Nat /\ Ids = 1..Newest /\ exch[id] \in Order
  BY OrderTypes DEF KInv
<1>3. /\ id = Newest /\ exch # <<>>
      /\ ~requeue /\ ~Failing /\ ~emergency /\ hedge # "error"
      /\ pc \notin {"begin", "sleep", "send", "decide", "applied", "flatten"}
      /\ varSource = "http_commit" => filled # varQty
  BY <1>1, OpenOrderHeld DEF Settled
<1>4. /\ Ids' = Ids
      /\ \A i \in Ids : i # id => exch'[i] = exch[i]
      /\ exch'[id].st # "reserved" /\ exch'[id].qty = exch[id].qty
      /\ exch'[id].done <= exch[id].qty
  <2>1. exch[id].done <= exch[id].qty
    BY DEF Fits
  <2>2. CASE \E s \in {"rejected", "lost"} : exch' = [exch EXCEPT ![id].st = s]
    BY <1>2, <2>1, <2>2 DEF Ids, Order
  <2>3. CASE \E d \in 0..exch[id].qty :
                exch' = [exch EXCEPT ![id] = [@ EXCEPT !.st = "done", !.done = d]]
    BY <1>2, <2>3 DEF Ids, Order
  <2>4. QED
    BY <2>2, <2>3 DEF Arrive
<1>5. Newest' = Newest
  <2>1. Newest' \in Nat /\ Ids' = 1..Newest'
    BY OrderTypesNext
  <2>2. QED
    BY <1>2, <1>4, <2>1
<1>6. EarlierSettled'
  BY <1>1, <1>3, <1>4, <1>5 DEF EarlierSettled, Settled
<1>7. RetrySafe' /\ RequeueHeld' /\ FailureHeld' /\ SendHeld'
  BY <1>1, <1>3 DEF RetrySafe, RequeueHeld, FailureHeld, SendHeld
<1>8. Fits'
  <2>1. \A i \in Ids : exch'[i].done <= exch'[i].qty
    BY <1>4 DEF Fits
  <2>2. exch # <<>> /\ exch[Newest].st # "reserved"
    BY <1>1, <1>3
  <2>3. QED
    BY <1>1, <1>3, <1>4, <1>5, <2>1, <2>2 DEF Fits
<1>9. BeforeConfirm'
  BY <1>1, <1>3 DEF BeforeConfirm
<1>10. FailedIsDormant'
  BY <1>1, <1>3 DEF FailedIsDormant
<1>11. CorrectionHeld'
  BY <1>1 DEF CorrectionHeld, OverfillIsCorrected, Excess
<1>12. QED
  BY <1>6, <1>7, <1>8, <1>9, <1>10, <1>11

\* A report that is news is of the newest order.
LEMMA NewsIsNewest ==
    ASSUME SInv, NEW id \in Ids, NEW r \in Reports(id), exch[id].st = "done",
           ~Stale(id, r)
    PROVE  ~Settled(id)
<1>1. /\ exch[id] \in Order /\ total[id] \in Nat
  BY OrderTypes DEF SInv, KInv
<1>2. r.done \in Nat /\ r.done <= exch[id].done /\ exch[id].done \in Nat
  BY <1>1, ReportsTrue DEF Order
<1>3. QED
  BY <1>1, <1>2 DEF Settled, Stale

\* A report can only be news of the one open order: it settles it, or tells a part
\* of what it filled.
LEMMA AppliesSafely ==
    ASSUME ~LateLanding, SInv, NEW id \in Ids, NEW r \in Reports(id),
           exch[id].st = "done", ~Stale(id, r), Apply(id, r),
           UNCHANGED <<exch, kind, varQty, varSource, emergency, requeue, sendQty>>,
           pc' = pc \/ (pc' = "applied" /\ r.ended)
    PROVE  Serial'
<1> USE DEF SInv, Serial, HasOrder, Failing
<1>1. /\ exch[id] \in Order /\ total[id] \in Nat /\ DOMAIN total = Ids
      /\ \A i \in Ids : i \in Nat
  BY OrderTypes DEF KInv
<1>2. /\ r.done \in Nat /\ r.done <= exch[id].done /\ exch[id].done \in Nat
      /\ exch[id].qty \in Nat /\ r.ended \in BOOLEAN
      /\ r.ended => r.done = exch[id].done
  BY <1>1, ReportsTrue DEF Order
<1>3. ~Settled(id)
  BY NewsIsNewest
<1>4. /\ id = Newest /\ exch # <<>>
      /\ ~requeue /\ ~Failing /\ ~emergency /\ hedge # "error"
      /\ pc \notin {"begin", "sleep", "send", "decide", "applied", "flatten"}
      /\ varSource = "http_commit" => filled # varQty
  BY <1>3, OpenOrderHeld
<1>5. Ids' = Ids /\ Newest' = Newest
  BY DEF Ids, Newest
<1>6. /\ total'[id] = r.done /\ \A i \in Ids : i # id => total'[i] = total[i]
      /\ \A i \in Ids : i \in terminal => i \in terminal'
      /\ r.ended => terminal' = terminal \cup {id}
  BY <1>1 DEF Apply
<1>7. filled' = filled + (r.done - total[id]) /\ filled' \in Nat /\ filled' >= filled
  <2>1. r \in [done : Nat, ended : BOOLEAN]
    BY <1>1, ReportsTrue
  <2>2. QED
    BY <2>1, SumGrows DEF Apply, NewSum, KInv, TInv
<1>8. EarlierSettled'
  BY <1>4, <1>5, <1>6 DEF EarlierSettled, Settled
<1>9. r.ended => AllSettled'
  <2>1. ASSUME r.ended PROVE Settled(id)'
    BY <1>2, <1>6, <2>1 DEF Settled
  <2>2. QED
    BY <1>4, <1>5, <1>8, <2>1 DEF AllSettled, EarlierSettled
<1>10. Fits'
  <2>1. filled + exch[id].qty \in {FirmQty + total[id], varQty + total[id]}
    BY <1>4 DEF Fits
  <2>2. r.done <= exch[id].qty
    BY <1>2, SettledFacts DEF Fits
  <2>3. filled' + exch[id].qty \in {FirmQty + r.done, varQty + r.done}
    <3>1. \A f, q, d, t, x \in Nat : f + q = x + t => (f + (d - t)) + q = x + d
      OBVIOUS
    <3>2. PICK q \in Nat, d \in Nat, t \in Nat :
              q = exch[id].qty /\ d = r.done /\ t = total[id]
      BY <1>1, <1>2
    <3>3. filled + q = FirmQty + t \/ filled + q = varQty + t
      BY <2>1, <3>2
    <3>4. filled \in Nat /\ varQty \in Nat /\ FirmQty \in Nat
      BY SettledFacts
    <3>5. (filled + (d - t)) + q = FirmQty + d \/ (filled + (d - t)) + q = varQty + d
      BY <3>1, <3>3, <3>4
    <3>6. QED
      BY <1>7, <3>2, <3>5
  <2>4. filled' <= FirmQty \/ filled' <= varQty
    BY <1>2, <1>7, <2>2, <2>3, SettledFacts
  <2>5. QED
    BY <1>4, <1>5, <1>6, <2>3, <2>4 DEF Fits
<1> DEFINE term   == IF r.ended THEN terminal \cup {id} ELSE terminal
           status == ReportedStatus(r, filled', term)
<1>11. /\ hedge' = status /\ filled' = NewSum(id, r) /\ writer'.busy
       /\ writer'.retry => /\ r.ended /\ AllTerminal(term) /\ AttemptsLeft
                           /\ status \notin {"overfilled", "filled"}
       /\ writer'.pause => /\ r.ended /\ AllTerminal(term) /\ ~AttemptsLeft
                           /\ status \notin {"overfilled", "filled"}
  BY DEF Apply
<1>12. /\ writer'.retry => hedge' = "retrying" /\ filled' # varQty
       /\ writer'.pause => hedge' # "filled" /\ filled' # varQty
       /\ hedge' = "filled" => filled' = varQty
       /\ hedge' = "error" => r.ended /\ ~AttemptsLeft /\ filled' # varQty
       /\ hedge' = "overfilled" => filled' > varQty /\ varSource # "unconfirmed_commit"
       /\ filled' > varQty /\ varSource # "unconfirmed_commit" => hedge' = "overfilled"
  BY <1>7, <1>11, SettledFacts DEF ReportedStatus
<1>13. AttemptsLeft' <=> AttemptsLeft
  <2>1. kind' = kind
    OBVIOUS
  <2>2. QED
    BY <1>5 DEF AttemptsLeft, OpenRecovery
<1>14. RetrySafe' /\ RequeueHeld'
  BY <1>4, <1>9, <1>11 DEF RetrySafe, RequeueHeld
<1>15. FailureHeld'
  BY <1>2, <1>4, <1>5, <1>11, <1>12, <1>13 DEF FailureHeld
<1>16. SendHeld'
  BY <1>4 DEF SendHeld
<1>17. BeforeConfirm'
  <2>1. CASE varSource = "http_commit"
    <3>1. varQty = FirmQty /\ correction = 0
      BY <2>1 DEF BeforeConfirm
    <3>2. filled' <= varQty
      BY <1>10, <3>1 DEF Fits
    <3>3. hedge' # "overfilled" /\ (hedge' = "filled" => filled' = varQty)
      BY <1>7, <1>12, <3>2, SettledFacts
    <3>4. correction' = 0
      BY <1>11, <3>1, <3>3 DEF Apply, RaiseTo
    <3>5. filled' = varQty => r.ended
      <4>1. ASSUME ~r.ended PROVE r.done < exch[id].qty
        <5>1. Ending(id).ended
          BY DEF Ending
        <5>2. r # Ending(id)
          BY <4>1, <5>1
        <5>3. r \in [done : {d \in 0..exch[id].done : d < exch[id].qty},
                     ended : {FALSE}]
          BY <5>2 DEF Reports
        <5>4. QED
          BY <5>3
      <4>2. filled + exch[id].qty = varQty + total[id]
        BY <1>4, <3>1, SettledFacts DEF Fits
      <4>3. ASSUME ~r.ended PROVE filled' < varQty
        <5>1. \A f, q, d, t, x \in Nat :
                f + q = x + t /\ d < q => f + (d - t) < x
          OBVIOUS
        <5>2. PICK q \in Nat, d \in Nat, t \in Nat :
                  q = exch[id].qty /\ d = r.done /\ t = total[id]
          BY <1>1, <1>2
        <5>3. filled + q = varQty + t /\ d < q
          BY <4>1, <4>2, <4>3, <5>2
        <5>4. filled \in Nat /\ varQty \in Nat
          BY SettledFacts
        <5>5. filled + (d - t) < varQty
          BY <5>1, <5>3, <5>4
        <5>6. QED
          BY <1>7, <5>2, <5>5
      <4>4. QED
        BY <1>7, <4>3, SettledFacts
    <3>6. QED
      BY <1>9, <2>1, <3>1, <3>2, <3>3, <3>4, <3>5 DEF BeforeConfirm
  <2>2. CASE varSource # "http_commit"
    BY <2>2 DEF BeforeConfirm
  <2>3. QED
    BY <2>1, <2>2
<1>18. FailedIsDormant'
  <2>1. pc' # "flatten"
    BY <1>4
  <2>2. ASSUME hedge' = "error"
        PROVE  AllIdle' /\ ~requeue' /\ (varQty' = FirmQty => filled' < varQty')
    <3>1. AllIdle'
      BY <1>9, <1>12, <2>2 DEF AllSettled, AllIdle
    <3>2. filled' # varQty /\ (filled' <= FirmQty \/ filled' <= varQty)
      BY <1>10, <1>12, <2>2 DEF Fits
    <3>3. QED
      BY <1>4, <1>7, <3>1, <3>2, SettledFacts
  <2>3. ASSUME hedge' = "error" PROVE Dormant'
    <3>1. ~AttemptsLeft /\ ~writer'.retry /\ pc' \notin {"begin", "sleep", "send"}
      BY <1>4, <1>12, <2>3
    <3>2. Newest' >= MaxAttempts
      BY <1>5, <3>1, SettledFacts DEF AttemptsLeft
    <3>3. QED
      BY <2>2, <2>3, <3>1, <3>2 DEF Dormant
  <2>4. ~emergency'
    BY <1>4
  <2>5. QED
    BY <2>1, <2>2, <2>3, <2>4 DEF FailedIsDormant
<1>19. CorrectionHeld'
  <2>1. correction' = RaiseTo(correction,
                               IF hedge' = "overfilled" THEN filled' - varQty ELSE 0)
    BY <1>11 DEF Apply
  <2>2. CASE varSource = "event"
    <3>1. correction <= Excess
      BY <2>2 DEF CorrectionHeld
    <3>2. CASE filled' > varQty
      <4>1. hedge' = "overfilled"
        BY <1>12, <2>2, <3>2
      <4>2. correction <= filled' - varQty
        BY <1>7, <3>1, <3>2, SettledFacts DEF Excess
      <4>3. correction' = filled' - varQty
        BY <1>7, <2>1, <3>2, <4>1, <4>2, SettledFacts DEF RaiseTo
      <4>4. QED
        BY <1>7, <3>2, <4>3, SettledFacts DEF CorrectionHeld, OverfillIsCorrected, Excess
    <3>3. CASE ~(filled' > varQty)
      <4>1. correction' = 0
        BY <1>7, <1>12, <2>1, <3>1, <3>3, SettledFacts DEF RaiseTo, Excess
      <4>2. QED
        BY <1>7, <3>3, <4>1, SettledFacts DEF CorrectionHeld, OverfillIsCorrected, Excess
    <3>4. QED
      BY <3>2, <3>3
  <2>3. CASE varSource # "event"
    BY <2>3 DEF CorrectionHeld, OverfillIsCorrected
  <2>4. QED
    BY <2>2, <2>3
<1>20. QED
  BY <1>8, <1>10, <1>14, <1>15, <1>16, <1>17, <1>18, <1>19

\* The reply of a reconciliation that is no news is of an order already settled.
LEMMA ReplyOfSettled ==
    ASSUME SInv, pc = "found", Stale(Newest, Ending(Newest))
    PROVE  Settled(Newest)
<1>1. /\ Newest \in Ids /\ exch[Newest] \in Order /\ total[Newest] \in Nat
  BY OrderTypes DEF SInv, KInv, HasOrder
<1>2. exch[Newest].st = "done" /\ total[Newest] <= exch[Newest].done
  BY <1>1 DEF SInv, KInv, FreshOrder, OrdersTrue, OrderTrue
<1>3. exch[Newest].done \in Nat
  BY <1>1 DEF Order
<1>4. QED
  BY <1>1, <1>2, <1>3 DEF Stale, Ending, Settled

\* The task learns what it waits for: news of the open order, or none.
LEMMA RepliesSafely ==
    ASSUME ~LateLanding, SInv, ApplyReply
    PROVE  Serial'
<1> USE DEF SInv, Serial, HasOrder, Failing,
            knowledge, taskVars, others, flags, children, handlers, alarms, recordVars
<1>1. /\ Newest \in Ids /\ exch[Newest].st = "done" /\ pc = "found" /\ exch # <<>>
  BY OrderTypes, SettledFacts DEF ApplyReply, KInv, FreshOrder
<1>2. CASE ~Stale(Newest, Ending(Newest))
  <2>1. Ending(Newest) \in Reports(Newest) /\ Ending(Newest).ended
    BY DEF Reports, Ending
  <2>2. /\ Apply(Newest, Ending(Newest)) /\ pc' = "applied"
        /\ UNCHANGED <<exch, kind, varQty, varSource, emergency, requeue, sendQty>>
    BY <1>2 DEF ApplyReply
  <2>3. QED
    BY <1>1, <1>2, <2>1, <2>2, AppliesSafely
<1>3. CASE Stale(Newest, Ending(Newest))
  <2>1. /\ UNCHANGED <<exch, total, terminal>> /\ pc' = "decide"
        /\ UNCHANGED <<hedge, filled, final, correction, writer>>
        /\ UNCHANGED <<kind, varQty, varSource, emergency, requeue, sendQty>>
    BY <1>3 DEF ApplyReply
  <2>2. /\ Ids' = Ids /\ Newest' = Newest /\ (AllSettled' <=> AllSettled)
        /\ (AllIdle' <=> AllIdle) /\ (EarlierSettled' <=> EarlierSettled)
    BY <2>1, SettledKept
  <2>3. AllSettled /\ AllIdle
    BY <1>1, <1>3, ReplyOfSettled, SettledFacts
  <2>4. ~Failing
    BY DEF ApplyReply, FailureHeld
  <2>5. RetrySafe' /\ RequeueHeld' /\ FailureHeld' /\ SendHeld'
    BY <1>1, <2>1, <2>2, <2>3, <2>4 DEF RetrySafe, RequeueHeld, FailureHeld, SendHeld
  <2>6. Fits' /\ BeforeConfirm'
    BY <2>1, <2>2 DEF Fits, BeforeConfirm
  <2>7. FailedIsDormant'
    BY <1>1, <2>1, <2>2 DEF FailedIsDormant, Dormant
  <2>8. CorrectionHeld'
    BY <2>1 DEF CorrectionHeld, OverfillIsCorrected, Excess
  <2>9. QED
    BY <2>2, <2>5, <2>6, <2>7, <2>8
<1>4. QED
  BY <1>2, <1>3

\* A close both accounts agree on is taken as finished, with all of its orders.
LEMMA AcceptsFlatSafely ==
    ASSUME ~LateLanding, SInv, ReconcileFlat
    PROVE  Serial'
<1> USE DEF SInv, Serial, HasOrder, Failing,
            knowledge, taskVars, others, flags, children, handlers, alarms, recordVars
<1>1. /\ UNCHANGED <<exch, total, kind, varQty, varSource, emergency, requeue, sendQty>>
      /\ UNCHANGED <<filled, correction, writer, pc>>
      /\ terminal' = terminal \cup Ids /\ hedge' = "reconciled_flat"
      /\ varSource = "event" /\ hedge \in {"submitted", "uncertain", "partial"}
  BY DEF ReconcileFlat
<1>2. Ids' = Ids /\ Newest' = Newest
  BY <1>1 DEF Ids, Newest
<1>3. \A i \in Ids : Settled(i) => Settled(i)'
  BY <1>1 DEF Settled
<1>4. EarlierSettled' /\ (AllSettled => AllSettled') /\ (AllIdle => AllIdle')
  BY <1>1, <1>2, <1>3 DEF EarlierSettled, AllSettled, AllIdle
<1>5. pc # "send" /\ ~requeue /\ ~writer.retry
  BY <1>1 DEF SendHeld, RequeueHeld, FailureHeld
<1>6. RetrySafe' /\ RequeueHeld' /\ SendHeld'
  BY <1>1, <1>4, <1>5 DEF RetrySafe, RequeueHeld, SendHeld
<1>7. FailureHeld'
  BY <1>1, <1>2, <1>5 DEF FailureHeld, AttemptsLeft, OpenRecovery
<1>8. Fits' /\ BeforeConfirm'
  BY <1>1, <1>2 DEF Fits, BeforeConfirm
<1>9. FailedIsDormant'
  BY <1>1, <1>2, <1>4 DEF FailedIsDormant, Dormant
<1>10. CorrectionHeld'
  BY <1>1 DEF CorrectionHeld, OverfillIsCorrected, Excess
<1>11. QED
  BY <1>4, <1>6, <1>7, <1>8, <1>9, <1>10

LEMMA InitSInv == Init => SInv
<1> SUFFICES ASSUME Init PROVE SInv
  OBVIOUS
<1>1. KInv /\ Ids = {} /\ exch = <<>>
  BY InitTInv DEF Init, KInv, OrdersTrue, FreshOrder, Ids
<1>2. FirmQty \in Nat /\ FirmQty # 0 /\ filled = 0 /\ varQty = FirmQty
  BY QtyAssumption DEF Init
<1>3. AllSettled /\ AllIdle /\ EarlierSettled
  BY <1>1 DEF AllSettled, AllIdle, EarlierSettled
<1>4. RetrySafe /\ RequeueHeld /\ FailureHeld /\ SendHeld
  BY <1>3 DEF Init, RetrySafe, RequeueHeld, FailureHeld, SendHeld, Failing, NoFollowUp
<1>5. Fits /\ BeforeConfirm
  BY <1>1, <1>2, <1>3 DEF Init, Fits, BeforeConfirm
<1>6. FailedIsDormant
  BY DEF Init, FailedIsDormant
<1>7. CorrectionHeld
  BY <1>2 DEF Init, CorrectionHeld, OverfillIsCorrected, Excess
<1>8. QED
  BY <1>1, <1>3, <1>4, <1>5, <1>6, <1>7 DEF SInv, Serial

LEMMA NextSInv ==
    ASSUME ~LateLanding
    PROVE  SInv /\ [Next]_vars => SInv'
<1> SUFFICES ASSUME SInv, [Next]_vars PROVE SInv'
  OBVIOUS
<1>1. KInv' /\ TInv'
  BY NextKInv DEF SInv, KInv
<1> SUFFICES Serial'
  BY <1>1 DEF SInv
<1>2. ASSUME NEW id \in Ids, Report(id) PROVE Serial'
  <2>1. PICK r \in Reports(id) : ~Stale(id, r) /\ Apply(id, r)
    BY <1>2 DEF Report
  <2>2. /\ UNCHANGED <<exch, kind, varQty, varSource, emergency, requeue, sendQty>>
        /\ pc' = pc /\ exch[id].st = "done"
    BY <1>2 DEF Report, recordVars, taskVars, alarms
  <2>3. QED
    BY <2>1, <2>2, AppliesSafely
<1>3. ASSUME NEW q \in VarQtys, VarConfirm(q) PROVE Serial'
  BY <1>3, ConfirmsSafely
<1>4. ASSUME NEW id \in Ids, Arrive(id) PROVE Serial'
  BY <1>1, <1>4, ArrivesSafely
<1>5. CASE Task
  <2>1. CASE AttemptNothing \/ AttemptExceeded
    BY <2>1, AttemptEndsSafely
  <2>2. CASE Attempt \/ GuardedRetry \/ GuardedFail
    BY <1>1, <2>2, AllocatesSafely
  <2>3. CASE Wake \/ Acknowledged \/ Loop \/ ReconcileFound
    BY <2>3, TaskMovesSafely
  <2>4. CASE Send
    BY <1>1, <2>4, SendsSafely
  <2>5. CASE Raised
    BY <2>5, RaisedSafely
  <2>6. CASE Flatten
    BY <2>6, FlattenSafely
  <2>7. CASE ApplyReply
    BY <2>7, RepliesSafely
  <2>8. CASE Decide \/ ReconcileMissing
    BY <2>8, DecidesSafely
  <2>9. QED
    BY <1>5, <2>1, <2>2, <2>3, <2>4, <2>5, <2>6, <2>7, <2>8 DEF Task
<1>6. CASE FollowUp
  BY <1>6, FollowsUpSafely
<1>7. CASE Normalize \/ TimeOut \/ Unconfirmed \/ VarFollowUp
  BY <1>7, WatchesSafely
<1>8. CASE ReconcileFlat
  BY <1>8, AcceptsFlatSafely
<1>9. CASE UNCHANGED vars
  <2>1. UNCHANGED <<exch, total, terminal>>
    BY <1>9 DEF vars, knowledge
  <2>2. /\ Ids' = Ids /\ Newest' = Newest /\ (AllSettled' <=> AllSettled)
        /\ (AllIdle' <=> AllIdle) /\ (EarlierSettled' <=> EarlierSettled)
    BY <2>1, SettledKept
  <2>3. /\ UNCHANGED <<hedge, filled, final, correction, writer, pc>>
        /\ UNCHANGED <<kind, varQty, varSource, emergency, requeue, sendQty>>
    BY <1>9 DEF vars, knowledge, recordVars, handlers, alarms, flags, taskVars, children
  <2>4. RetrySafe' /\ RequeueHeld' /\ FailureHeld' /\ SendHeld'
    BY <2>1, <2>2, <2>3 DEF SInv, Serial, RetrySafe, RequeueHeld, FailureHeld, SendHeld,
       Failing, AttemptsLeft, OpenRecovery
  <2>5. Fits' /\ BeforeConfirm'
    BY <2>1, <2>2, <2>3 DEF SInv, Serial, Fits, BeforeConfirm
  <2>6. FailedIsDormant' /\ CorrectionHeld'
    BY <2>1, <2>2, <2>3 DEF SInv, Serial, FailedIsDormant, Dormant, CorrectionHeld,
       OverfillIsCorrected, Excess
  <2>7. QED
    BY <2>2, <2>4, <2>5, <2>6 DEF SInv, Serial
<1>10. QED
  BY <1>2, <1>3, <1>4, <1>5, <1>6, <1>7, <1>8, <1>9
     DEF Next, Writer, Var, Watchdog, Exchange

\* As long as the exchange keeps its word on orders it reported absent, at most one
\* order of a record can still fill: no path sends the hedge twice.
THEOREM NeverResendsBlindly == Spec => []NoBlindResend
<1>1. CASE LateLanding
  <2>1. NoBlindResend
    BY <1>1 DEF NoBlindResend
  <2>2. QED
    BY <2>1, PTL
<1>2. CASE ~LateLanding
  <2>1. SInv /\ [Next]_vars => SInv'
    BY <1>2, NextSInv
  <2>2. SInv => NoBlindResend
    BY DEF SInv, Serial, EarlierSettled, Settled, NoBlindResend, MayFill
  <2>3. QED
    BY <2>1, <2>2, InitSInv, PTL DEF Spec
<1>3. QED
  BY <1>1, <1>2

\* A record that is flattened sends no order.
LEMMA SendIsHeld == SInv /\ emergency => ~Send
  BY DEF SInv, Serial, FailedIsDormant, Dormant, Send

\* The steps that begin to flatten Variational.
LEMMA FlattensWhen ==
    ASSUME SInv, [Next]_vars, FlattenBegins
    PROVE  /\ pc = "flatten" \/ (writer.pause /\ ~Resolved(hedge)) \/ hedge = "error"
           /\ varSource = "event" /\ filled' = filled /\ varQty' = varQty
<1> USE DEF FlattenBegins, recordVars, knowledge, taskVars, others, flags, children,
            handlers, alarms
<1>1. CASE Flatten
  <2>1. FlattenStarts(varSource)
    BY <1>1, Zenon DEF Flatten
  <2>2. QED
    BY <1>1, <2>1 DEF Flatten, FlattenStarts
<1>2. CASE FollowUp
  <2>1. writer.pause /\ ~Resolved(hedge) /\ varSource = "event"
    BY <1>2 DEF FollowUp, QueueRetry, FlattenStarts
  <2>2. QED
    BY <1>2, <2>1 DEF FollowUp
<1>3. CASE VarFollowUp
  BY <1>3 DEF VarFollowUp, FlattenStarts
<1>4. ASSUME emergency' = emergency PROVE FALSE
  BY <1>4
<1>5. CASE Task /\ ~Flatten
  BY <1>4, <1>5 DEF Task, AttemptNothing, AttemptExceeded, Attempt, GuardedRetry,
     GuardedFail, Wake, Send, Acknowledged, Raised, Loop, ReconcileFound, ApplyReply,
     Decide, ReconcileMissing
<1>6. CASE Watchdog \/ Exchange \/ Unconfirmed
  BY <1>4, <1>6 DEF Watchdog, Normalize, TimeOut, ReconcileFlat, Exchange, Arrive,
     Unconfirmed
<1>7. ASSUME NEW id \in Ids, Report(id) PROVE FALSE
  BY <1>4, <1>7 DEF Report
<1>8. ASSUME NEW q \in VarQtys, VarConfirm(q) PROVE FALSE
  BY <1>4, <1>8 DEF VarConfirm
<1>9. CASE UNCHANGED vars
  BY <1>4, <1>9 DEF vars
<1>10. QED
  BY <1>1, <1>2, <1>3, <1>5, <1>6, <1>7, <1>8, <1>9 DEF Next, Writer, Var

\* Whoever begins to flatten, nothing of the hedge is open, and it fell short of
\* what Variational filled if that was the Firm Quote's quantity.
LEMMA FlattenFindsIdle ==
    ASSUME SInv, [Next]_vars, FlattenBegins
    PROVE  MayFill = {} /\ (varQty = FirmQty => filled < varQty)
<1>1. AllIdle
  <2>1. CASE pc = "flatten" \/ hedge = "error"
    BY <2>1 DEF SInv, Serial, FailedIsDormant
  <2>2. CASE writer.pause
    BY <2>2, SettledFacts DEF SInv, Serial, RetrySafe, Failing
  <2>3. QED
    BY <2>1, <2>2, FlattensWhen
<1>2. varQty = FirmQty => filled < varQty
  <2>1. CASE pc = "flatten" \/ hedge = "error"
    BY <2>1 DEF SInv, Serial, FailedIsDormant
  <2>2. CASE ~Resolved(hedge)
    <3>1. filled # varQty /\ (filled <= FirmQty \/ filled <= varQty)
      BY <2>2 DEF Resolved, SInv, Serial, Fits
    <3>2. QED
      BY <3>1, SettledFacts
  <2>3. QED
    BY <2>1, <2>2, FlattensWhen
<1>3. QED
  BY <1>1, <1>2 DEF AllIdle, Settled, MayFill

\* Lighter is never hedged and Variational flattened at once: flattening begins only
\* when no order can fill, and once it began no further one is sent.
THEOREM FlatteningIsExclusive == ~LateLanding => (Spec => FlattenIsExclusive)
<1> SUFFICES ASSUME ~LateLanding PROVE Spec => FlattenIsExclusive
  OBVIOUS
<1> DEFINE Exclusive == /\ FlattenBegins => LateLanding \/ MayFill = {}
                        /\ emergency => ~Send
<1>1. SInv /\ [Next]_vars => SInv'
  BY NextSInv
<1>2. SInv /\ [Next]_vars => [Exclusive]_vars
  BY FlattenFindsIdle, SendIsHeld
<1>3. Spec => [][Exclusive]_vars
  <2> HIDE DEF Exclusive
  <2> QED
    BY <1>1, <1>2, InitSInv, PTL DEF Spec
<1>4. QED
  BY <1>3 DEF FlattenIsExclusive

\* A hedge that matched what Variational filled is never undone by a flattening.
THEOREM MatchedStays == Spec => MatchedIsNotFlattened
<1>1. CASE LateLanding
  <2>1. [Next]_vars =>
          [FlattenBegins => LateLanding \/ varQty # FirmQty \/ filled < varQty]_vars
    BY <1>1
  <2>2. QED
    BY <2>1, PTL DEF Spec, MatchedIsNotFlattened
<1>2. CASE ~LateLanding
  <2>1. SInv /\ [Next]_vars => SInv'
    BY <1>2, NextSInv
  <2>2. SInv /\ [Next]_vars =>
          [FlattenBegins => LateLanding \/ varQty # FirmQty \/ filled < varQty]_vars
    BY FlattenFindsIdle
  <2>3. QED
    BY <2>1, <2>2, InitSInv, PTL DEF Spec, MatchedIsNotFlattened
<1>3. QED
  BY <1>1, <1>2

-----------------------------------------------------------------------------
(* The sum of the orders is the truth *)

\* The record's own sum is that of its orders; a final outcome is one of finished
\* orders only.
SumHeld == filled = TotalOf(total)
FinalHeld == final => Ids \subseteq terminal
FInv == KInv /\ SumHeld /\ FinalHeld

\* A report changes the sum by what it changes of its order.
LEMMA ApplyKeepsSum ==
    ASSUME TInv, TInv', SumHeld, NEW id \in Ids, NEW r \in [done : Nat, ended : BOOLEAN],
           Apply(id, r)
    PROVE  SumHeld'
<1>1. /\ total \in Seq(Nat) /\ total' \in Seq(Nat) /\ DOMAIN total = Ids
      /\ Newest \in Nat /\ Ids = 1..Newest /\ total[id] \in Nat /\ r.done \in Nat
  BY OrderTypes DEF TInv, TypeOK
<1>2. total' = [total EXCEPT ![id] = r.done] /\ filled' = filled + (r.done - total[id])
  BY DEF Apply, NewSum
<1>3. Len(total') = Len(total) /\ id \in 1..Len(total) /\ total'[id] = r.done
      /\ \A i \in 1..Len(total) : i # id => total[i] = total'[i]
  BY <1>1, <1>2, LenProperties
<1>4. TotalOf(total') + total[id] = TotalOf(total) + r.done
  BY <1>1, <1>3, TotalExcept
<1>5. TotalOf(total) \in Nat /\ TotalOf(total') \in Nat
  BY <1>1, TotalIsNat
<1>6. QED
  <2>1. \A a, b, c, d \in Nat : a + c = b + d => a = b + (d - c)
    OBVIOUS
  <2>2. TotalOf(total') = TotalOf(total) + (r.done - total[id])
    BY <1>1, <1>4, <1>5, <2>1
  <2>3. QED
    BY <1>2, <2>2 DEF SumHeld

\* A new order adds nothing.
LEMMA ReserveKeepsSum ==
    ASSUME TInv, SumHeld, total' = Append(total, 0), filled' = filled
    PROVE  SumHeld'
<1>1. total \in Seq(Nat)
  BY DEF TInv, TypeOK
<1>2. TotalOf(Append(total, 0)) = TotalOf(total) + 0 /\ TotalOf(total) \in Nat
  BY <1>1, TotalAppend, TotalIsNat
<1>3. QED
  BY <1>2 DEF SumHeld

LEMMA NextFInv == FInv /\ [Next]_vars => FInv'
<1> SUFFICES ASSUME FInv, [Next]_vars PROVE FInv'
  OBVIOUS
<1>1. KInv /\ KInv' /\ TInv /\ TInv'
  BY NextKInv DEF FInv, KInv
<1> SUFFICES SumHeld' /\ FinalHeld'
  BY <1>1 DEF FInv
<1> USE DEF knowledge, taskVars, others, flags, children, handlers, alarms
<1>2. ASSUME UNCHANGED <<filled, total, final, terminal, exch>>
      PROVE  SumHeld' /\ FinalHeld'
  BY <1>2 DEF FInv, SumHeld, FinalHeld, Ids
<1>3. ASSUME NEW id \in Ids, NEW r \in [done : Nat, ended : BOOLEAN], Apply(id, r),
             exch' = exch
      PROVE  SumHeld' /\ FinalHeld'
  <2>1. SumHeld'
    BY <1>1, <1>3, ApplyKeepsSum DEF FInv
  <2>2. final' <=> AllTerminal(terminal')
    BY <1>3 DEF Apply
  <2>3. QED
    BY <1>3, <2>1, <2>2 DEF FinalHeld, AllTerminal, Ids
<1>4. CASE Attempt \/ GuardedRetry \/ GuardedFail
  <2>1. total' = Append(total, 0) /\ filled' = filled /\ final' = FALSE
    BY <1>4 DEF Attempt, GuardedRetry, GuardedFail, Allocate
  <2>2. QED
    BY <1>1, <2>1, ReserveKeepsSum DEF FInv, FinalHeld
<1>5. CASE ApplyReply
  <2>1. Newest \in Ids /\ exch[Newest] \in Order
    BY <1>1, <1>5, OrderTypes DEF ApplyReply, HasOrder
  <2>2. Ending(Newest) \in [done : Nat, ended : BOOLEAN]
    BY <2>1 DEF Ending, Order
  <2>3. QED
    BY <1>2, <1>3, <1>5, <2>1, <2>2 DEF ApplyReply
<1>6. ASSUME NEW id \in Ids, Report(id) PROVE SumHeld' /\ FinalHeld'
  <2>1. exch[id] \in Order
    BY <1>1, OrderTypes
  <2>2. PICK r \in [done : Nat, ended : BOOLEAN] : Apply(id, r)
    BY <1>6, <2>1, ReportsTrue DEF Report
  <2>3. QED
    BY <1>3, <1>6, <2>2 DEF Report
<1>7. CASE ReconcileFlat
  BY <1>7 DEF ReconcileFlat, FInv, SumHeld, FinalHeld, Ids
<1>8. ASSUME NEW id \in Ids, Arrive(id) PROVE SumHeld' /\ FinalHeld'
  <2>1. UNCHANGED <<filled, total, final, terminal>>
    BY <1>8 DEF Arrive
  <2>2. Ids' = Ids
    BY <1>8 DEF Arrive, Ids
  <2>3. QED
    BY <2>1, <2>2 DEF FInv, SumHeld, FinalHeld
<1>9. CASE Send
  <2>1. UNCHANGED <<filled, total, final, terminal>> /\ Ids' = Ids
    BY <1>9 DEF Send, Ids
  <2>2. QED
    BY <2>1 DEF FInv, SumHeld, FinalHeld
<1>10. CASE \/ AttemptNothing \/ AttemptExceeded \/ Wake \/ Acknowledged \/ Raised
            \/ Flatten \/ Loop \/ ReconcileFound \/ Decide \/ ReconcileMissing
  BY <1>2, <1>10 DEF AttemptNothing, AttemptExceeded, Wake, Acknowledged, Raised,
     Flatten, Loop, ReconcileFound, Decide, ReconcileMissing
<1>11. CASE FollowUp \/ VarFollowUp \/ Unconfirmed \/ Normalize \/ TimeOut
  BY <1>2, <1>11 DEF FollowUp, VarFollowUp, Unconfirmed, Normalize, TimeOut
<1>12. ASSUME NEW q \in VarQtys, VarConfirm(q) PROVE SumHeld' /\ FinalHeld'
  BY <1>2, <1>12 DEF VarConfirm
<1>13. CASE UNCHANGED vars
  BY <1>2, <1>13 DEF vars
<1>14. QED
  BY <1>4, <1>5, <1>6, <1>7, <1>8, <1>9, <1>10, <1>11, <1>12, <1>13
     DEF Next, Task, Writer, Var, Watchdog, Exchange

LEMMA InitFInv == Init => FInv
<1>1. Init => KInv
  BY InitTInv DEF Init, KInv, OrdersTrue, FreshOrder, Ids
<1>2. Init => SumHeld /\ FinalHeld
  BY TotalEmpty DEF Init, SumHeld, FinalHeld
<1>3. QED
  BY <1>1, <1>2 DEF FInv

\* What the exchange filled of each order, as a sequence.
Dones == [id \in Ids |-> exch[id].done]

LEMMA DonesTypes ==
    ASSUME TInv
    PROVE  /\ Dones \in Seq(Nat) /\ Len(Dones) = Len(total) /\ total \in Seq(Nat)
           /\ Newest \in Nat /\ Ids = 1..Newest /\ Len(total) = Newest
           /\ \A id \in Ids : Dones[id] = exch[id].done
           /\ TrueFill = TotalOf(Dones)
<1>1. /\ Newest \in Nat /\ Ids = 1..Newest /\ \A id \in Ids : exch[id].done \in Nat
  BY OrderTypes DEF Order
<1>2. Dones \in [1..Newest -> Nat] /\ \A id \in Ids : Dones[id] = exch[id].done
  BY <1>1 DEF Dones
<1>3. Dones \in Seq(Nat) /\ Len(Dones) = Newest
  BY <1>1, <1>2, SeqDef, LenProperties
<1>4. QED
  BY <1>1, <1>2, <1>3 DEF TrueFill, Dones, TInv, TypeOK, Newest

\* The record's sum never exceeds what really filled, and an outcome declared final
\* is the true one, although an order once proven absent may land late.
THEOREM FinalCorrect == Spec => []FinalIsTrue
<1>1. ASSUME FInv PROVE FinalIsTrue
  <2>1. TInv /\ OrdersTrue /\ SumHeld /\ FinalHeld
    BY <1>1 DEF FInv, KInv
  <2>2. /\ Dones \in Seq(Nat) /\ Len(Dones) = Len(total) /\ total \in Seq(Nat)
        /\ Newest \in Nat /\ Ids = 1..Newest /\ Len(total) = Newest
        /\ \A id \in Ids : Dones[id] = exch[id].done
        /\ TrueFill = TotalOf(Dones)
    BY <2>1, DonesTypes
  <2>3. \A id \in Ids : total[id] <= Dones[id]
    BY <2>1, <2>2 DEF OrdersTrue, OrderTrue
  <2>4. filled <= TrueFill /\ TotalOf(Dones) \in Nat /\ TotalOf(total) \in Nat
    BY <2>1, <2>2, <2>3, TotalIsNat, TotalMonotonic DEF SumHeld
  <2>5. ASSUME final, ~ReduceOnly PROVE filled = TrueFill
    <3>1. \A id \in Ids : total[id] = Dones[id]
      BY <2>1, <2>2, <2>5 DEF FinalHeld, OrdersTrue, OrderTrue
    <3>2. \A id \in Ids : Dones[id] <= total[id]
      BY <2>2, <3>1, ElementOfSeq
    <3>3. TotalOf(Dones) <= TotalOf(total)
      BY <2>2, <3>2, TotalMonotonic
    <3>4. QED
      BY <2>1, <2>2, <2>4, <3>3 DEF SumHeld
  <2>6. QED
    BY <2>4, <2>5 DEF FinalIsTrue
<1>2. QED
  BY <1>1, InitFInv, NextFInv, PTL DEF Spec

\* When all orders but the newest are settled, the truth differs from the record's
\* sum by what the newest one has not reported yet.
LEMMA TruthByNewest ==
    ASSUME SInv, SumHeld
    PROVE  TrueFill <= FirmQty \/ TrueFill <= varQty
<1> USE DEF SInv, KInv
<1>1. /\ Dones \in Seq(Nat) /\ Len(Dones) = Len(total) /\ total \in Seq(Nat)
      /\ Newest \in Nat /\ Ids = 1..Newest /\ Len(total) = Newest
      /\ \A id \in Ids : Dones[id] = exch[id].done
      /\ TrueFill = TotalOf(Dones)
  BY DonesTypes
<1>2. \A id \in Ids : id # Newest => total[id] = Dones[id]
  BY <1>1 DEF Serial, EarlierSettled, Settled
<1>3. filled <= FirmQty \/ filled <= varQty
  BY DEF Serial, Fits
<1>4. TotalOf(total) \in Nat /\ TotalOf(Dones) \in Nat
  BY <1>1, TotalIsNat
<1>5. CASE \A id \in Ids : total[id] = Dones[id]
  <2>1. \A id \in Ids : Dones[id] <= total[id]
    BY <1>1, <1>5, ElementOfSeq
  <2>2. TotalOf(Dones) <= TotalOf(total)
    BY <1>1, <2>1, TotalMonotonic
  <2>3. QED
    BY <1>1, <1>3, <1>4, <2>2, SettledFacts DEF SumHeld
<1>6. CASE exch # <<>> /\ exch[Newest].st # "reserved"
  <2>1. Newest \in 1..Len(total) /\ Newest \in Ids
    BY <1>1, <1>6, SettledFacts
  <2>2. TotalOf(Dones) + total[Newest] = TotalOf(total) + Dones[Newest]
    BY <1>1, <1>2, <2>1, TotalExcept
  <2>3. /\ filled + exch[Newest].qty
              \in {FirmQty + total[Newest], varQty + total[Newest]}
        /\ exch[Newest].done <= exch[Newest].qty
    BY <1>6, <2>1 DEF Serial, Fits
  <2>4. PICK t \in Nat, d \in Nat, q \in Nat :
            t = total[Newest] /\ d = Dones[Newest] /\ q = exch[Newest].qty
    BY <2>1, OrderTypes DEF Order, Dones
  <2>5. d = exch[Newest].done /\ d <= q
    BY <1>1, <2>1, <2>3, <2>4
  <2>6. PICK n \in Nat : n = TotalOf(Dones)
    BY <1>4
  <2>7. n + t = filled + d /\ (filled + q = FirmQty + t \/ filled + q = varQty + t)
    BY <2>2, <2>3, <2>4, <2>6 DEF SumHeld
  <2>8. filled \in Nat /\ varQty \in Nat /\ FirmQty \in Nat
    BY SettledFacts
  <2>9. n <= FirmQty \/ n <= varQty
    BY <2>5, <2>7, <2>8
  <2>10. QED
    BY <1>1, <2>6, <2>9
<1>7. CASE exch # <<>> /\ exch[Newest].st = "reserved"
  <2>1. total[Newest] = Dones[Newest]
    <3>1. Newest \in Ids /\ total[Newest] \in Nat
      BY <1>7, SettledFacts, OrderTypes
    <3>2. exch[Newest].done = 0 /\ total[Newest] <= exch[Newest].done
      BY <1>7, <3>1 DEF OrdersTrue, OrderTrue
    <3>3. QED
      BY <1>1, <3>1, <3>2
  <2>2. QED
    BY <1>2, <1>5, <2>1
<1>8. CASE exch = <<>>
  <2>1. Ids = {}
    BY <1>8 DEF Ids
  <2>2. QED
    BY <1>5, <2>1
<1>9. QED
  BY <1>6, <1>7, <1>8

\* Over all its attempts the hedge never fills more than the Firm Quote or the
\* confirmed fill asks for, although its target changes under a running attempt.
THEOREM NeverOverfills == Spec => []NoOverfill
<1>1. CASE LateLanding
  <2>1. NoOverfill
    BY <1>1 DEF NoOverfill
  <2>2. QED
    BY <2>1, PTL
<1>2. CASE ~LateLanding
  <2>1. SInv /\ [Next]_vars => SInv'
    BY <1>2, NextSInv
  <2>2. SInv /\ FInv => NoOverfill
    BY TruthByNewest DEF FInv, NoOverfill
  <2>3. QED
    BY <2>1, <2>2, InitSInv, InitFInv, NextFInv, PTL DEF Spec
<1>3. QED
  BY <1>1, <1>2

-----------------------------------------------------------------------------
(* What is filled in excess is corrected *)

\* If Variational fills what its Firm Quote said, the excess is scheduled to be
\* corrected at any time, even with orders that land after they were given up.
EInv == /\ TInv /\ varQty = FirmQty
        /\ varSource # "unconfirmed_commit" => correction = Excess

LEMMA NextEInv ==
    ASSUME VarQtys \subseteq {FirmQty}
    PROVE  EInv /\ [Next]_vars => EInv'
<1> SUFFICES ASSUME EInv, [Next]_vars PROVE EInv'
  OBVIOUS
<1>1. /\ TInv /\ TInv' /\ filled \in Nat /\ filled' \in Nat /\ varQty \in Nat
      /\ correction \in Nat
  BY NextTInv DEF EInv, TInv, TypeOK
<1> USE DEF knowledge, taskVars, others, flags, children, handlers, alarms, recordVars
<1>2. ASSUME UNCHANGED <<varQty, varSource, correction, filled>> PROVE EInv'
  BY <1>1, <1>2 DEF EInv, Excess
<1>3. ASSUME NEW id \in Ids, NEW r \in [done : Nat, ended : BOOLEAN], ~Stale(id, r),
             Apply(id, r), UNCHANGED <<varQty, varSource>>
      PROVE  EInv'
  <2>1. filled' = NewSum(id, r) /\ filled' >= filled
    BY <1>1, <1>3, SumGrows DEF Apply, TInv
  <2>2. CASE varSource # "unconfirmed_commit" /\ filled' > varQty
    <3>1. correction' = RaiseTo(correction, filled' - varQty)
      BY <1>3, <2>1, <2>2 DEF Apply, ReportedStatus
    <3>2. correction <= filled' - varQty
      BY <1>1, <2>1, <2>2 DEF EInv, Excess
    <3>3. correction' = filled' - varQty
      <4>1. filled' - varQty \in Nat
        <5>1. \A a, b \in Nat : a > b => a - b \in Nat
          OBVIOUS
        <5>2. filled' > varQty
          BY <2>2
        <5>3. QED
          BY <1>1, <5>1, <5>2
      <4>2. \A a, b \in Nat : a <= b => RaiseTo(a, b) = b
        BY DEF RaiseTo
      <4>3. QED
        BY <1>1, <3>1, <3>2, <4>1, <4>2
    <3>4. QED
      BY <1>1, <1>3, <2>2, <3>3 DEF EInv, Excess
  <2>3. CASE varSource # "unconfirmed_commit" /\ ~(filled' > varQty)
    <3>1. correction = 0
      BY <1>1, <2>1, <2>3 DEF EInv, Excess
    <3>2. correction' = RaiseTo(correction, 0)
      BY <1>3, <2>1, <2>3 DEF Apply, ReportedStatus
    <3>3. correction' = 0
      BY <3>1, <3>2 DEF RaiseTo
    <3>4. QED
      BY <1>1, <1>3, <2>3, <3>3 DEF EInv, Excess
  <2>4. CASE varSource = "unconfirmed_commit"
    BY <1>1, <1>3, <2>4 DEF EInv
  <2>5. QED
    BY <2>2, <2>3, <2>4
<1>4. ASSUME NEW id \in Ids, Report(id) PROVE EInv'
  <2>1. exch[id] \in Order
    BY <1>1, OrderTypes
  <2>2. PICK r \in [done : Nat, ended : BOOLEAN] : ~Stale(id, r) /\ Apply(id, r)
    BY <1>4, <2>1, ReportsTrue DEF Report
  <2>3. UNCHANGED <<varQty, varSource>>
    BY <1>4 DEF Report
  <2>4. QED
    BY <1>3, <2>2, <2>3
<1>5. CASE ApplyReply
  <2>1. Newest \in Ids /\ exch[Newest] \in Order
    BY <1>1, <1>5, OrderTypes DEF ApplyReply, HasOrder
  <2>2. Ending(Newest) \in [done : Nat, ended : BOOLEAN]
    BY <2>1 DEF Ending, Order
  <2>3. UNCHANGED <<varQty, varSource>>
    BY <1>5 DEF ApplyReply
  <2>4. CASE Stale(Newest, Ending(Newest))
    BY <1>2, <1>5, <2>4 DEF ApplyReply
  <2>5. CASE ~Stale(Newest, Ending(Newest))
    BY <1>3, <1>5, <2>1, <2>2, <2>3, <2>5 DEF ApplyReply
  <2>6. QED
    BY <2>4, <2>5
<1>6. CASE Task /\ ~ApplyReply
  <2>1. UNCHANGED <<varQty, varSource, correction, filled>>
    BY <1>6 DEF Task, AttemptNothing, AttemptExceeded, Attempt, GuardedRetry,
       GuardedFail, Wake, Send, Acknowledged, Raised, Flatten, Loop, ReconcileFound,
       Decide, ReconcileMissing
  <2>2. QED
    BY <1>2, <2>1
<1>7. CASE FollowUp \/ VarFollowUp \/ Watchdog \/ Exchange
  BY <1>2, <1>7 DEF FollowUp, VarFollowUp, Watchdog, Normalize, TimeOut, ReconcileFlat,
     Exchange, Arrive
<1>8. ASSUME NEW q \in VarQtys, VarConfirm(q) PROVE EInv'
  <2>1. q = varQty /\ varQty' = varQty /\ filled' = filled /\ correction = Excess
    BY <1>8 DEF VarConfirm, EInv
  <2>2. correction' = correction
    BY <1>1, <1>8, <2>1 DEF VarConfirm, RaiseTo, Excess
  <2>3. QED
    BY <1>1, <2>1, <2>2 DEF EInv, Excess
<1>9. CASE Unconfirmed
  BY <1>1, <1>9 DEF Unconfirmed, EInv
<1>10. CASE UNCHANGED vars
  BY <1>2, <1>10 DEF vars
<1>11. QED
  BY <1>4, <1>5, <1>6, <1>7, <1>8, <1>9, <1>10 DEF Next, Writer, Var

\* A hedge that calls itself complete has no excess that is not being corrected, if
\* no order lands after it was given up, or Variational fills what its Firm Quote
\* said.
THEOREM ExcessIsCorrected ==
    ~LateLanding \/ VarQtys \subseteq {FirmQty} => (Spec => []OverfillIsCorrected)
<1>1. CASE ~LateLanding
  <2>1. SInv /\ [Next]_vars => SInv'
    BY <1>1, NextSInv
  <2>2. SInv => OverfillIsCorrected
    BY DEF SInv, Serial, CorrectionHeld
  <2>3. QED
    BY <2>1, <2>2, InitSInv, PTL DEF Spec
<1>2. CASE VarQtys \subseteq {FirmQty}
  <2>1. Init => EInv
    BY InitTInv, QtyAssumption DEF Init, EInv, Excess
  <2>2. EInv /\ [Next]_vars => EInv'
    BY <1>2, NextEInv
  <2>3. EInv => OverfillIsCorrected
    BY DEF EInv, Excess, OverfillIsCorrected
  <2>4. QED
    BY <2>1, <2>2, <2>3, PTL DEF Spec
<1>3. QED
  BY <1>1, <1>2

=============================================================================
