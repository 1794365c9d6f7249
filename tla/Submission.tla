----------------------------- MODULE Submission -----------------------------
(***************************************************************************)
(* What the runtime relies on when it hands over an order, and what both   *)
(* of its transports implement: a signed order to Lighter, by WebSocket or *)
(* REST (submit_lighter_create_order in main.py, and the exceptions of     *)
(* variational/lighter_order_entry.py), and a Commit to Variational, by    *)
(* the broker, the Chrome extension and its page (request_place_order in   *)
(* variational/listener.py): an order leaves at most once, and the caller  *)
(* is never told that it did not leave when it did, or will.               *)
(***************************************************************************)
EXTENDS Naturals

CONSTANT Orders         \* client order ids

VARIABLES
    copies,             \* how many times a frame with the order has left
    verdict,            \* what the exchange has decided on it
    told                \* what the caller has been told

vars == <<copies, verdict, told>>

Verdicts == {"accepted", "rejected"}

Init ==
    /\ copies = [o \in Orders |-> 0]
    /\ verdict = [o \in Orders |-> "none"]
    /\ told = [o \in Orders |-> "nothing"]

\* A caller that was told nothing certain must expect the order to leave yet.
Leave(o) ==
    /\ copies[o] = 0 /\ told[o] \in {"nothing", "unknown"}
    /\ copies' = [copies EXCEPT ![o] = 1]
    /\ UNCHANGED <<verdict, told>>

Decide(o) ==
    /\ copies[o] = 1 /\ verdict[o] = "none"
    /\ \E v \in Verdicts : verdict' = [verdict EXCEPT ![o] = v]
    /\ UNCHANGED <<copies, told>>

\* The exchange's own verdict, or that nothing left, or nothing certain.
Tell(o) ==
    /\ told[o] = "nothing"
    /\ \E w \in {"accepted", "rejected", "refused", "unknown"} :
          /\ w \in Verdicts => verdict[o] = w
          /\ w = "refused" => copies[o] = 0
          /\ told' = [told EXCEPT ![o] = w]
    /\ UNCHANGED <<copies, verdict>>

Next == \E o \in Orders : Leave(o) \/ Decide(o) \/ Tell(o)
Spec == Init /\ [][Next]_vars
=============================================================================
