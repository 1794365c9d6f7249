------------------------- MODULE LighterOrderEntry --------------------------
(***************************************************************************)
(* How a signed Lighter order leaves the process: LighterOrderEntry        *)
(* (variational/lighter_order_entry.py) and submit_lighter_create_order    *)
(* (main.py), its only caller.                                             *)
(*                                                                         *)
(* Actors: the hedge tasks, of which one at a time holds the signer lock;  *)
(* the worker that sends one queued command after the other over one       *)
(* websocket; the maintenance task that reconnects beside it; and close(), *)
(* which cancels both while commands are queued, being sent or answered.   *)
(* A step is what an actor does between two suspensions: the connection    *)
(* lock when it is held, a connect, a receive, a future.  The exchange and *)
(* the network are the environment.                                        *)
(***************************************************************************)
EXTENDS Naturals, FiniteSets

CONSTANTS
    Orders,         \* client order ids, which grow: each is submitted once, in turn
    QueueSize,      \* LIGHTER_ORDER_ENTRY_QUEUE_SIZE
    MaxSockets      \* bound: connections that succeed

ASSUME OrdersAssumption == Orders \subseteq Nat
ASSUME BoundAssumption == QueueSize \in Nat /\ MaxSockets \in Nat

VARIABLES
    caller,         \* submit_lighter_create_order: where it is, or its outcome
    command,        \* the order's _QueuedTransaction
    future,         \* the future of that command
    fallback,       \* the setting lighter_order_entry_rest_fallback
    nonce,          \* nonce_manager: the next nonce
    nonceOf,        \* the nonce the order was signed with
    worker,         \* _run: where it is suspended
    wsock,          \* _submit_one: its ws
    maint,          \* _maintain_connection
    sock,           \* self._ws: a connection, or 0 for None
    opened,         \* connections so far
    broken,         \* connections that are closed, by either side
    closer,         \* the runtime's shutdown, and close()
    wire,           \* frames on their way to the exchange; socket 0 is REST
    replies,        \* answers on their way back
    copies,         \* history: frames with the order that left
    verdict         \* the exchange

orderVars == <<caller, command, future>>
signer    == <<fallback, nonce, nonceOf>>
sockets   == <<sock, opened, broken>>
network   == <<wire, replies, copies, verdict>>
vars == <<orderVars, signer, worker, wsock, maint, sockets, closer, network>>

-----------------------------------------------------------------------------
Verdicts == {"accepted", "rejected"}
CallerState == {"idle", "waiting", "rest", "accepted", "rejected", "refused", "unknown",
                "cancelled"}
FutureState == {"none", "pending", "accepted", "rejected", "unavailable", "unknown",
                "cancelled"}
Sockets == 0..MaxSockets

TypeOK ==
    /\ caller \in [Orders -> CallerState]
    /\ command \in [Orders -> {"none", "queued", "taken", "dispatched", "over"}]
    /\ future \in [Orders -> FutureState]
    /\ fallback \in BOOLEAN /\ nonce \in Nat /\ nonceOf \in [Orders -> Nat]
    /\ worker \in {"none", "get", "connect", "connecting", "recv", "fail", "closing",
                   "ended"}
    /\ maint \in {"on", "connecting", "ended"}
    /\ {wsock, sock, opened} \subseteq Sockets /\ broken \subseteq Sockets
    /\ closer \in {"no", "stopping", "worker", "maint", "done"}
    /\ wire \subseteq [order : Orders, sock : Sockets]
    /\ replies \subseteq [order : Orders, sock : Sockets, named : BOOLEAN, code : Verdicts]
    /\ copies \in [Orders -> Nat]
    /\ verdict \in [Orders -> Verdicts \cup {"none"}]

\* start() has begun; nothing is connected yet.
Init ==
    /\ caller = [o \in Orders |-> "idle"] /\ command = [o \in Orders |-> "none"]
    /\ future = [o \in Orders |-> "none"]
    /\ fallback \in BOOLEAN /\ nonce = 0 /\ nonceOf = [o \in Orders |-> 0]
    /\ worker = "none" /\ wsock = 0 /\ maint = "on"
    /\ sock = 0 /\ opened = 0 /\ broken = {}
    /\ closer = "no"
    /\ wire = {} /\ replies = {}
    /\ copies = [o \in Orders |-> 0] /\ verdict = [o \in Orders |-> "none"]

\* _connect_lock is held over a connect only.
LockFree == worker # "connecting" /\ maint # "connecting"
IsReady == sock # 0 /\ sock \notin broken
IsClosed == closer \in {"worker", "maint", "done"}

\* set_result and set_exception, unless the future is done.
Resolve(o, outcome) ==
    future' = IF future[o] = "pending" THEN [future EXCEPT ![o] = outcome] ELSE future

Leaves(o, s) ==
    /\ copies' = [copies EXCEPT ![o] = @ + 1]
    /\ wire' = wire \cup {[order |-> o, sock |-> s]}
    /\ UNCHANGED <<replies, verdict>>

-----------------------------------------------------------------------------
(* submit_lighter_create_order, under the signer lock *)

SignerHeld == \E o \in Orders : caller[o] \in {"waiting", "rest"}
MaySubmit(o) == /\ ~SignerHeld /\ caller[o] = "idle"
                /\ \A p \in Orders : p < o => caller[p] # "idle"
QueueFull == Cardinality({o \in Orders : command[o] = "queued"}) >= QueueSize

\* Nothing left over the websocket: REST, if it may be used.
Elsewhere(o) ==
    \/ /\ fallback /\ Leaves(o, 0)
       /\ caller' = [caller EXCEPT ![o] = "rest"]
    \/ /\ ~fallback /\ UNCHANGED network
       /\ caller' = [caller EXCEPT ![o] = "refused"]

\* The entry is not ready, or it takes no more commands and the nonce reserved for
\* this one is released at once; create_order then reserves its own.
ReleaseNothing == nonce - 1                           \* mutant: none was reserved
AfterRefusal == nonce
SubmitElsewhere(o) ==
    /\ MaySubmit(o)
    /\ ~IsReady \/ IsClosed \/ QueueFull
    /\ Elsewhere(o)
    /\ nonce' = IF fallback THEN nonce + 1 ELSE AfterRefusal
    /\ nonceOf' = [nonceOf EXCEPT ![o] = nonce]
    /\ UNCHANGED <<command, future, fallback, worker, wsock, maint, sockets, closer>>

SubmitUnsigned(o) ==
    /\ MaySubmit(o) /\ IsReady
    /\ caller' = [caller EXCEPT ![o] = "refused"]
    /\ UNCHANGED <<command, future, signer, worker, wsock, maint, sockets, closer, network>>

SubmitQueued(o) ==
    /\ MaySubmit(o)
    /\ IsReady /\ ~IsClosed /\ ~QueueFull
    /\ caller' = [caller EXCEPT ![o] = "waiting"]
    /\ command' = [command EXCEPT ![o] = "queued"]
    /\ future' = [future EXCEPT ![o] = "pending"]
    /\ nonce' = nonce + 1 /\ nonceOf' = [nonceOf EXCEPT ![o] = nonce]
    /\ worker' = IF worker = "none" THEN "get" ELSE worker
    /\ UNCHANGED <<fallback, wsock, maint, sockets, closer, network>>

\* The nonce is released when the order did not leave or was rejected.
ReleasedUnlessAccepted == {"unavailable", "rejected", "unknown"}    \* mutant
Released == {"unavailable", "rejected"}

\* The future is resolved.
Unavailable(o) ==
    /\ caller[o] = "waiting" /\ future[o] = "unavailable"
    /\ Elsewhere(o)
    /\ nonce' = IF fallback THEN nonce ELSE nonce - 1
    /\ UNCHANGED <<command, future, fallback, nonceOf, worker, wsock, maint, sockets, closer>>

Answered(o) ==
    /\ caller[o] = "waiting" /\ future[o] \in Verdicts \cup {"unknown"}
    /\ caller' = [caller EXCEPT ![o] = future[o]]
    /\ nonce' = IF future[o] \in Released THEN nonce - 1 ELSE nonce
    /\ UNCHANGED <<command, future, fallback, nonceOf, worker, wsock, maint, sockets,
                   closer, network>>

\* client.create_order returns or raises.
RestAnswers(o) ==
    /\ caller[o] = "rest"
    /\ \/ /\ verdict[o] \in Verdicts /\ caller' = [caller EXCEPT ![o] = verdict[o]]
          /\ nonce' = IF verdict[o] = "rejected" THEN nonce - 1 ELSE nonce
       \/ caller' = [caller EXCEPT ![o] = "unknown"] /\ UNCHANGED nonce
    /\ UNCHANGED <<command, future, fallback, nonceOf, worker, wsock, maint, sockets,
                   closer, network>>

\* The runtime stops: what is not answered in time is cancelled.
Cancel(o) ==
    /\ closer # "no" /\ caller[o] \in {"waiting", "rest"}
    /\ caller' = [caller EXCEPT ![o] = "cancelled"]
    /\ Resolve(o, "cancelled")
    /\ UNCHANGED <<command, signer, worker, wsock, maint, sockets, closer, network>>

-----------------------------------------------------------------------------
(* The worker: _run and _submit_one *)

Take(o) ==
    /\ worker = "get" /\ ~IsClosed /\ command[o] = "queued"
    /\ \/ /\ future[o] = "cancelled"
          /\ command' = [command EXCEPT ![o] = "over"] /\ UNCHANGED worker
       \/ /\ future[o] # "cancelled"
          /\ command' = [command EXCEPT ![o] = "taken"] /\ worker' = "connect"
    /\ UNCHANGED <<caller, future, signer, wsock, maint, sockets, closer, network>>

\* The command is marked before the frame is given to the library, which sends it,
\* or raises and may have sent it.
Dispatch(o, s) ==
    /\ command' = [command EXCEPT ![o] = "dispatched"] /\ wsock' = s
    /\ \/ Leaves(o, s) /\ worker' \in {"recv", "fail"}
       \/ UNCHANGED network /\ worker' = "fail"

EnsureConnected(o) ==
    /\ worker = "connect" /\ ~IsClosed /\ command[o] = "taken" /\ LockFree
    /\ \/ IsReady /\ Dispatch(o, sock) /\ UNCHANGED sock
       \/ /\ ~IsReady /\ worker' = "connecting" /\ sock' = 0
          /\ UNCHANGED <<command, wsock, network>>
    /\ UNCHANGED <<caller, future, signer, maint, opened, broken, closer>>

WorkerConnected(o) ==
    /\ worker = "connecting" /\ ~IsClosed /\ command[o] = "taken"
    /\ opened < MaxSockets /\ opened' = opened + 1 /\ sock' = opened + 1
    /\ Dispatch(o, opened + 1)
    /\ UNCHANGED <<caller, future, signer, maint, broken, closer>>

WorkerUnconnected(o) ==
    /\ worker = "connecting" /\ ~IsClosed /\ command[o] = "taken"
    /\ worker' = "get" /\ command' = [command EXCEPT ![o] = "over"]
    /\ Resolve(o, "unavailable")
    /\ UNCHANGED <<caller, signer, wsock, maint, sockets, closer, network>>

\* _receipt_for: a reply without an id counts as the answer to the one command in
\* flight; one that names another order is passed over.
Receive(o) ==
    /\ worker = "recv" /\ ~IsClosed /\ command[o] = "dispatched"
    /\ \E r \in replies :
          /\ r.sock = wsock /\ (r.named => r.order = o)
          /\ replies' = replies \ {r}
          /\ worker' = "get" /\ command' = [command EXCEPT ![o] = "over"]
          /\ Resolve(o, r.code)
    /\ UNCHANGED <<caller, signer, wsock, maint, sockets, closer, wire, copies, verdict>>

\* The deadline passes, or the connection breaks.
GivesUp ==
    /\ worker = "recv" /\ ~IsClosed /\ worker' = "fail"
    /\ UNCHANGED <<orderVars, signer, wsock, maint, sockets, closer, network>>

\* _close_socket: whatever connection the entry has by now.
KeepSocket == UNCHANGED sockets                       \* mutant: left open
CloseSocket == sock' = 0 /\ broken' = broken \cup {sock} /\ UNCHANGED opened

Fail(o) ==
    /\ worker = "fail" /\ ~IsClosed /\ command[o] = "dispatched" /\ LockFree
    /\ worker' = "get" /\ command' = [command EXCEPT ![o] = "over"]
    /\ CloseSocket /\ Resolve(o, "unknown")
    /\ UNCHANGED <<caller, signer, wsock, maint, closer, network>>

-----------------------------------------------------------------------------
(* _maintain_connection *)

MaintConnects ==
    /\ maint = "on" /\ ~IsClosed /\ ~IsReady /\ LockFree
    /\ maint' = "connecting" /\ sock' = 0
    /\ UNCHANGED <<orderVars, signer, worker, wsock, opened, broken, closer, network>>

MaintConnected ==
    /\ maint = "connecting"
    /\ opened < MaxSockets /\ opened' = opened + 1 /\ sock' = opened + 1 /\ maint' = "on"
    /\ UNCHANGED <<orderVars, signer, worker, wsock, broken, closer, network>>

MaintUnconnected ==
    /\ maint = "connecting" /\ maint' = "on"
    /\ UNCHANGED <<orderVars, signer, worker, wsock, sockets, closer, network>>

-----------------------------------------------------------------------------
(* Shutdown, and close() *)

Stop ==
    /\ closer = "no" /\ closer' = "stopping"
    /\ UNCHANGED <<orderVars, signer, worker, wsock, maint, sockets, network>>

\* The entry is marked closed and the worker is cancelled.
CloseBegins ==
    /\ closer = "stopping" /\ closer' = "worker"
    /\ UNCHANGED <<orderVars, signer, worker, wsock, maint, sockets, network>>

\* CancelledError reaches the worker.  A dispatched command has no certain outcome.
NeverCertain(o) == "unavailable"                      \* mutant: the mark not looked at
Outcome(o) == IF command[o] = "dispatched" THEN "unknown" ELSE "unavailable"
InHand(o) == command[o] \in {"taken", "dispatched"}
WorkerCancelled ==
    /\ closer = "worker" /\ worker \notin {"none", "closing", "ended"}
    /\ worker' = "closing"
    /\ \/ /\ \E o \in Orders : /\ InHand(o) /\ Resolve(o, Outcome(o))
                               /\ command' = [command EXCEPT ![o] = "over"]
       \/ (\A o \in Orders : ~InHand(o)) /\ UNCHANGED <<command, future>>
    /\ UNCHANGED <<caller, signer, wsock, maint, sockets, closer, network>>

WorkerEnds ==
    /\ worker = "closing" /\ LockFree
    /\ worker' = "ended" /\ CloseSocket
    /\ UNCHANGED <<orderVars, signer, wsock, maint, closer, network>>

MaintEnds ==
    /\ closer = "worker" /\ worker \in {"none", "ended"}
    /\ closer' = "maint" /\ maint' = "ended"
    /\ UNCHANGED <<orderVars, signer, worker, wsock, sockets, network>>

\* The commands still queued are answered.
NotDrained(o) == FALSE                                \* mutant: left in the queue
Drained(o) == command[o] = "queued"
CloseEnds ==
    /\ closer = "maint" /\ closer' = "done" /\ CloseSocket
    /\ command' = [o \in Orders |-> IF Drained(o) THEN "over" ELSE command[o]]
    /\ future' = [o \in Orders |-> IF Drained(o) /\ future[o] = "pending"
                                   THEN "unavailable" ELSE future[o]]
    /\ UNCHANGED <<caller, signer, worker, wsock, maint, network>>

-----------------------------------------------------------------------------
(* The exchange and the network *)

\* A frame may also never arrive, and a reply be lost.
Arrives(m) ==
    /\ verdict[m.order] = "none" /\ wire' = wire \ {m}
    /\ \E v \in Verdicts :
          /\ verdict' = [verdict EXCEPT ![m.order] = v]
          /\ \/ /\ m.sock # 0 /\ m.sock \notin broken
                /\ \E named \in BOOLEAN : replies' = replies \cup
                      {[order |-> m.order, sock |-> m.sock, named |-> named, code |-> v]}
             \/ UNCHANGED replies
    /\ UNCHANGED <<orderVars, signer, worker, wsock, maint, sockets, closer, copies>>

\* The library closes a connection on its own: sock stays what it is.
Breaks ==
    /\ IsReady /\ broken' = broken \cup {sock}
    /\ UNCHANGED <<orderVars, signer, worker, wsock, maint, sock, opened, closer, network>>

-----------------------------------------------------------------------------
Submits(o) == SubmitElsewhere(o) \/ SubmitUnsigned(o) \/ SubmitQueued(o)
Resumes(o) == Unavailable(o) \/ Answered(o) \/ RestAnswers(o)
Works(o) == \/ Take(o) \/ EnsureConnected(o) \/ WorkerConnected(o) \/ WorkerUnconnected(o)
            \/ Receive(o) \/ Fail(o)
Worker == GivesUp \/ \E o \in Orders : Works(o)
Maintenance == MaintConnects \/ MaintConnected \/ MaintUnconnected
Closing == WorkerCancelled \/ WorkerEnds \/ MaintEnds \/ CloseEnds
Environment == Breaks \/ \E m \in wire : Arrives(m)

Next == \/ \E o \in Orders : Submits(o) \/ Resumes(o) \/ Cancel(o)
        \/ Worker \/ Maintenance \/ Stop \/ CloseBegins \/ Closing \/ Environment
Spec == Init /\ [][Next]_vars

\* Resolved futures resume their callers, connects and receives have timeouts, and a
\* close that has begun goes on.  The connection lock is handed over in order, so
\* that the worker is not overtaken for ever by the maintenance.
Fairness ==
    /\ \A o \in Orders : WF_vars(Resumes(o))
    /\ SF_vars(Worker) /\ WF_vars(MaintConnected \/ MaintUnconnected) /\ WF_vars(Closing)
FairSpec == Spec /\ Fairness

-----------------------------------------------------------------------------
(* Properties *)

\* What the caller has been told.
ToldOf(c) == IF c \in {"accepted", "rejected", "refused"} THEN c
             ELSE IF c \in {"unknown", "cancelled"} THEN "unknown" ELSE "nothing"
Told == [o \in Orders |-> ToldOf(caller[o])]
Promise == INSTANCE Submission WITH told <- Told

\* Over both transports an order leaves at most once; a caller that was told it did
\* not leave is never wrong; and a verdict it is told is the exchange's own.
SentAtMostOnce == Promise!Spec

\* Two orders that may both be executed never bear the same nonce, although nonces
\* are given back when an order did not leave or was rejected.
MayExecute(o) == copies[o] > 0 /\ verdict[o] # "rejected"
NoncesAreUnique ==
    \A o, p \in Orders : o # p /\ MayExecute(o) /\ MayExecute(p) => nonceOf[o] # nonceOf[p]

\* When close() has returned, no submission waits for an answer and no connection is
\* left behind, whatever the worker and the maintenance were doing.
ClosedIsQuiet ==
    closer = "done" => /\ sock = 0 /\ worker \in {"none", "ended"} /\ maint = "ended"
                       /\ \A o \in Orders : future[o] # "pending"

\* Every submission ends: no command is forgotten in the queue or by the worker.
SubmissionEnds ==
    \A o \in Orders :
        caller[o] \in {"waiting", "rest"} ~> caller[o] \notin {"waiting", "rest"}
=============================================================================
