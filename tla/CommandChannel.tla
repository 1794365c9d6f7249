--------------------------- MODULE CommandChannel ---------------------------
(***************************************************************************)
(* How a Commit leaves the runtime for Variational: CommandBroker          *)
(* (variational/listener.py), the CommandSocket and the order bridge of    *)
(* the Chrome extension (chrome_extension/background.js), and what the     *)
(* runtime makes of the answer (var_result_is_ambiguous in main.py).       *)
(*                                                                         *)
(* The broker knows one extension, the connection that has registered.  A  *)
(* connection is made anew when it ends, from either side, and the ends    *)
(* are noticed at different times.  The extension evaluates the command in *)
(* the page through Chrome's debugger: by the bridge it has installed      *)
(* there, which a reload of the page removes, or by an expression that     *)
(* carries the whole executor.  The page sends the order.                  *)
(*                                                                         *)
(* On one connection messages arrive in order; here a set is enough, for   *)
(* a registration is handled before anything else that its side sends.     *)
(***************************************************************************)
EXTENDS Naturals

CONSTANTS
    Commands,       \* Commits, by their request id
    Sockets,        \* names for connections, used again
    MaxFaults,      \* bound: ends of connections, stops of the forwarder, reloads
    ReloadsSpare    \* is the page never reloaded while it waits for Variational?

ASSUME SocketsAssumption == Sockets \subseteq Nat \ {0}
ASSUME BoundAssumption == MaxFaults \in Nat /\ ReloadsSpare \in BOOLEAN

VARIABLES
    caller,         \* request_place_order: where it is suspended
    future,         \* the future in _pending_futures, or what it was resolved with
    told,           \* what the runtime makes of the result
    extension,      \* _extension: a connection, or 0 for None
    link,           \* each connection, as far as the broker has brought it
    down,           \* the connection a command is on its way on, or 0
    up,             \* results on their way to the broker
    active,         \* the forwarder is attached to the page
    ws,             \* CommandSocket.ws, or 0 for null
    registered,     \* CommandSocket.registered
    exec,           \* placeVariationalOrder: the evaluation it awaits
    bridge,         \* the page has the order bridge
    expr,           \* the expression that Chrome has not yet run in the page
    fetch,          \* the page's request to Variational
    copies,         \* history: how often it was sent
    verdict,        \* Variational
    faults

brokerVars == <<caller, future, told, extension>>
clientVars == <<active, ws, registered>>
linkVars == <<link, down, up>>
pageVars == <<bridge, expr, fetch, copies>>
vars == <<brokerVars, linkVars, clientVars, exec, pageVars, verdict, faults>>

-----------------------------------------------------------------------------
Verdicts == {"accepted", "rejected"}
Outcomes == Verdicts \cup {"refused", "unknown"}

\* What the extension answers with: the page's HTTP status; a refusal before anything
\* was sent; an exception in the page; no value; its own timeout; an error of Chrome's.
Kinds == {"ok", "http", "bound", "execution", "empty", "overtime", "chrome"}
Stages == {"call", "install", "again", "fallback"}

\* Every variable has its type; who waits, waits for an extension that is registered.
TypeOK ==
    /\ caller \in [Commands -> {"idle", "waiting", "done"}]
    /\ future \in [Commands -> Outcomes \cup {"none", "pending"}]
    /\ told \in [Commands -> Outcomes \cup {"nothing"}]
    /\ {extension, ws} \subseteq Sockets \cup {0}
    /\ link \in [Sockets -> {"free", "registering", "accepted", "refused", "dropped"}]
    /\ down \in [Commands -> Sockets \cup {0}]
    /\ up \subseteq [sock : Sockets, command : Commands, kind : Kinds]
    /\ {active, registered, bridge} \subseteq BOOLEAN
    /\ exec \in [Commands -> Stages \cup {"none", "check", "torn", "ended"}]
    /\ expr \in [Commands -> Stages \cup {"none"}]
    /\ fetch \in [Commands -> {"none", "running", "over"}]
    /\ copies \in [Commands -> Nat]
    /\ verdict \in [Commands -> Verdicts \cup {"none"}]
    /\ faults \in 0..MaxFaults
    /\ \A c \in Commands :
          future[c] = "pending" => caller[c] = "waiting" /\ extension # 0

Init ==
    /\ caller = [c \in Commands |-> "idle"] /\ future = [c \in Commands |-> "none"]
    /\ told = [c \in Commands |-> "nothing"] /\ extension = 0
    /\ link = [s \in Sockets |-> "free"] /\ up = {}
    /\ down = [c \in Commands |-> 0] /\ expr = [c \in Commands |-> "none"]
    /\ active = TRUE /\ ws = 0 /\ registered = FALSE
    /\ exec = [c \in Commands |-> "none"] /\ bridge = FALSE
    /\ fetch = [c \in Commands |-> "none"] /\ copies = [c \in Commands |-> 0]
    /\ verdict = [c \in Commands |-> "none"] /\ faults = 0

Fault == faults < MaxFaults /\ faults' = faults + 1

-----------------------------------------------------------------------------
(* The runtime and its broker *)

\* var_result_is_ambiguous: the errors by whose text it is known that nothing is known.
\* Chrome's own errors are not among them.
AmbiguousTexts == {"execution", "empty", "overtime"}

Meaning(kind) ==
    CASE kind = "ok"                -> "accepted"
      [] kind = "http"              -> "rejected"
      [] kind \in AmbiguousTexts    -> "unknown"
      [] OTHER                      -> "refused"

Tell(c, what) ==
    /\ caller' = [caller EXCEPT ![c] = "done"]
    /\ told' = [told EXCEPT ![c] = what]
    /\ future' = [future EXCEPT ![c] = "none"]

RequestRefused(c) ==
    /\ caller[c] = "idle" /\ extension = 0
    /\ Tell(c, "refused")
    /\ UNCHANGED <<extension, linkVars, clientVars, exec, pageVars, verdict, faults>>

Request(c) ==
    /\ caller[c] = "idle" /\ extension # 0
    /\ caller' = [caller EXCEPT ![c] = "waiting"]
    /\ future' = [future EXCEPT ![c] = "pending"]
    /\ down' = [down EXCEPT ![c] = extension]
    /\ UNCHANGED <<told, extension, link, up, clientVars, exec, pageVars, verdict, faults>>

\* The send fails: the connection has ended and the broker does not know yet.
RequestUnsent(c) ==
    /\ caller[c] = "idle" /\ extension # 0 /\ ws # extension
    /\ Tell(c, "unknown")
    /\ UNCHANGED <<extension, linkVars, clientVars, exec, pageVars, verdict, faults>>

Returns(c) ==
    /\ caller[c] = "waiting" /\ future[c] \in Outcomes
    /\ Tell(c, future[c])
    /\ UNCHANGED <<extension, linkVars, clientVars, exec, pageVars, verdict, faults>>

\* The time is over, or the caller is cancelled.
GivesUp(c) ==
    /\ caller[c] = "waiting" /\ future[c] = "pending"
    /\ Tell(c, "unknown")
    /\ UNCHANGED <<extension, linkVars, clientVars, exec, pageVars, verdict, faults>>

\* _handle_register
Register(s) ==
    /\ link[s] = "registering"
    /\ IF extension = 0
         THEN extension' = s /\ link' = [link EXCEPT ![s] = "accepted"]
         ELSE UNCHANGED extension /\ link' = [link EXCEPT ![s] = "refused"]
    /\ UNCHANGED <<caller, future, told, down, up, clientVars, exec, pageVars, verdict,
                   faults>>

Authorized(s) == extension = s

\* _handle_order_result: a result that no one waits for, any more, is dropped.
Result(m) ==
    /\ m \in up /\ link[m.sock] \in {"accepted", "refused"}
    /\ up' = up \ {m}
    /\ future' = IF Authorized(m.sock) /\ future[m.command] = "pending"
                   THEN [future EXCEPT ![m.command] = Meaning(m.kind)] ELSE future
    /\ UNCHANGED <<caller, told, extension, link, down, clientVars, exec, pageVars, verdict,
                   faults>>

\* on_disconnect: all who wait for the extension are told that it is gone.
NotResolved(s) ==                                   \* mutant: they wait on
    /\ extension' = IF extension = s THEN 0 ELSE extension
    /\ UNCHANGED future
StaysRegistered(s) ==                               \* mutant: it is not forgotten
    /\ UNCHANGED extension
    /\ future' = [c \in Commands |-> IF extension = s /\ future[c] = "pending"
                                       THEN "unknown" ELSE future[c]]
OnDisconnect(s) ==
    /\ extension' = IF extension = s THEN 0 ELSE extension
    /\ future' = [c \in Commands |-> IF extension = s /\ future[c] = "pending"
                                       THEN "unknown" ELSE future[c]]

Without(messages, s) == {m \in messages : m.sock # s}

\* The connection has ended on the extension's side.
BrokerNotices(s) ==
    /\ link[s] # "free" /\ ws # s
    /\ OnDisconnect(s)
    /\ link' = [link EXCEPT ![s] = "free"]
    /\ down' = [c \in Commands |-> IF down[c] = s THEN 0 ELSE down[c]]
    /\ up' = Without(up, s)
    /\ UNCHANGED <<caller, told, clientVars, exec, pageVars, verdict, faults>>

\* It ends on the broker's side first: no answer to a ping, or an error.
BrokerDrops(s) ==
    /\ link[s] \in {"registering", "accepted", "refused"} /\ ws = s
    /\ Fault
    /\ OnDisconnect(s)
    /\ link' = [link EXCEPT ![s] = "dropped"]
    /\ up' = Without(up, s)
    /\ UNCHANGED <<caller, told, down, clientVars, exec, pageVars, verdict>>

-----------------------------------------------------------------------------
(* CommandSocket and the forwarder it belongs to *)

Connect(s) ==
    /\ active /\ ws = 0 /\ link[s] = "free"
    /\ ws' = s /\ link' = [link EXCEPT ![s] = "registering"]
    /\ UNCHANGED <<brokerVars, down, up, active, registered, exec, pageVars, verdict, faults>>

Acknowledged ==
    /\ ws # 0 /\ link[ws] = "accepted" /\ ~registered
    /\ registered' = TRUE
    /\ UNCHANGED <<brokerVars, linkVars, active, ws, exec, pageVars, verdict, faults>>

Leaves == ws' = 0 /\ registered' = FALSE

\* The registration is refused, or the broker has ended the connection: another one
\* is tried a second later.
Closed ==
    /\ ws # 0 /\ link[ws] \in {"refused", "dropped"}
    /\ Leaves
    /\ UNCHANGED <<brokerVars, linkVars, active, exec, pageVars, verdict, faults>>

Breaks ==
    /\ ws # 0 /\ Fault /\ Leaves
    /\ UNCHANGED <<brokerVars, linkVars, active, exec, pageVars, verdict>>

Awaiting(c) == exec[c] \in Stages

\* What awaits the page will be told by Chrome that it was cut off.
CutOff == exec' = [c \in Commands |-> IF Awaiting(c) THEN "torn" ELSE exec[c]]

\* cleanupForwardingState, and the debugger is detached; the page goes on.
Stops ==
    /\ active /\ Fault
    /\ active' = FALSE /\ Leaves /\ CutOff
    /\ UNCHANGED <<brokerVars, linkVars, pageVars, verdict>>

\* startForwarding; it also reloads the page (see Reload).
Starts ==
    /\ ~active /\ active' = TRUE
    /\ UNCHANGED <<brokerVars, linkVars, ws, registered, exec, pageVars, verdict, faults>>

Receive(c) ==
    /\ ws # 0 /\ registered /\ down[c] = ws
    /\ down' = [down EXCEPT ![c] = 0]
    /\ exec' = [exec EXCEPT ![c] = "check"]
    /\ UNCHANGED <<brokerVars, link, up, clientVars, pageVars, verdict, faults>>

-----------------------------------------------------------------------------
(* placeVariationalOrder and evaluatePageOrderBridge *)

\* The result goes out on the socket of the moment, or not at all.
Answer(c, kind) ==
    /\ exec' = [exec EXCEPT ![c] = "ended"]
    /\ up' = IF ws = 0 THEN up
             ELSE up \cup {[sock |-> ws, command |-> c, kind |-> kind]}

Await(c, stage) ==
    /\ exec' = [exec EXCEPT ![c] = stage]
    /\ expr' = [expr EXCEPT ![c] = stage]
    /\ UNCHANGED up

\* No page, another market, no template, no authorization
Rejects(c) ==
    /\ exec[c] = "check"
    /\ Answer(c, "bound")
    /\ UNCHANGED <<brokerVars, link, down, clientVars, pageVars, verdict, faults>>

Evaluate(c) ==
    /\ exec[c] = "check"
    /\ IF active THEN Await(c, "call") ELSE Answer(c, "chrome") /\ UNCHANGED expr
    /\ UNCHANGED <<brokerVars, link, down, clientVars, bridge, fetch, copies, verdict, faults>>

Overtime(c) ==
    /\ Awaiting(c)
    /\ Answer(c, "overtime")
    /\ UNCHANGED <<brokerVars, link, down, clientVars, pageVars, verdict, faults>>

\* "Detached while handling command", "Inspected target navigated or closed"
CutOffAnswered(c) ==
    /\ exec[c] = "torn"
    /\ Answer(c, "chrome")
    /\ UNCHANGED <<brokerVars, link, down, clientVars, pageVars, verdict, faults>>

-----------------------------------------------------------------------------
(* The page *)

Run(c) == expr' = [expr EXCEPT ![c] = "none"]

\* An expression is run whether or not its evaluation is still awaited; only if it is
\* does what it returned lead to the next one.
NextStage(c, from, to) ==
    /\ expr[c] = from
    /\ \/ exec[c] = from /\ Await(c, to)
       \/ exec[c] # from /\ Run(c) /\ UNCHANGED <<exec, up>>

\* The bridge is not there: it is installed once, and after that not tried again.
BridgeMissing(c) ==
    /\ ~bridge
    /\ NextStage(c, "call", "install") \/ NextStage(c, "again", "fallback")
    /\ UNCHANGED <<brokerVars, link, down, clientVars, bridge, fetch, copies, verdict, faults>>

Installs(c) ==
    /\ \/ bridge' = TRUE /\ NextStage(c, "install", "again")
       \/ UNCHANGED bridge /\ NextStage(c, "install", "fallback")
    /\ UNCHANGED <<brokerVars, link, down, clientVars, fetch, copies, verdict, faults>>

Executes(c) ==
    /\ expr[c] = "fallback" \/ (bridge /\ expr[c] \in {"call", "again"})
    /\ Run(c)

\* pageFetchOrder sends the order ...
Fetches(c) ==
    /\ Executes(c)
    /\ fetch' = [fetch EXCEPT ![c] = "running"]
    /\ copies' = [copies EXCEPT ![c] = @ + 1]
    /\ UNCHANGED <<brokerVars, linkVars, clientVars, exec, bridge, verdict, faults>>

\* ... or finds the template or the Firm Quote incomplete.
PageRejects(c) ==
    /\ Executes(c)
    /\ IF exec[c] = expr[c] THEN Answer(c, "bound") ELSE UNCHANGED <<exec, up>>
    /\ UNCHANGED <<brokerVars, link, down, clientVars, bridge, fetch, copies, verdict, faults>>

Settles(c) == fetch' = [fetch EXCEPT ![c] = "over"]

FetchAnswered(c) ==
    /\ fetch[c] = "running" /\ verdict[c] # "none"
    /\ Settles(c)
    /\ IF Awaiting(c) THEN Answer(c, IF verdict[c] = "accepted" THEN "ok" ELSE "http")
                      ELSE UNCHANGED <<exec, up>>
    /\ UNCHANGED <<brokerVars, link, down, clientVars, bridge, expr, copies, verdict, faults>>

\* The request is aborted or fails; "never replay a possible Commit through the page
\* fallback" (background.js:2208).
Replay(c) ==                                        \* mutant: it is replayed
    IF Awaiting(c)
    THEN Await(c, "fallback")
    ELSE UNCHANGED <<exec, up, expr>>
AfterException(c) ==
    /\ IF Awaiting(c) THEN \E kind \in {"execution", "empty"} : Answer(c, kind)
                      ELSE UNCHANGED <<exec, up>>
    /\ UNCHANGED expr

FetchFails(c) ==
    /\ fetch[c] = "running"
    /\ Settles(c) /\ AfterException(c)
    /\ UNCHANGED <<brokerVars, link, down, clientVars, bridge, copies, verdict, faults>>

\* The page is loaded anew: by the runtime, the forwarder when it starts, or a user.
Reload ==
    /\ Fault
    /\ ReloadsSpare => \A c \in Commands : ~(Awaiting(c) /\ fetch[c] = "running")
    /\ bridge' = FALSE /\ expr' = [c \in Commands |-> "none"] /\ CutOff
    /\ fetch' = [c \in Commands |-> IF fetch[c] = "running" THEN "over" ELSE fetch[c]]
    /\ UNCHANGED <<brokerVars, linkVars, clientVars, copies, verdict>>

\* Variational decides what it has received, answered or not.  An HTTP error is taken
\* to say that nothing was executed.
Decides(c) ==
    /\ copies[c] > 0 /\ verdict[c] = "none"
    /\ \E v \in Verdicts : verdict' = [verdict EXCEPT ![c] = v]
    /\ UNCHANGED <<brokerVars, linkVars, clientVars, exec, pageVars, faults>>

-----------------------------------------------------------------------------
Runtime(c) == RequestRefused(c) \/ Request(c) \/ RequestUnsent(c) \/ Returns(c) \/ GivesUp(c)
Extension(c) == \/ Receive(c) \/ Rejects(c) \/ Evaluate(c) \/ Overtime(c) \/ CutOffAnswered(c)
Page(c) ==
    \/ BridgeMissing(c) \/ Installs(c) \/ Fetches(c) \/ PageRejects(c)
    \/ FetchAnswered(c) \/ FetchFails(c) \/ Decides(c)
Broker(s) == Register(s) \/ BrokerNotices(s) \/ BrokerDrops(s)

Next ==
    \/ \E c \in Commands : Runtime(c) \/ Extension(c) \/ Page(c)
    \/ \E s \in Sockets : Broker(s) \/ Connect(s)
    \/ \E m \in up : Result(m)
    \/ Acknowledged \/ Closed \/ Breaks \/ Stops \/ Starts \/ Reload

Spec == Init /\ [][Next]_vars

\* Registrations are handled and answered, ends of connections are noticed (there are
\* pings), and a socket that was closed is opened again a second later.
FairSpec ==
    /\ Spec
    /\ \A s \in Sockets : WF_vars(Register(s)) /\ WF_vars(BrokerNotices(s))
    /\ WF_vars(\E s \in Sockets : Connect(s))
    /\ WF_vars(Acknowledged) /\ WF_vars(Closed)

-----------------------------------------------------------------------------
(* Properties *)

Promise == INSTANCE Submission WITH Orders <- Commands

\* However connections end and are made, and the page loses its bridge: a Commit is sent
\* to Variational at most once; one that is told to be refused has not been sent, and will
\* not be; and one that is told to be accepted or rejected was, by Variational.
CommitIsHonest == Promise!Spec

\* While the forwarder runs, the broker and the extension come to agree on a connection,
\* although a new one is refused while the broker still believes in the old one.
ChannelHeals == []<>(~active \/ (ws # 0 /\ registered /\ extension = ws))
=============================================================================
