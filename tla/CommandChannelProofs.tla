------------------------ MODULE CommandChannelProofs ------------------------
(***************************************************************************)
(* For any number of Commits, connections and faults: the channel keeps    *)
(* its types; a Commit is sent to Variational at most once, and a verdict  *)
(* that is told is Variational's; and, where the page is not reloaded      *)
(* while it waits for Variational, the channel implements Submission.      *)
(***************************************************************************)
EXTENDS CommandChannel, TLAPS

(* The inductive invariant, in the parts that the steps disturb together. *)

\* The registered extension's connection is one the broker has accepted, and a
\* forwarder that is not attached has none.
Linked ==
    /\ extension # 0 => link[extension] = "accepted"
    /\ ~active => ws = 0

\* What has not begun: a command not yet requested, or not yet received.
Begun ==
    \A c \in Commands :
        /\ caller[c] = "idle" => exec[c] = "none" /\ down[c] = 0 /\ future[c] = "none"
        /\ caller[c] # "done" => told[c] = "nothing"
        /\ down[c] # 0 => exec[c] = "none"

\* A Commit is sent once: an expression that Chrome has still to run finds it not sent,
\* and an evaluation that is awaited is that expression, or the request it has made.
Once ==
    \A c \in Commands :
        /\ copies[c] \in {0, 1}
        /\ copies[c] = 0 => verdict[c] = "none"
        /\ expr[c] # "none" => copies[c] = 0
        /\ fetch[c] = "running" => copies[c] = 1
        /\ exec[c] \in {"none", "check"} => expr[c] = "none" /\ copies[c] = 0
        /\ Awaiting(c) => expr[c] = exec[c] \/ fetch[c] = "running"

\* A result is the last thing the extension does, and a verdict on its way to the caller,
\* and with it, is Variational's.
Truthful ==
    /\ \A m \in up : /\ exec[m.command] = "ended"
                     /\ m.kind = "ok" => verdict[m.command] = "accepted"
                     /\ m.kind = "http" => verdict[m.command] = "rejected"
    /\ \A c \in Commands : /\ future[c] \in Verdicts => verdict[c] = future[c]
                           /\ told[c] \in Verdicts => verdict[c] = told[c]

\* The Commit was not sent and cannot be any more.
Sealed(c) ==
    /\ copies[c] = 0 /\ expr[c] = "none" /\ down[c] = 0
    /\ exec[c] \in {"none", "torn", "ended"} /\ caller[c] # "idle"

\* What comes by connection s does not reach the caller of c.
CutFrom(c, s) == future[c] = "pending" => s # extension

\* A refusal is told only of a Commit that is sealed.  Chrome's error about one that is not
\* finds its caller answered, or comes by another connection than the registered one.
Honest ==
    /\ \A c \in Commands : /\ future[c] = "refused" => Sealed(c)
                           /\ told[c] = "refused" => Sealed(c)
                           /\ exec[c] = "torn" => Sealed(c) \/ CutFrom(c, ws)
    /\ \A m \in up : /\ m.kind = "bound" => Sealed(m.command)
                     /\ m.kind = "chrome" => Sealed(m.command) \/ CutFrom(m.command, m.sock)

SInv == TypeOK /\ Linked /\ Begun /\ Once /\ Truthful

-----------------------------------------------------------------------------
(* The parts, one after the other *)

\* The ends of a connection resolve only with outcomes and unregister only it.
LEMMA DisconnectTypes ==
    ASSUME TypeOK, NEW s \in Sockets, OnDisconnect(s)
    PROVE  /\ future' \in [Commands -> Outcomes \cup {"none", "pending"}]
           /\ extension' \in Sockets \cup {0}
           /\ \A c \in Commands : future'[c] = "pending" => /\ future[c] = "pending"
                                                            /\ extension' = extension
  BY DEF TypeOK, OnDisconnect, Outcomes, Verdicts

\* An answer has its type, and so has what follows an awaited evaluation.
LEMMA AnswerTypes ==
    ASSUME TypeOK, NEW c \in Commands, NEW kind \in Kinds, Answer(c, kind)
    PROVE  /\ exec' \in [Commands -> Stages \cup {"none", "check", "torn", "ended"}]
           /\ up' \subseteq [sock : Sockets, command : Commands, kind : Kinds]
<1>1. ws # 0 => [sock |-> ws, command |-> c, kind |-> kind]
                   \in [sock : Sockets, command : Commands, kind : Kinds]
  BY DEF TypeOK
<1>2. QED
  BY <1>1 DEF TypeOK, Answer

LEMMA AwaitTypes ==
    ASSUME TypeOK, NEW c \in Commands, NEW stage \in Stages, Await(c, stage)
    PROVE  /\ exec' \in [Commands -> Stages \cup {"none", "check", "torn", "ended"}]
           /\ expr' \in [Commands -> Stages \cup {"none"}]
           /\ up' = up
  BY DEF TypeOK, Await

LEMMA NextStageTypes ==
    ASSUME TypeOK, NEW c \in Commands, NEW from \in Stages, NEW to \in Stages,
           NextStage(c, from, to)
    PROVE  /\ exec' \in [Commands -> Stages \cup {"none", "check", "torn", "ended"}]
           /\ expr' \in [Commands -> Stages \cup {"none"}]
           /\ up' = up
  BY AwaitTypes DEF TypeOK, NextStage, Run

\* Every step keeps the types, and whoever waits still waits for a registered extension.
LEMMA NextTypes == TypeOK /\ [Next]_vars => TypeOK'
<1> SUFFICES ASSUME TypeOK, [Next]_vars PROVE TypeOK'
  OBVIOUS
<1> USE DEF brokerVars, clientVars, linkVars, pageVars
<1>1. ASSUME NEW c \in Commands, Runtime(c) PROVE TypeOK'
  <2>1. Tell(c, "refused") \/ Tell(c, "unknown") \/ Tell(c, future[c])
        => /\ caller' \in [Commands -> {"idle", "waiting", "done"}]
           /\ future' \in [Commands -> Outcomes \cup {"none", "pending"}]
           /\ \A d \in Commands : future'[d] = "pending" => /\ future[d] = "pending"
                                                            /\ caller'[d] = caller[d]
    BY DEF Tell, TypeOK
  <2>2. future[c] \in Outcomes \/ ~Tell(c, future[c])
        => (Tell(c, "refused") \/ Tell(c, "unknown") \/ Tell(c, future[c])
              => told' \in [Commands -> Outcomes \cup {"nothing"}])
    BY DEF Tell, TypeOK, Outcomes
  <2>3. CASE RequestRefused(c)
    BY <2>1, <2>2, <2>3 DEF RequestRefused, TypeOK, Tell, Outcomes
  <2>4. CASE RequestUnsent(c)
    BY <2>1, <2>4 DEF RequestUnsent, TypeOK, Tell, Outcomes
  <2>5. CASE Returns(c)
    BY <2>1, <2>5 DEF Returns, TypeOK, Tell
  <2>6. CASE GivesUp(c)
    BY <2>1, <2>6 DEF GivesUp, TypeOK, Tell, Outcomes
  <2>7. CASE Request(c)
    BY <2>7 DEF Request, TypeOK
  <2>8. QED
    BY <1>1, <2>3, <2>4, <2>5, <2>6, <2>7 DEF Runtime
<1>2. ASSUME NEW c \in Commands, Extension(c) PROVE TypeOK'
  <2>1. {"bound", "chrome", "overtime"} \subseteq Kinds /\ "call" \in Stages
    BY DEF Kinds, Stages
  <2>2. CASE Receive(c)
    BY <2>2 DEF Receive, TypeOK
  <2>3. CASE Rejects(c)
    BY <2>1, <2>3, AnswerTypes DEF Rejects, TypeOK
  <2>4. CASE Evaluate(c)
    <3>1. CASE active
      BY <2>1, <2>4, <3>1, AwaitTypes DEF Evaluate, TypeOK
    <3>2. CASE ~active
      BY <2>1, <2>4, <3>2, AnswerTypes DEF Evaluate, TypeOK
    <3>3. QED
      BY <3>1, <3>2
  <2>5. CASE Overtime(c)
    BY <2>1, <2>5, AnswerTypes DEF Overtime, TypeOK
  <2>6. CASE CutOffAnswered(c)
    BY <2>1, <2>6, AnswerTypes DEF CutOffAnswered, TypeOK
  <2>7. QED
    BY <1>2, <2>2, <2>3, <2>4, <2>5, <2>6 DEF Extension
<1>3. ASSUME NEW c \in Commands, Page(c) PROVE TypeOK'
  <2>1. /\ {"bound", "ok", "http", "execution", "empty"} \subseteq Kinds
        /\ {"call", "install", "again", "fallback"} \subseteq Stages
    BY DEF Kinds, Stages
  <2>2. CASE BridgeMissing(c)
    BY <2>1, <2>2, NextStageTypes DEF BridgeMissing, TypeOK
  <2>3. CASE Installs(c)
    BY <2>1, <2>3, NextStageTypes DEF Installs, TypeOK
  <2>4. CASE Fetches(c)
    BY <2>4 DEF Fetches, Executes, Run, TypeOK
  <2>5. CASE PageRejects(c)
    BY <2>1, <2>5, AnswerTypes DEF PageRejects, Executes, Run, TypeOK
  <2>6. CASE FetchAnswered(c)
    BY <2>1, <2>6, AnswerTypes DEF FetchAnswered, Settles, TypeOK
  <2>7. CASE FetchFails(c)
    BY <2>1, <2>7, AnswerTypes DEF FetchFails, AfterException, Settles, TypeOK
  <2>8. CASE Decides(c)
    BY <2>8 DEF Decides, TypeOK
  <2>9. QED
    BY <1>3, <2>2, <2>3, <2>4, <2>5, <2>6, <2>7, <2>8 DEF Page
<1>4. ASSUME NEW s \in Sockets, Broker(s) \/ Connect(s) PROVE TypeOK'
  <2>1. CASE Register(s)
    BY <2>1, SocketsAssumption DEF Register, TypeOK
  <2>2. CASE BrokerNotices(s)
    BY <2>2, DisconnectTypes DEF BrokerNotices, Without, TypeOK
  <2>3. CASE BrokerDrops(s)
    BY <2>3, DisconnectTypes, BoundAssumption DEF BrokerDrops, Without, Fault, TypeOK
  <2>4. CASE Connect(s)
    BY <2>4 DEF Connect, TypeOK
  <2>5. QED
    BY <1>4, <2>1, <2>2, <2>3, <2>4 DEF Broker
<1>5. ASSUME NEW m \in up, Result(m) PROVE TypeOK'
  <2>1. Meaning(m.kind) \in Outcomes
    BY DEF Meaning, Outcomes, Verdicts
  <2>2. m.command \in Commands
    BY DEF TypeOK
  <2>3. QED
    BY <1>5, <2>1, <2>2 DEF Result, Outcomes, Verdicts, TypeOK
<1>6. CASE Acknowledged
  BY <1>6 DEF Acknowledged, TypeOK
<1>7. CASE Closed \/ Breaks
  <2>1. {active', registered', bridge'} \subseteq BOOLEAN
    BY <1>7 DEF Closed, Breaks, Leaves, TypeOK
  <2>2. QED
    BY <1>7, <2>1, BoundAssumption DEF Closed, Breaks, Leaves, Fault, TypeOK
<1>8. CASE Stops
  <2>1. {active', registered', bridge'} \subseteq BOOLEAN
    BY <1>8 DEF Stops, Leaves, TypeOK
  <2>2. QED
    BY <1>8, <2>1, BoundAssumption DEF Stops, Leaves, CutOff, Fault, TypeOK
<1>9. CASE Reload
  <2>1. faults' \in 0..MaxFaults
    BY <1>9, BoundAssumption DEF Reload, Fault, TypeOK
  <2>2. QED
    BY <1>9, <2>1 DEF Reload, CutOff, TypeOK
<1>10. CASE Starts \/ UNCHANGED vars
  <2>1. {active', registered', bridge'} \subseteq BOOLEAN
    BY <1>10 DEF Starts, vars, TypeOK
  <2>2. QED
    BY <1>10, <2>1 DEF Starts, vars, TypeOK
<1>11. QED
  BY <1>1, <1>2, <1>3, <1>4, <1>5, <1>6, <1>7, <1>8, <1>9, <1>10 DEF Next

\* Registering takes an accepted connection; what ends one also unregisters it.
LEMMA NextLinked == TypeOK /\ Linked /\ [Next]_vars => Linked'
<1> SUFFICES ASSUME TypeOK, Linked, [Next]_vars PROVE Linked'
  OBVIOUS
<1> USE DEF brokerVars, clientVars, linkVars, pageVars
<1>1. ASSUME UNCHANGED <<extension, link, active, ws>> PROVE Linked'
  BY <1>1 DEF Linked
<1>3. ASSUME NEW c \in Commands, Runtime(c) \/ Extension(c) \/ Page(c) PROVE Linked'
  <2>1. CASE Runtime(c)
    BY <1>1, <2>1 DEF Runtime, RequestRefused, RequestUnsent, Request, Returns, GivesUp,
       Tell
  <2>2. CASE Extension(c)
    BY <1>1, <2>2 DEF Extension, Receive, Rejects, Evaluate, Overtime, CutOffAnswered
  <2>3. CASE Page(c)
    BY <1>1, <2>3 DEF Page, BridgeMissing, Installs, Fetches, PageRejects, FetchAnswered,
       FetchFails, Decides
  <2>4. QED
    BY <1>3, <2>1, <2>2, <2>3
<1>4. ASSUME NEW s \in Sockets, Register(s) PROVE Linked'
  BY <1>4 DEF Register, Linked, TypeOK
<1>5. ASSUME NEW s \in Sockets, BrokerNotices(s) \/ BrokerDrops(s) PROVE Linked'
  <2>1. extension' # 0 => extension' = extension /\ extension # s
    BY <1>5, SocketsAssumption DEF BrokerNotices, BrokerDrops, OnDisconnect
  <2>2. \A t \in Sockets : t # s => link'[t] = link[t]
    BY <1>5 DEF BrokerNotices, BrokerDrops, TypeOK
  <2>3. active' = active /\ ws' = ws
    BY <1>5 DEF BrokerNotices, BrokerDrops
  <2>4. QED
    BY <2>1, <2>2, <2>3 DEF Linked, TypeOK
<1>6. ASSUME NEW s \in Sockets, Connect(s) PROVE Linked'
  BY <1>6 DEF Connect, Linked, TypeOK
<1>7. CASE Closed \/ Breaks
  BY <1>7 DEF Closed, Breaks, Leaves, Linked
<1>8. CASE Stops \/ Starts
  BY <1>8 DEF Stops, Starts, Leaves, Linked
<1>9. CASE (\E m \in up : Result(m)) \/ Acknowledged \/ Reload \/ UNCHANGED vars
  BY <1>1, <1>9 DEF Result, Acknowledged, Reload, vars
<1>10. QED
  BY <1>3, <1>4, <1>5, <1>6, <1>7, <1>8, <1>9 DEF Next, Broker

\* A command is received once, and by then it has been requested.
LEMMA NextBegun == TypeOK /\ Begun /\ [Next]_vars => Begun'
<1> SUFFICES ASSUME TypeOK, Begun, [Next]_vars PROVE Begun'
  OBVIOUS
<1> USE DEF brokerVars, clientVars, linkVars, pageVars
<1> DEFINE Kept == \A d \in Commands : /\ exec[d] = "none" => exec'[d] = "none"
                                       /\ down'[d] \in {down[d], 0}
                                       /\ future[d] = "none" => future'[d] = "none"
<1>1. ASSUME UNCHANGED <<caller, told>>, Kept PROVE Begun'
  BY <1>1 DEF Begun
<1>2. ASSUME NEW c \in Commands, Runtime(c) PROVE Begun'
  <2>1. ASSUME NEW what, Tell(c, what), UNCHANGED <<exec, down>> PROVE Begun'
    BY <2>1 DEF Tell, Begun, TypeOK
  <2>2. CASE Request(c)
    BY <2>2 DEF Request, Begun, TypeOK
  <2>3. QED
    BY <1>2, <2>1, <2>2 DEF Runtime, RequestRefused, RequestUnsent, Returns, GivesUp
<1>3. ASSUME NEW c \in Commands, Receive(c) PROVE Begun'
  BY <1>3 DEF Receive, Begun, TypeOK
<1>4. ASSUME NEW c \in Commands, NEW kind, Answer(c, kind) \/ Await(c, kind), exec[c] # "none",
             UNCHANGED <<caller, told, down, future>>
      PROVE  Begun'
  BY <1>1, <1>4 DEF Answer, Await, TypeOK
<1>5. ASSUME UNCHANGED <<caller, told, down, future, exec>> PROVE Begun'
  BY <1>1, <1>5
<1>6. ASSUME NEW c \in Commands, Extension(c) PROVE Begun'
  BY <1>3, <1>4, <1>6 DEF Extension, Rejects, Evaluate, Overtime, CutOffAnswered, Awaiting,
     Stages
<1>7. ASSUME NEW c \in Commands, NEW from \in Stages, NEW to, NextStage(c, from, to),
             UNCHANGED <<caller, told, down, future>>
      PROVE  Begun'
  BY <1>4, <1>5, <1>7 DEF NextStage, Stages
<1>8. ASSUME NEW c \in Commands, Page(c) PROVE Begun'
  <2>1. CASE BridgeMissing(c) \/ Installs(c)
    BY <1>7, <2>1 DEF BridgeMissing, Installs, Stages
  <2>2. CASE PageRejects(c)
    <3>1. expr[c] # "none"
      BY <2>2 DEF PageRejects, Executes
    <3>2. QED
      BY <1>4, <1>5, <2>2, <3>1 DEF PageRejects
  <2>3. CASE FetchAnswered(c) \/ FetchFails(c)
    BY <1>4, <1>5, <2>3 DEF FetchAnswered, FetchFails, AfterException, Awaiting, Stages
  <2>4. CASE Fetches(c) \/ Decides(c)
    BY <1>5, <2>4 DEF Fetches, Decides
  <2>5. QED
    BY <1>8, <2>1, <2>2, <2>3, <2>4 DEF Page
<1>9. ASSUME NEW s \in Sockets, BrokerNotices(s) \/ BrokerDrops(s) PROVE Begun'
  BY <1>1, <1>9 DEF BrokerNotices, BrokerDrops, OnDisconnect, TypeOK
<1>10. ASSUME NEW s \in Sockets, Register(s) \/ Connect(s) PROVE Begun'
  BY <1>5, <1>10 DEF Register, Connect
<1>11. ASSUME NEW m \in up, Result(m) PROVE Begun'
  <2>1. m.command \in Commands
    BY DEF TypeOK
  <2>2. QED
    BY <1>1, <1>11, <2>1 DEF Result, TypeOK
<1>12. CASE Stops \/ Reload
  BY <1>1, <1>12 DEF Stops, Reload, CutOff, Awaiting, Stages, TypeOK
<1>13. CASE Acknowledged \/ Closed \/ Breaks \/ Starts \/ UNCHANGED vars
  BY <1>5, <1>13 DEF Acknowledged, Closed, Breaks, Starts, vars
<1>14. QED
  BY <1>2, <1>6, <1>8, <1>9, <1>10, <1>11, <1>12, <1>13 DEF Next, Broker

\* No step of the page, of Chrome or of the extension can send a Commit again.
LEMMA NextOnce == TypeOK /\ Begun /\ Once /\ [Next]_vars => Once'
<1> SUFFICES ASSUME TypeOK, Begun, Once, [Next]_vars PROVE Once'
  OBVIOUS
<1> USE DEF brokerVars, clientVars, linkVars, pageVars, Awaiting, Stages
<1>1. ASSUME UNCHANGED <<exec, expr, fetch, copies, verdict>> PROVE Once'
  BY <1>1 DEF Once
<1>2. ASSUME NEW c \in Commands, NEW kind, Answer(c, kind),
             UNCHANGED <<expr, fetch, copies, verdict>>
      PROVE  Once'
  BY <1>2 DEF Answer, Once, TypeOK
<1>3. ASSUME NEW c \in Commands, Receive(c) PROVE Once'
  <2>1. exec[c] = "none"
    BY <1>3 DEF Receive, Begun, TypeOK
  <2>2. QED
    BY <1>3, <2>1 DEF Receive, Once, TypeOK
<1>4. ASSUME NEW c \in Commands, NEW stage \in Stages, Await(c, stage), copies[c] = 0,
             UNCHANGED <<fetch, copies, verdict>>
      PROVE  Once'
  BY <1>4 DEF Await, Once, TypeOK
<1>5. ASSUME NEW c \in Commands, Extension(c) PROVE Once'
  <2>1. CASE Evaluate(c)
    BY <1>2, <1>4, <2>1 DEF Evaluate, Once
  <2>2. CASE Rejects(c) \/ Overtime(c) \/ CutOffAnswered(c)
    BY <1>2, <2>2 DEF Rejects, Overtime, CutOffAnswered
  <2>3. QED
    BY <1>3, <1>5, <2>1, <2>2 DEF Extension
<1>6. ASSUME NEW c \in Commands, NEW from \in Stages, NEW to \in Stages,
             NextStage(c, from, to), UNCHANGED <<fetch, copies, verdict>>
      PROVE  Once'
  <2>1. copies[c] = 0
    BY <1>6 DEF NextStage, Once
  <2>2. CASE exec[c] = from /\ Await(c, to)
    BY <1>4, <1>6, <2>1, <2>2
  <2>3. CASE exec[c] # from /\ Run(c) /\ UNCHANGED <<exec, up>>
    BY <1>6, <2>1, <2>3 DEF NextStage, Run, Once, TypeOK
  <2>4. QED
    BY <1>6, <2>2, <2>3 DEF NextStage
<1>7. ASSUME NEW c \in Commands, Fetches(c) PROVE Once'
  <2>1. expr[c] \in Stages /\ copies[c] = 0 /\ exec[c] \notin {"none", "check"}
    BY <1>7 DEF Fetches, Executes, Once
  <2>2. QED
    BY <1>7, <2>1 DEF Fetches, Executes, Run, Once, TypeOK
<1>8. ASSUME NEW c \in Commands, PageRejects(c) PROVE Once'
  <2>1. expr[c] \in Stages /\ copies[c] = 0 /\ exec[c] \notin {"none", "check"}
    BY <1>8 DEF PageRejects, Executes, Once
  <2>2. exec'[c] \in {exec[c], "ended"} /\ (exec'[c] = exec[c] => ~Awaiting(c))
    BY <1>8, <2>1 DEF PageRejects, Answer, Once, TypeOK
  <2>3. \A d \in Commands : d # c => exec'[d] = exec[d] /\ expr'[d] = expr[d]
    BY <1>8 DEF PageRejects, Executes, Run, Answer, TypeOK
  <2>4. expr'[c] = "none" /\ UNCHANGED <<fetch, copies, verdict>>
    BY <1>8 DEF PageRejects, Executes, Run, TypeOK
  <2>5. QED
    BY <2>1, <2>2, <2>3, <2>4 DEF Once
<1>9. ASSUME NEW c \in Commands, FetchAnswered(c) \/ FetchFails(c) PROVE Once'
  <2>1. fetch[c] = "running" /\ copies[c] = 1 /\ expr[c] = "none"
    BY <1>9 DEF FetchAnswered, FetchFails, Once, TypeOK
  <2>2. /\ exec'[c] \in {exec[c], "ended"} /\ (exec'[c] = exec[c] => ~Awaiting(c))
        /\ \A d \in Commands : d # c => exec'[d] = exec[d]
    BY <1>9 DEF FetchAnswered, FetchFails, AfterException, Answer, TypeOK
  <2>3. UNCHANGED <<expr, copies, verdict>> /\ fetch' = [fetch EXCEPT ![c] = "over"]
    BY <1>9 DEF FetchAnswered, FetchFails, AfterException, Settles
  <2>4. QED
    BY <2>1, <2>2, <2>3 DEF Once, TypeOK
<1>10. ASSUME NEW c \in Commands, Decides(c) PROVE Once'
  BY <1>10 DEF Decides, Once, TypeOK
<1>11. ASSUME NEW c \in Commands, BridgeMissing(c) \/ Installs(c) PROVE Once'
  BY <1>6, <1>11 DEF BridgeMissing, Installs
<1>12. ASSUME NEW c \in Commands, Runtime(c) PROVE Once'
  BY <1>1, <1>12 DEF Runtime, RequestRefused, Request, RequestUnsent, Returns, GivesUp
<1>13. ASSUME NEW s \in Sockets, Broker(s) \/ Connect(s) PROVE Once'
  BY <1>1, <1>13 DEF Broker, Register, BrokerNotices, BrokerDrops, Connect
<1>14. CASE Stops
  BY <1>14 DEF Stops, CutOff, Once, TypeOK
<1>15. CASE Reload
  BY <1>15 DEF Reload, CutOff, Once, TypeOK
<1>16. CASE (\E m \in up : Result(m)) \/ Acknowledged \/ Closed \/ Breaks \/ Starts
            \/ UNCHANGED vars
  BY <1>1, <1>16 DEF Result, Acknowledged, Closed, Breaks, Starts, vars
<1>17. QED
  BY <1>5, <1>7, <1>8, <1>9, <1>10, <1>11, <1>12, <1>13, <1>14, <1>15, <1>16
     DEF Next, Page

\* What the page, the extension, the broker and the runtime hand on is Variational's verdict.
LEMMA NextTruthful ==
    TypeOK /\ Begun /\ Once /\ Truthful /\ [Next]_vars => Truthful'
<1> SUFFICES ASSUME TypeOK, Begun, Once, Truthful, [Next]_vars PROVE Truthful'
  OBVIOUS
<1> USE DEF brokerVars, clientVars, linkVars, pageVars, Awaiting, Stages
<1> DEFINE Stay == \A d \in Commands :
                      /\ exec[d] = "ended" => exec'[d] = "ended"
                      /\ verdict[d] # "none" => verdict'[d] = verdict[d]
           Heard == \A d \in Commands : future'[d] \in {future[d], "none", "unknown", "pending"}
<1>1. ASSUME up' \subseteq up, Stay, Heard, told' = told PROVE Truthful'
  BY <1>1 DEF Truthful, Verdicts, TypeOK
<1>2. ASSUME NEW c \in Commands, NEW what, Tell(c, what), UNCHANGED <<up, exec, verdict>>,
             what \in Verdicts => verdict[c] = what
      PROVE  Truthful'
  BY <1>2 DEF Tell, Truthful, Verdicts, TypeOK
<1>3. ASSUME NEW c \in Commands, NEW kind \in Kinds, Answer(c, kind),
             UNCHANGED <<future, told, verdict>>,
             kind = "ok" => verdict[c] = "accepted",
             kind = "http" => verdict[c] = "rejected"
      PROVE  Truthful'
  <2>1. Stay /\ exec'[c] = "ended"
    BY <1>3 DEF Answer, TypeOK
  <2>2. \A m \in up' : m \in up \/ (m.command = c /\ m.kind = kind)
    BY <1>3 DEF Answer
  <2>3. QED
    BY <1>3, <2>1, <2>2 DEF Truthful, TypeOK
<1>4. ASSUME UNCHANGED <<up, future, told, verdict, exec>> PROVE Truthful'
  BY <1>4 DEF Truthful
<1>5. ASSUME NEW c \in Commands, NEW stage \in Stages, Await(c, stage), exec[c] # "ended",
             UNCHANGED <<future, told, verdict>>
      PROVE  Truthful'
  BY <1>1, <1>5 DEF Await, TypeOK
<1>6. ASSUME NEW c \in Commands, Runtime(c) PROVE Truthful'
  <2>1. CASE Request(c)
    BY <1>1, <2>1 DEF Request, TypeOK
  <2>2. CASE RequestRefused(c) \/ RequestUnsent(c) \/ GivesUp(c)
    BY <1>2, <2>2 DEF RequestRefused, RequestUnsent, GivesUp, Verdicts
  <2>3. CASE Returns(c)
    BY <1>2, <2>3 DEF Returns, Truthful
  <2>4. QED
    BY <1>6, <2>1, <2>2, <2>3 DEF Runtime
<1>7. ASSUME NEW c \in Commands, Extension(c) PROVE Truthful'
  <2>1. CASE Receive(c)
    <3>1. exec[c] = "none"
      BY <2>1 DEF Receive, Begun, TypeOK
    <3>2. QED
      BY <1>1, <2>1, <3>1 DEF Receive, TypeOK
  <2>2. CASE Evaluate(c)
    BY <1>3, <1>5, <2>2 DEF Evaluate, Kinds
  <2>3. CASE Rejects(c) \/ Overtime(c) \/ CutOffAnswered(c)
    BY <1>3, <2>3 DEF Rejects, Overtime, CutOffAnswered, Kinds
  <2>4. QED
    BY <1>7, <2>1, <2>2, <2>3 DEF Extension
<1>8. ASSUME NEW c \in Commands, NEW from \in Stages, NEW to \in Stages,
             NextStage(c, from, to), UNCHANGED <<future, told, verdict>>
      PROVE  Truthful'
  BY <1>4, <1>5, <1>8 DEF NextStage
<1>9. ASSUME NEW c \in Commands, Page(c) PROVE Truthful'
  <2>1. CASE BridgeMissing(c) \/ Installs(c)
    BY <1>8, <2>1 DEF BridgeMissing, Installs
  <2>2. CASE Fetches(c)
    BY <1>4, <2>2 DEF Fetches
  <2>3. CASE PageRejects(c)
    BY <1>3, <1>4, <2>3 DEF PageRejects, Kinds
  <2>4. CASE FetchAnswered(c)
    <3>1. verdict[c] \in {"accepted", "rejected"}
      BY <2>4 DEF FetchAnswered, Verdicts, TypeOK
    <3>2. QED
      BY <1>3, <1>4, <2>4, <3>1 DEF FetchAnswered, Kinds
  <2>5. CASE FetchFails(c)
    BY <1>3, <1>4, <2>5 DEF FetchFails, AfterException, Kinds
  <2>6. CASE Decides(c)
    BY <1>1, <2>6 DEF Decides, TypeOK
  <2>7. QED
    BY <1>9, <2>1, <2>2, <2>3, <2>4, <2>5, <2>6 DEF Page
<1>10. ASSUME NEW s \in Sockets, BrokerNotices(s) \/ BrokerDrops(s) PROVE Truthful'
  <2>1. Heard
    BY <1>10 DEF BrokerNotices, BrokerDrops, OnDisconnect, TypeOK
  <2>2. QED
    BY <1>1, <1>10, <2>1 DEF BrokerNotices, BrokerDrops, Without
<1>11. ASSUME NEW s \in Sockets, Register(s) \/ Connect(s) PROVE Truthful'
  BY <1>4, <1>11 DEF Register, Connect
<1>12. ASSUME NEW m \in up, Result(m) PROVE Truthful'
  <2>1. m.command \in Commands /\ m.kind \in Kinds
    BY DEF TypeOK
  <2>2. Meaning(m.kind) \in Verdicts => verdict[m.command] = Meaning(m.kind)
    BY <2>1 DEF Meaning, Verdicts, Truthful, AmbiguousTexts, Kinds
  <2>3. UNCHANGED <<told, verdict, exec>> /\ up' \subseteq up
    BY <1>12 DEF Result
  <2>4. \A d \in Commands : future'[d] \in Verdicts => verdict[d] = future'[d]
    BY <1>12, <2>1, <2>2 DEF Result, Truthful, TypeOK
  <2>5. QED
    BY <2>3, <2>4 DEF Truthful
<1>13. CASE Stops \/ Reload
  <2>1. Stay
    BY <1>13 DEF Stops, Reload, CutOff, TypeOK
  <2>2. QED
    BY <1>1, <1>13, <2>1 DEF Stops, Reload
<1>14. CASE Acknowledged \/ Closed \/ Breaks \/ Starts \/ UNCHANGED vars
  BY <1>4, <1>14 DEF Acknowledged, Closed, Breaks, Starts, vars
<1>15. QED
  BY <1>6, <1>7, <1>9, <1>10, <1>11, <1>12, <1>13, <1>14 DEF Next, Broker

\* The invariant is inductive.
LEMMA Inductive == Spec => []SInv
<1>1. Init => SInv
  <2>1. Init => TypeOK
    <3> SUFFICES ASSUME Init PROVE TypeOK
      OBVIOUS
    <3>1. {active, registered, bridge} \subseteq BOOLEAN
      BY DEF Init
    <3>2. QED
      BY <3>1, BoundAssumption DEF Init, TypeOK, Outcomes, Stages
  <2>2. Init => Linked /\ Begun /\ Once /\ Truthful
    BY DEF Init, Linked, Begun, Once, Truthful, Awaiting, Stages, Verdicts
  <2>3. QED
    BY <2>1, <2>2 DEF SInv
<1>2. SInv /\ [Next]_vars => SInv'
  BY NextTypes, NextLinked, NextBegun, NextOnce, NextTruthful DEF SInv
<1>3. QED
  BY <1>1, <1>2, PTL DEF Spec

\* Every variable has its type, and no caller waits for an extension that is not
\* registered: the end of its connection resolves every future that is pending.
THEOREM TypeCorrect == Spec => []TypeOK
<1>1. SInv => TypeOK
  BY DEF SInv
<1>2. QED
  BY <1>1, Inductive, PTL

\* A Commit is sent at most once, and a verdict that is told was Variational's: both, unlike
\* the truth of a refusal, whether or not the page is reloaded while it waits (background.js
\* runs the executor in full only after an evaluation that cannot have sent anything).
SentOnce ==
    \A c \in Commands : /\ copies[c] \leq 1
                        /\ told[c] \in Verdicts => copies[c] = 1 /\ verdict[c] = told[c]

\* With any reloads, stops and ends of connections, no Commit is sent a second time.
THEOREM NeverSentTwice == Spec => []SentOnce
<1>1. SInv => SentOnce
  <2> SUFFICES ASSUME SInv, NEW c \in Commands
      PROVE  /\ copies[c] \leq 1
             /\ told[c] \in Verdicts => copies[c] = 1 /\ verdict[c] = told[c]
    BY DEF SentOnce
  <2>1. copies[c] \in {0, 1} /\ (copies[c] = 0 => verdict[c] = "none")
    BY DEF SInv, Once
  <2>2. told[c] \in Verdicts => verdict[c] = told[c] /\ verdict[c] # "none"
    BY DEF SInv, Truthful, Verdicts
  <2>3. QED
    BY <2>1, <2>2
<1>2. QED
  BY <1>1, Inductive, PTL

-----------------------------------------------------------------------------
(* What is told of a refusal.  Only here does it matter that the page is not reloaded *)
(* while it waits for Variational.                                                    *)

\* A Commit that can no more be sent stays so.
LEMMA SealedStays ==
    ASSUME SInv, [Next]_vars, NEW d \in Commands, Sealed(d)
    PROVE  Sealed(d)'
<1> USE DEF brokerVars, clientVars, linkVars, pageVars, Awaiting, Stages
<1>0. /\ copies[d] = 0 /\ expr[d] = "none" /\ down[d] = 0 /\ caller[d] # "idle"
      /\ exec[d] \in {"none", "torn", "ended"} /\ fetch[d] # "running"
  BY DEF Sealed, SInv, Once
<1>1. ASSUME UNCHANGED <<copies, expr>>, down'[d] = 0, caller'[d] # "idle",
             exec'[d] \in {exec[d], "ended"}
      PROVE  Sealed(d)'
  BY <1>0, <1>1 DEF Sealed
<1>2. ASSUME NEW c \in Commands, Runtime(c) PROVE Sealed(d)'
  <2>1. CASE Request(c)
    BY <1>0, <1>1, <2>1 DEF Request, SInv, TypeOK
  <2>2. CASE RequestRefused(c) \/ RequestUnsent(c) \/ Returns(c) \/ GivesUp(c)
    BY <1>0, <1>1, <2>2 DEF RequestRefused, RequestUnsent, Returns, GivesUp, Tell, SInv,
       TypeOK
  <2>3. QED
    BY <1>2, <2>1, <2>2 DEF Runtime
<1>3. ASSUME NEW c \in Commands, Extension(c) PROVE Sealed(d)'
  <2>1. CASE Evaluate(c)
    BY <1>0, <2>1 DEF Evaluate, Await, Answer, Sealed, SInv, TypeOK
  <2>2. CASE Receive(c)
    <3>1. c # d
      BY <1>0, <2>2 DEF Receive
    <3>2. QED
      BY <1>0, <2>2, <3>1 DEF Receive, Sealed, SInv, TypeOK
  <2>3. CASE Rejects(c) \/ Overtime(c) \/ CutOffAnswered(c)
    BY <1>0, <1>1, <2>3 DEF Rejects, Overtime, CutOffAnswered, Answer, SInv, TypeOK
  <2>4. QED
    BY <1>3, <2>1, <2>2, <2>3 DEF Extension
<1>4. ASSUME NEW c \in Commands, Page(c) PROVE Sealed(d)'
  <2>1. CASE BridgeMissing(c) \/ Installs(c)
    <3>1. c # d
      BY <1>0, <2>1 DEF BridgeMissing, Installs, NextStage
    <3>2. QED
      BY <1>0, <2>1, <3>1 DEF BridgeMissing, Installs, NextStage, Await, Run, Sealed, SInv,
         TypeOK
  <2>2. CASE Fetches(c) \/ PageRejects(c)
    <3>1. c # d
      BY <1>0, <2>2 DEF Fetches, PageRejects, Executes
    <3>2. QED
      BY <1>0, <2>2, <3>1 DEF Fetches, PageRejects, Executes, Run, Answer, Sealed, SInv,
         TypeOK
  <2>3. CASE FetchAnswered(c) \/ FetchFails(c)
    BY <1>0, <1>1, <2>3 DEF FetchAnswered, FetchFails, AfterException, Answer, SInv, TypeOK
  <2>4. CASE Decides(c)
    BY <1>0, <1>1, <2>4 DEF Decides
  <2>5. QED
    BY <1>4, <2>1, <2>2, <2>3, <2>4 DEF Page
<1>5. ASSUME NEW s \in Sockets, Broker(s) \/ Connect(s) PROVE Sealed(d)'
  BY <1>0, <1>1, <1>5 DEF Broker, Register, BrokerNotices, BrokerDrops, Connect
<1>6. CASE Stops
  BY <1>0, <1>1, <1>6 DEF Stops, CutOff, SInv, TypeOK
<1>7. CASE Reload
  BY <1>0, <1>7 DEF Reload, CutOff, Sealed, SInv, TypeOK
<1>8. CASE (\E m \in up : Result(m)) \/ Acknowledged \/ Closed \/ Breaks \/ Starts
           \/ UNCHANGED vars
  BY <1>0, <1>1, <1>8 DEF Result, Acknowledged, Closed, Breaks, Starts, vars
<1>9. QED
  BY <1>2, <1>3, <1>4, <1>5, <1>6, <1>7, <1>8 DEF Next

\* A caller is never given to another connection than the one it waits for.
LEMMA CutStays ==
    ASSUME SInv, [Next]_vars, NEW d \in Commands, caller[d] # "idle",
           NEW s \in Sockets \cup {0}, CutFrom(d, s)
    PROVE  CutFrom(d, s)'
<1> USE DEF brokerVars, clientVars, linkVars, pageVars
<1>1. ASSUME future'[d] = "pending" => future[d] = "pending" /\ extension' = extension
      PROVE  CutFrom(d, s)'
  BY <1>1 DEF CutFrom
<1>2. ASSUME NEW c \in Commands, Runtime(c) PROVE CutFrom(d, s)'
  BY <1>1, <1>2 DEF Runtime, RequestRefused, Request, RequestUnsent, Returns, GivesUp, Tell,
     SInv, TypeOK
<1>3. ASSUME NEW c \in Commands, Extension(c) PROVE CutFrom(d, s)'
  BY <1>1, <1>3 DEF Extension, Receive, Rejects, Evaluate, Overtime, CutOffAnswered
<1>4. ASSUME NEW c \in Commands, Page(c) PROVE CutFrom(d, s)'
  BY <1>1, <1>4 DEF Page, BridgeMissing, Installs, Fetches, PageRejects, FetchAnswered,
     FetchFails, Decides
<1>5. ASSUME NEW t \in Sockets, BrokerNotices(t) \/ BrokerDrops(t) PROVE CutFrom(d, s)'
  BY <1>1, <1>5, DisconnectTypes DEF BrokerNotices, BrokerDrops, SInv
<1>6. ASSUME NEW t \in Sockets, Register(t) PROVE CutFrom(d, s)'
  BY <1>1, <1>6 DEF Register, SInv, TypeOK
<1>7. ASSUME NEW m \in up, Result(m) PROVE CutFrom(d, s)'
  <2>1. m.command \in Commands /\ Meaning(m.kind) # "pending"
    BY DEF SInv, TypeOK, Meaning
  <2>2. QED
    BY <1>1, <1>7, <2>1 DEF Result, SInv, TypeOK
<1>8. ASSUME NEW t \in Sockets, Connect(t) PROVE CutFrom(d, s)'
  BY <1>1, <1>8 DEF Connect
<1>9. CASE Acknowledged \/ Closed \/ Breaks \/ Stops \/ Starts \/ Reload \/ UNCHANGED vars
  BY <1>1, <1>9 DEF Acknowledged, Closed, Breaks, Stops, Starts, Reload, vars
<1>10. QED
  BY <1>2, <1>3, <1>4, <1>5, <1>6, <1>7, <1>8, <1>9 DEF Next, Broker

\* The socket on which the extension would answer now is not that of a caller whose
\* Commit it was cut off from, unless the Commit is sealed.
LEMMA TornStays ==
    ASSUME SInv, Honest, [Next]_vars, NEW d \in Commands, exec[d] = "torn"
    PROVE  Sealed(d)' \/ CutFrom(d, ws)'
<1> USE DEF brokerVars, clientVars, linkVars, pageVars
<1>1. Sealed(d) \/ CutFrom(d, ws)
  BY DEF Honest
<1>2. caller[d] # "idle" /\ ws \in Sockets \cup {0}
  BY DEF SInv, TypeOK, Begun
<1>3. CASE Sealed(d)
  BY <1>3, SealedStays
<1>4. CASE CutFrom(d, ws) /\ ws' = ws
  <2>1. CutFrom(d, ws)'
    <3>1. \A s \in Sockets \cup {0} : CutFrom(d, s) => CutFrom(d, s)'
      BY <1>2, CutStays
    <3>2. QED
      BY <1>2, <1>4, <3>1 DEF CutFrom
  <2>2. QED
    BY <2>1
<1>5. ASSUME ws' = 0, UNCHANGED <<future, extension>> PROVE CutFrom(d, ws)'
  BY <1>5 DEF CutFrom, SInv, TypeOK
<1>6. ASSUME NEW s \in Sockets, Connect(s) PROVE CutFrom(d, ws)'
  BY <1>6 DEF Connect, CutFrom, SInv, TypeOK, Linked
<1>7. ASSUME ws' # ws
      PROVE  Closed \/ Breaks \/ Stops \/ \E s \in Sockets : Connect(s)
  <2>1. ~(\E c \in Commands : Runtime(c) \/ Extension(c) \/ Page(c))
    BY <1>7 DEF Runtime, RequestRefused, Request, RequestUnsent, Returns, GivesUp,
       Extension, Receive, Rejects, Evaluate, Overtime, CutOffAnswered,
       Page, BridgeMissing, Installs, Fetches, PageRejects, FetchAnswered, FetchFails,
       Decides
  <2>2. ~(\E s \in Sockets : Broker(s)) /\ ~(\E m \in up : Result(m))
    BY <1>7 DEF Broker, Register, BrokerNotices, BrokerDrops, Result
  <2>3. ~(Acknowledged \/ Starts \/ Reload \/ UNCHANGED vars)
    BY <1>7 DEF Acknowledged, Starts, Reload, vars
  <2>4. QED
    BY <2>1, <2>2, <2>3 DEF Next
<1>8. CASE Closed \/ Breaks \/ Stops
  BY <1>5, <1>8 DEF Closed, Breaks, Stops, Leaves
<1>9. QED
  BY <1>1, <1>3, <1>4, <1>6, <1>7, <1>8

\* Where the page is spared, a refusal on its way, or told, is of a sealed Commit.
LEMMA NextHonest ==
    ASSUME ReloadsSpare PROVE SInv /\ Honest /\ [Next]_vars => Honest'
<1> SUFFICES ASSUME SInv, Honest, [Next]_vars PROVE Honest'
  OBVIOUS
<1> USE DEF brokerVars, clientVars, linkVars, pageVars, Awaiting, Stages
<1> DEFINE Told(d) == /\ future'[d] = "refused" => future[d] = "refused" \/ Sealed(d)'
                      /\ told'[d] = "refused" => told[d] = "refused" \/ Sealed(d)'
           Torn(d) == exec'[d] = "torn" => exec[d] = "torn" \/ Sealed(d)'
           Sent(m) == \/ m \in up
                      \/ m.kind = "bound" /\ Sealed(m.command)'
                      \/ m.kind = "chrome" /\ (Sealed(m.command)' \/ CutFrom(m.command, m.sock)')
                      \/ m.kind \notin {"bound", "chrome"}
<1>1. ASSUME \A d \in Commands : Told(d) /\ Torn(d), \A m \in up' : Sent(m) PROVE Honest'
  <2>1. \A d \in Commands : Sealed(d) => Sealed(d)'
    BY SealedStays
  <2>2. \A d \in Commands : exec[d] = "torn" => Sealed(d)' \/ CutFrom(d, ws)'
    BY TornStays
  <2>3. \A m \in up : m.command \in Commands /\ m.sock \in Sockets /\ caller[m.command] # "idle"
    BY DEF SInv, TypeOK, Begun, Truthful
  <2>4. \A m \in up : CutFrom(m.command, m.sock) => CutFrom(m.command, m.sock)'
    BY <2>3, CutStays
  <2>5. \A m \in up' : /\ m.kind = "bound" => Sealed(m.command)'
                       /\ m.kind = "chrome" => Sealed(m.command)' \/ CutFrom(m.command, m.sock)'
    BY <1>1, <2>1, <2>3, <2>4 DEF Honest
  <2>6. \A d \in Commands : /\ future'[d] = "refused" => Sealed(d)'
                            /\ told'[d] = "refused" => Sealed(d)'
                            /\ exec'[d] = "torn" => Sealed(d)' \/ CutFrom(d, ws)'
    BY <1>1, <2>1, <2>2 DEF Honest
  <2>7. QED
    BY <2>5, <2>6 DEF Honest
<1>2. ASSUME UNCHANGED <<future, told, exec>>, up' \subseteq up PROVE Honest'
  BY <1>1, <1>2
<1>3. ASSUME NEW c \in Commands, NEW what, Tell(c, what), UNCHANGED <<exec, up>>,
             what = "refused" => Sealed(c)'
      PROVE  Honest'
  BY <1>1, <1>3 DEF Tell, SInv, TypeOK
<1>4. ASSUME NEW c \in Commands, NEW kind, Answer(c, kind), UNCHANGED <<future, told, ws>>,
             kind = "bound" => Sealed(c)',
             kind = "chrome" => ws = 0 \/ Sealed(c)' \/ CutFrom(c, ws)'
      PROVE  Honest'
  <2>1. \A d \in Commands : Told(d) /\ Torn(d)
    BY <1>4 DEF Answer, SInv, TypeOK
  <2>2. \A m \in up' : m \in up \/ (ws # 0 /\ m.command = c /\ m.kind = kind /\ m.sock = ws)
    BY <1>4 DEF Answer
  <2>3. \A m \in up' : Sent(m)
    BY <1>4, <2>2 DEF CutFrom
  <2>4. QED
    BY <1>1, <2>1, <2>3
<1>5. ASSUME NEW c \in Commands, NEW stage \in Stages \cup {"check"}, UNCHANGED <<future, told, up>>,
             exec' = [exec EXCEPT ![c] = stage]
      PROVE  Honest'
  BY <1>1, <1>5 DEF SInv, TypeOK
<1>6. ASSUME NEW c \in Commands, Runtime(c) PROVE Honest'
  <2>1. CASE RequestRefused(c)
    <3>1. Sealed(c)'
      BY <2>1 DEF RequestRefused, Tell, Sealed, SInv, TypeOK, Begun, Once
    <3>2. QED
      BY <1>3, <2>1, <3>1 DEF RequestRefused
  <2>2. CASE Returns(c)
    <3>1. future[c] = "refused" => Sealed(c)'
      BY SealedStays DEF Honest
    <3>2. QED
      BY <1>3, <2>2, <3>1 DEF Returns
  <2>3. CASE Request(c)
    BY <1>1, <2>3 DEF Request, SInv, TypeOK
  <2>4. CASE RequestUnsent(c) \/ GivesUp(c)
    BY <1>3, <2>4 DEF RequestUnsent, GivesUp
  <2>5. QED
    BY <1>6, <2>1, <2>2, <2>3, <2>4 DEF Runtime
<1>7. ASSUME NEW c \in Commands, Extension(c) PROVE Honest'
  <2>1. exec[c] # "none" => caller[c] # "idle" /\ down[c] = 0
    BY DEF SInv, TypeOK, Begun
  <2>2. CASE Receive(c)
    BY <1>5, <2>2 DEF Receive
  <2>3. CASE Rejects(c)
    <3>1. Sealed(c)'
      BY <2>1, <2>3 DEF Rejects, Answer, Sealed, SInv, TypeOK, Once
    <3>2. QED
      BY <1>4, <2>3, <3>1 DEF Rejects
  <2>4. CASE Evaluate(c)
    <3>1. CASE active
      BY <1>5, <2>4, <3>1 DEF Evaluate, Await
    <3>2. CASE ~active
      BY <1>4, <2>4, <3>2 DEF Evaluate, SInv, Linked
    <3>3. QED
      BY <3>1, <3>2
  <2>5. CASE Overtime(c)
    BY <1>4, <2>5 DEF Overtime
  <2>6. CASE CutOffAnswered(c)
    <3>1. Sealed(c)' \/ CutFrom(c, ws)'
      BY <2>6, TornStays DEF CutOffAnswered
    <3>2. QED
      BY <1>4, <2>6, <3>1 DEF CutOffAnswered
  <2>7. QED
    BY <1>7, <2>2, <2>3, <2>4, <2>5, <2>6 DEF Extension
<1>8. ASSUME NEW c \in Commands, Page(c) PROVE Honest'
  <2>1. CASE BridgeMissing(c) \/ Installs(c)
    BY <1>2, <1>5, <2>1 DEF BridgeMissing, Installs, NextStage, Await
  <2>2. CASE PageRejects(c)
    <3>1. CASE exec[c] = expr[c]
      <4>1. Sealed(c)'
        BY <2>2, <3>1 DEF PageRejects, Executes, Run, Answer, Sealed, SInv, TypeOK, Begun,
           Once
      <4>2. QED
        BY <1>4, <2>2, <3>1, <4>1 DEF PageRejects
    <3>2. CASE exec[c] # expr[c]
      BY <1>2, <2>2, <3>2 DEF PageRejects
    <3>3. QED
      BY <3>1, <3>2
  <2>3. CASE FetchAnswered(c) \/ FetchFails(c)
    BY <1>2, <1>4, <2>3 DEF FetchAnswered, FetchFails, AfterException
  <2>4. CASE Fetches(c) \/ Decides(c)
    BY <1>2, <2>4 DEF Fetches, Decides
  <2>5. QED
    BY <1>8, <2>1, <2>2, <2>3, <2>4 DEF Page
<1>9. ASSUME NEW s \in Sockets, BrokerNotices(s) \/ BrokerDrops(s) PROVE Honest'
  <2>1. \A d \in Commands : future'[d] \in {future[d], "unknown"}
    BY <1>9 DEF BrokerNotices, BrokerDrops, OnDisconnect
  <2>2. UNCHANGED <<told, exec>> /\ up' \subseteq up
    BY <1>9 DEF BrokerNotices, BrokerDrops, Without
  <2>3. QED
    BY <1>1, <2>1, <2>2
<1>10. ASSUME NEW s \in Sockets, Register(s) \/ Connect(s) PROVE Honest'
  BY <1>2, <1>10 DEF Register, Connect
<1>11. ASSUME NEW m \in up, Result(m) PROVE Honest'
  <2>1. m.command \in Commands /\ m.kind \in Kinds
    BY DEF SInv, TypeOK
  <2>2. Authorized(m.sock) /\ future[m.command] = "pending" /\ Meaning(m.kind) = "refused"
        => Sealed(m.command)
    BY <2>1 DEF Meaning, AmbiguousTexts, Kinds, Honest, CutFrom, Authorized
  <2>3. \A d \in Commands : future'[d] = "refused" => future[d] = "refused" \/ Sealed(d)
    BY <1>11, <2>1, <2>2 DEF Result, SInv, TypeOK
  <2>4. \A d \in Commands : Sealed(d) => Sealed(d)'
    BY SealedStays
  <2>5. UNCHANGED <<told, exec>> /\ up' \subseteq up
    BY <1>11 DEF Result
  <2>6. QED
    BY <1>1, <2>3, <2>4, <2>5
<1>12. CASE Stops
  <2>1. \A d \in Commands : Awaiting(d) => CutFrom(d, ws)'
    BY <1>12 DEF Stops, Leaves, CutFrom, SInv, TypeOK
  <2>2. \A d \in Commands : exec'[d] = "torn" => Sealed(d)' \/ CutFrom(d, ws)'
    BY <1>12, <2>1, TornStays DEF Stops, CutOff, SInv, TypeOK
  <2>3. UNCHANGED <<told, future, up>>
    BY <1>12 DEF Stops
  <2>4. \A d \in Commands : Sealed(d) => Sealed(d)'
    BY SealedStays
  <2>5. \A m \in up : m.command \in Commands /\ m.sock \in Sockets /\ caller[m.command] # "idle"
    BY DEF SInv, TypeOK, Begun, Truthful
  <2>6. \A m \in up : CutFrom(m.command, m.sock) => CutFrom(m.command, m.sock)'
    BY <2>5, CutStays
  <2>7. QED
    BY <2>2, <2>3, <2>4, <2>5, <2>6 DEF Honest
<1>13. CASE Reload
  <2>1. \A d \in Commands : Awaiting(d) => expr[d] # "none" /\ copies[d] = 0
    BY <1>13 DEF Reload, SInv, Once
  <2>2. \A d \in Commands : Awaiting(d) => down[d] = 0 /\ caller[d] # "idle"
    BY DEF SInv, TypeOK, Begun
  <2>3. \A d \in Commands : Awaiting(d) => Sealed(d)'
    BY <1>13, <2>1, <2>2 DEF Reload, CutOff, Sealed, SInv, TypeOK
  <2>4. \A d \in Commands : Torn(d)
    BY <1>13, <2>3 DEF Reload, CutOff
  <2>5. UNCHANGED <<told, future, up>>
    BY <1>13 DEF Reload
  <2>6. QED
    BY <1>1, <2>4, <2>5
<1>14. CASE Acknowledged \/ Closed \/ Breaks \/ Starts \/ UNCHANGED vars
  BY <1>2, <1>14 DEF Acknowledged, Closed, Breaks, Starts, vars
<1>15. QED
  BY <1>6, <1>7, <1>8, <1>9, <1>10, <1>11, <1>12, <1>13, <1>14 DEF Next, Broker

-----------------------------------------------------------------------------
(* The channel implements the promise. *)

\* Every step of the channel is a step of the promise, or leaves it as it is.
LEMMA StepRefines == SInv /\ Honest /\ [Next]_vars => [Promise!Next]_(Promise!vars)
<1> SUFFICES ASSUME SInv, Honest, [Next]_vars PROVE [Promise!Next]_(Promise!vars)
  OBVIOUS
<1> DEFINE Step == [Promise!Next]_(Promise!vars)
<1> USE DEF brokerVars, clientVars, linkVars, pageVars
<1>1. ASSUME NEW c \in Commands, Promise!Leave(c) \/ Promise!Decide(c) \/ Promise!Tell(c)
      PROVE  Step
  BY <1>1 DEF Promise!Next
<1>2. ASSUME UNCHANGED <<copies, verdict, told>> PROVE Step
  BY <1>2 DEF Promise!vars
<1>3. ASSUME NEW c \in Commands, NEW what \in Outcomes, Tell(c, what), caller[c] # "done",
             UNCHANGED <<copies, verdict>>,
             what \in Verdicts => verdict[c] = what,
             what = "refused" => copies[c] = 0
      PROVE  Step
  <2>1. told[c] = "nothing" /\ told' = [told EXCEPT ![c] = what]
    BY <1>3 DEF SInv, Begun, Tell
  <2>2. Promise!Tell(c)
    BY <1>3, <2>1 DEF Promise!Tell, Promise!Verdicts, Verdicts, Outcomes
  <2>3. QED
    BY <1>1, <2>2
<1>4. ASSUME NEW c \in Commands, Runtime(c) PROVE Step
  <2>1. CASE Request(c)
    BY <1>2, <2>1 DEF Request
  <2>2. CASE RequestRefused(c)
    <3>1. copies[c] = 0
      BY <2>2 DEF RequestRefused, SInv, Begun, Once
    <3>2. QED
      BY <1>3, <2>2, <3>1 DEF RequestRefused, Outcomes, Verdicts
  <2>3. CASE RequestUnsent(c) \/ GivesUp(c)
    BY <1>3, <2>3 DEF RequestUnsent, GivesUp, Outcomes, Verdicts
  <2>4. CASE Returns(c)
    BY <1>3, <2>4 DEF Returns, SInv, Truthful, Honest, Sealed
  <2>5. QED
    BY <1>4, <2>1, <2>2, <2>3, <2>4 DEF Runtime
<1>5. ASSUME NEW c \in Commands, Fetches(c) PROVE Step
  <2>1. expr[c] # "none" /\ copies[c] = 0
    BY <1>5 DEF Fetches, Executes, SInv, Once
  <2>2. told[c] \in {"nothing", "unknown"}
    BY <2>1 DEF SInv, TypeOK, Outcomes, Verdicts, Once, Truthful, Honest, Sealed
  <2>3. copies' = [copies EXCEPT ![c] = 1] /\ UNCHANGED <<verdict, told>>
    BY <1>5, <2>1 DEF Fetches, SInv, TypeOK
  <2>4. Promise!Leave(c)
    BY <2>1, <2>2, <2>3 DEF Promise!Leave
  <2>5. QED
    BY <1>1, <2>4
<1>6. ASSUME NEW c \in Commands, Decides(c) PROVE Step
  <2>1. copies[c] = 1
    BY <1>6 DEF Decides, SInv, Once
  <2>2. Promise!Decide(c)
    BY <1>6, <2>1 DEF Decides, Promise!Decide, Promise!Verdicts, Verdicts
  <2>3. QED
    BY <1>1, <2>2
<1>7. ASSUME NEW c \in Commands, Page(c) PROVE Step
  BY <1>2, <1>5, <1>6, <1>7 DEF Page, BridgeMissing, Installs, PageRejects, FetchAnswered,
     FetchFails
<1>8. ASSUME NEW c \in Commands, Extension(c) PROVE Step
  BY <1>2, <1>8 DEF Extension, Receive, Rejects, Evaluate, Overtime, CutOffAnswered
<1>9. ASSUME NEW s \in Sockets, Broker(s) \/ Connect(s) PROVE Step
  BY <1>2, <1>9 DEF Broker, Register, BrokerNotices, BrokerDrops, Connect
<1>10. CASE (\E m \in up : Result(m)) \/ Acknowledged \/ Closed \/ Breaks \/ Stops
            \/ Starts \/ Reload \/ UNCHANGED vars
  BY <1>2, <1>10 DEF Result, Acknowledged, Closed, Breaks, Stops, Starts, Reload, vars
<1>11. QED
  BY <1>4, <1>7, <1>8, <1>9, <1>10 DEF Next

\* Where the page is not reloaded while it waits for Variational, a Commit is sent at most
\* once, one that is told to be refused is not sent, before or after, and a verdict that
\* is told is Variational's.
THEOREM SubmissionRefined ==
    ASSUME ReloadsSpare PROVE Spec => CommitIsHonest
<1>1. Init => Honest
  BY DEF Init, Honest
<1>2. Init => Promise!Init
  BY DEF Init, Promise!Init
<1>3. SInv /\ Honest /\ [Next]_vars => Honest'
  BY NextHonest
<1>4. QED
  BY <1>1, <1>2, <1>3, StepRefines, Inductive, PTL
     DEF Spec, CommitIsHonest, Promise!Spec
=============================================================================
