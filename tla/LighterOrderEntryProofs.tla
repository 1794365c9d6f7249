----------------------- MODULE LighterOrderEntryProofs ----------------------
(***************************************************************************)
(* For any number of orders, any queue and any number of connections:      *)
(* LighterOrderEntry implements Submission, two orders that may be         *)
(* executed never bear the same nonce, and close() leaves nothing behind.  *)
(***************************************************************************)
EXTENDS LighterOrderEntry, TLAPS

Live == {"queued", "taken", "dispatched"}
Holds(o) == caller[o] \in {"waiting", "rest"}
Claims(o) == caller[o] \in {"waiting", "rest", "accepted", "unknown", "cancelled"}

(* The inductive invariant, in the parts that the steps disturb together. *)

\* Who runs.  The worker has one command at a time, and while it is being sent or
\* answered the worker is where that is done; the connection lock has one holder; and
\* a close that has gone so far has stopped the tasks it has waited for.
Control ==
    /\ \A o \in Orders : command[o] = "taken" => worker \in {"connect", "connecting"}
    /\ \A o \in Orders : command[o] = "dispatched" => worker \in {"recv", "fail"}
    /\ \A o, p \in Orders : InHand(o) /\ InHand(p) => o = p
    /\ closer \in {"maint", "done"} => worker \in {"none", "ended"} /\ maint = "ended"
    /\ closer = "done" => sock = 0 /\ \A o \in Orders : command[o] # "queued"

\* What the caller, the command and its future tell about each other.
Matched ==
    \A o \in Orders :
        /\ caller[o] = "idle" => command[o] = "none" /\ future[o] = "none"
        /\ caller[o] \in {"rest", "refused"} => command[o] \in {"none", "over"}
        /\ command[o] \in Live =>
              /\ caller[o] \in {"waiting", "cancelled"}
              /\ future[o] \in {"pending", "cancelled"}
        /\ future[o] = "pending" => command[o] \in Live

\* An order has left at most once, and not before it was dispatched.
Unsent(o) == \/ caller[o] \in {"idle", "refused"} \/ command[o] \in {"queued", "taken"}
             \/ caller[o] = "waiting" /\ future[o] = "unavailable"
Sent ==
    \A o \in Orders :
        /\ copies[o] \in {0, 1}
        /\ Unsent(o) => copies[o] = 0
        /\ copies[o] = 0 => verdict[o] = "none"

\* What the network carries: the frames not yet decided on, the exchange's answers.
Carried ==
    /\ \A m \in wire : /\ copies[m.order] = 1 /\ verdict[m.order] = "none"
                       /\ m.sock <= opened
    /\ sock <= opened
    /\ \A m, n \in wire : m.order = n.order => m = n
    /\ \A r \in replies : verdict[r.order] = r.code /\ r.sock <= opened /\ r.sock # 0
    /\ \A r, q \in replies : r.order = q.order => r = q

\* On the connections that the worker may read from, now or by its next command, only
\* the frame of the command in hand, or its answer, is under way: that is why an
\* answer without an id is never another order's.
InUse == (IF sock = 0 THEN {} ELSE {sock})
         \cup (IF \E o \in Orders : command[o] = "dispatched" THEN {wsock} ELSE {})
OwnConnection ==
    ~IsClosed =>
        /\ \A m \in wire :
              m.sock # 0 /\ m.sock \in InUse => command[m.order] = "dispatched"
        /\ \A r \in replies : r.sock \in InUse => command[r.order] = "dispatched"

\* Verdicts on their way to the caller, and with it, are the exchange's.
Truthful ==
    \A o \in Orders : /\ future[o] \in Verdicts => verdict[o] = future[o]
                      /\ caller[o] \in Verdicts => verdict[o] = caller[o]

\* The nonces: one caller holds the signer, and its nonce is the last one given out.
Signed ==
    /\ \A o, p \in Orders : Holds(o) /\ Holds(p) => o = p
    /\ \A o \in Orders : Holds(o) => nonce = nonceOf[o] + 1
    /\ \A o \in Orders : Claims(o) => nonceOf[o] < nonce
    /\ \A o, p \in Orders : Claims(o) /\ Claims(p) /\ o # p => nonceOf[o] # nonceOf[p]

IInv == /\ TypeOK /\ Control /\ Matched /\ Sent /\ Carried
        /\ OwnConnection /\ Truthful /\ Signed

-----------------------------------------------------------------------------
(* The parts, one after the other *)

\* Closing whatever connection there is keeps the connections within the bound.
LEMMA CloseSocketTypes ==
    ASSUME TypeOK, CloseSocket
    PROVE  {sock', opened'} \subseteq Sockets /\ broken' \subseteq Sockets
<1>1. sock \in Sockets /\ opened \in Sockets /\ broken \subseteq Sockets
  BY DEF TypeOK
<1>2. 0 \in Sockets
  BY BoundAssumption DEF Sockets
<1>3. QED
  BY <1>1, <1>2 DEF CloseSocket

\* What the parts say of the nonce keeps it from falling below zero.
LEMMA NextTypes == TypeOK /\ Signed /\ [Next]_vars => TypeOK'
<1> SUFFICES ASSUME TypeOK, Signed, [Next]_vars
             PROVE  TypeOK'
  OBVIOUS
<1> USE BoundAssumption DEF TypeOK, Signed, Holds, Sockets, CallerState, FutureState,
        Verdicts, orderVars, signer, sockets, network
<1>1. ASSUME NEW o \in Orders, SubmitElsewhere(o) PROVE TypeOK'
  BY <1>1 DEF SubmitElsewhere, MaySubmit, SignerHeld, Elsewhere, Leaves, IsClosed,
     AfterRefusal
<1>2. ASSUME NEW o \in Orders, SubmitUnsigned(o) PROVE TypeOK'
  BY <1>2 DEF SubmitUnsigned, MaySubmit, SignerHeld
<1>3. ASSUME NEW o \in Orders, SubmitQueued(o) PROVE TypeOK'
  BY <1>3 DEF SubmitQueued, MaySubmit, SignerHeld, IsClosed
<1>4. ASSUME NEW o \in Orders, Unavailable(o) PROVE TypeOK'
  BY <1>4 DEF Unavailable, Elsewhere, Leaves
<1>5. ASSUME NEW o \in Orders, Answered(o) PROVE TypeOK'
  BY <1>5 DEF Answered, Released
<1>6. ASSUME NEW o \in Orders, RestAnswers(o) PROVE TypeOK'
  BY <1>6 DEF RestAnswers
<1>7. ASSUME NEW o \in Orders, Cancel(o) PROVE TypeOK'
  BY <1>7 DEF Cancel, Resolve
<1>8. ASSUME NEW o \in Orders, Take(o) PROVE TypeOK'
  BY <1>8 DEF Take, IsClosed
<1>9. ASSUME NEW o \in Orders, EnsureConnected(o) PROVE TypeOK'
  BY <1>9 DEF EnsureConnected, Dispatch, Leaves, IsClosed, LockFree, IsReady
<1>10. ASSUME NEW o \in Orders, WorkerConnected(o) PROVE TypeOK'
  BY <1>10 DEF WorkerConnected, Dispatch, Leaves, IsClosed
<1>11. ASSUME NEW o \in Orders, WorkerUnconnected(o) PROVE TypeOK'
  BY <1>11 DEF WorkerUnconnected, Resolve, IsClosed
<1>12. ASSUME NEW o \in Orders, Receive(o) PROVE TypeOK'
  BY <1>12 DEF Receive, Resolve, IsClosed
<1>13. ASSUME NEW o \in Orders, Fail(o) PROVE TypeOK'
  BY <1>13, CloseSocketTypes DEF Fail, Resolve, IsClosed
<1>14. ASSUME NEW m \in wire, Arrives(m) PROVE TypeOK'
  BY <1>14 DEF Arrives
<1>15. CASE GivesUp
  BY <1>15 DEF GivesUp, IsClosed
<1>16. CASE MaintConnects
  BY <1>16 DEF MaintConnects, IsClosed, IsReady
<1>17. CASE MaintConnected
  BY <1>17 DEF MaintConnected
<1>18. CASE MaintUnconnected
  BY <1>18 DEF MaintUnconnected
<1>19. CASE Stop
  BY <1>19 DEF Stop
<1>20. CASE CloseBegins
  BY <1>20 DEF CloseBegins
<1>21. CASE WorkerCancelled
  BY <1>21 DEF WorkerCancelled, Resolve, Outcome
<1>22. CASE WorkerEnds
  BY <1>22, CloseSocketTypes DEF WorkerEnds
<1>23. CASE MaintEnds
  BY <1>23 DEF MaintEnds
<1>24. CASE CloseEnds
  BY <1>24, CloseSocketTypes DEF CloseEnds, Drained
<1>25. CASE Breaks
  BY <1>25 DEF Breaks, IsReady
<1>26. CASE UNCHANGED vars
  BY <1>26 DEF vars
<1>27. QED
  BY <1>1, <1>2, <1>3, <1>4, <1>5, <1>6, <1>7, <1>8, <1>9, <1>10, <1>11, <1>12, <1>13,
     <1>14, <1>15, <1>16, <1>17, <1>18, <1>19, <1>20, <1>21, <1>22, <1>23, <1>24, <1>25,
     <1>26
     DEF Next, Submits, Resumes, Works, Worker, Maintenance, Closing, Environment

\* A task is where its command says, and does not come back once it is awaited.
LEMMA NextControl == TypeOK /\ Control /\ [Next]_vars => Control'
<1> SUFFICES ASSUME TypeOK, Control, [Next]_vars
             PROVE  Control'
  OBVIOUS
<1> USE BoundAssumption DEF TypeOK, Control, InHand, orderVars, signer, sockets, network
<1>1. ASSUME NEW o \in Orders, SubmitQueued(o) PROVE Control'
  BY <1>1 DEF SubmitQueued, MaySubmit, SignerHeld, IsClosed
<1>2. ASSUME NEW o \in Orders, Take(o) PROVE Control'
  BY <1>2 DEF Take, IsClosed
<1>3. ASSUME NEW o \in Orders, EnsureConnected(o) PROVE Control'
  BY <1>3 DEF EnsureConnected, Dispatch, Leaves, IsClosed, LockFree, IsReady
<1>4. ASSUME NEW o \in Orders, WorkerConnected(o) PROVE Control'
  BY <1>4 DEF WorkerConnected, Dispatch, Leaves, IsClosed
<1>5. ASSUME NEW o \in Orders, WorkerUnconnected(o) PROVE Control'
  BY <1>5 DEF WorkerUnconnected, Resolve, IsClosed
<1>6. ASSUME NEW o \in Orders, Receive(o) PROVE Control'
  BY <1>6 DEF Receive, Resolve, IsClosed
<1>7. ASSUME NEW o \in Orders, Fail(o) PROVE Control'
  BY <1>7 DEF Fail, Resolve, CloseSocket, IsClosed
<1>8. CASE GivesUp
  BY <1>8 DEF GivesUp, IsClosed
<1>9. CASE MaintConnects
  BY <1>9 DEF MaintConnects, IsClosed, IsReady
<1>10. CASE MaintConnected
  BY <1>10 DEF MaintConnected
<1>11. CASE MaintUnconnected
  BY <1>11 DEF MaintUnconnected
<1>12. CASE Stop
  BY <1>12 DEF Stop
<1>13. CASE CloseBegins
  BY <1>13 DEF CloseBegins
<1>14. CASE WorkerCancelled
  BY <1>14 DEF WorkerCancelled, Resolve, Outcome
<1>15. CASE WorkerEnds
  BY <1>15 DEF WorkerEnds, CloseSocket
<1>16. CASE MaintEnds
  BY <1>16 DEF MaintEnds
<1>17. CASE CloseEnds
  BY <1>17 DEF CloseEnds, CloseSocket, Drained
<1>18. ASSUME NEW o \in Orders,
            SubmitElsewhere(o) \/ SubmitUnsigned(o) \/ Unavailable(o) \/ Answered(o)
          \/ RestAnswers(o) \/ Cancel(o)
     PROVE Control'
  BY <1>18 DEF SubmitElsewhere, Elsewhere, Leaves, SubmitUnsigned, Unavailable,
     Answered, RestAnswers, Cancel, Resolve
<1>19. ASSUME NEW m \in wire, Arrives(m) PROVE Control'
  BY <1>19 DEF Arrives
<1>20. CASE Breaks \/ UNCHANGED vars
  BY <1>20 DEF Breaks, vars
<1>21. QED
  BY <1>1, <1>2, <1>3, <1>4, <1>5, <1>6, <1>7, <1>8, <1>9, <1>10, <1>11, <1>12, <1>13,
     <1>14, <1>15, <1>16, <1>17, <1>18, <1>19, <1>20
     DEF Next, Submits, Resumes, Works, Worker, Maintenance, Closing, Environment

\* Whoever moves a command on resolves its future.
LEMMA NextMatched == TypeOK /\ Control /\ Matched /\ [Next]_vars => Matched'
<1> SUFFICES ASSUME TypeOK, Control, Matched, [Next]_vars
             PROVE  Matched'
  OBVIOUS
<1> USE BoundAssumption DEF TypeOK, Control, Matched, InHand, Live, Verdicts, orderVars,
        signer, sockets, network
<1>1. ASSUME NEW o \in Orders, SubmitElsewhere(o) PROVE Matched'
  BY <1>1 DEF SubmitElsewhere, MaySubmit, SignerHeld, Elsewhere, Leaves, IsClosed,
     AfterRefusal
<1>2. ASSUME NEW o \in Orders, SubmitUnsigned(o) PROVE Matched'
  BY <1>2 DEF SubmitUnsigned, MaySubmit, SignerHeld
<1>3. ASSUME NEW o \in Orders, SubmitQueued(o) PROVE Matched'
  BY <1>3 DEF SubmitQueued, MaySubmit, SignerHeld, IsClosed
<1>4. ASSUME NEW o \in Orders, Unavailable(o) PROVE Matched'
  BY <1>4 DEF Unavailable, Elsewhere, Leaves
<1>5. ASSUME NEW o \in Orders, Answered(o) PROVE Matched'
  BY <1>5 DEF Answered, Released
<1>6. ASSUME NEW o \in Orders, RestAnswers(o) PROVE Matched'
  BY <1>6 DEF RestAnswers
<1>7. ASSUME NEW o \in Orders, Cancel(o) PROVE Matched'
  BY <1>7 DEF Cancel, Resolve
<1>8. ASSUME NEW o \in Orders, Take(o) PROVE Matched'
  BY <1>8 DEF Take, IsClosed
<1>9. ASSUME NEW o \in Orders, EnsureConnected(o) PROVE Matched'
  BY <1>9 DEF EnsureConnected, Dispatch, Leaves, IsClosed, LockFree, IsReady
<1>10. ASSUME NEW o \in Orders, WorkerConnected(o) PROVE Matched'
  BY <1>10 DEF WorkerConnected, Dispatch, Leaves, IsClosed
<1>11. ASSUME NEW o \in Orders, WorkerUnconnected(o) PROVE Matched'
  BY <1>11 DEF WorkerUnconnected, Resolve, IsClosed
<1>12. ASSUME NEW o \in Orders, Receive(o) PROVE Matched'
  BY <1>12 DEF Receive, Resolve, IsClosed
<1>13. ASSUME NEW o \in Orders, Fail(o) PROVE Matched'
  BY <1>13 DEF Fail, Resolve, CloseSocket, IsClosed
<1>14. CASE WorkerCancelled
  BY <1>14 DEF WorkerCancelled, Resolve, Outcome
<1>15. CASE CloseEnds
  BY <1>15 DEF CloseEnds, CloseSocket, Drained
<1>16. ASSUME NEW m \in wire, Arrives(m) PROVE Matched'
  BY <1>16 DEF Arrives
<1>17. CASE GivesUp \/ MaintConnects \/ MaintConnected \/ MaintUnconnected \/ Stop
          \/ CloseBegins \/ WorkerEnds \/ MaintEnds \/ Breaks \/ UNCHANGED vars
  BY <1>17 DEF GivesUp, MaintConnects, MaintConnected, MaintUnconnected, Stop,
     CloseBegins, WorkerEnds, CloseSocket, MaintEnds, Breaks, vars
<1>18. QED
  BY <1>1, <1>2, <1>3, <1>4, <1>5, <1>6, <1>7, <1>8, <1>9, <1>10, <1>11, <1>12, <1>13,
     <1>14, <1>15, <1>16, <1>17
     DEF Next, Submits, Resumes, Works, Worker, Maintenance, Closing, Environment

\* Both transports are used only for an order that has not left.
LEMMA NextSent ==
    TypeOK /\ Control /\ Matched /\ Sent /\ Carried /\ [Next]_vars => Sent'
<1> SUFFICES ASSUME TypeOK, Control, Matched, Sent, Carried, [Next]_vars
             PROVE  Sent'
  OBVIOUS
<1> USE BoundAssumption DEF TypeOK, Control, Matched, Sent, Unsent, Carried, InHand,
        Live, Verdicts, orderVars, signer, sockets, network
<1>1. ASSUME NEW o \in Orders, SubmitElsewhere(o) PROVE Sent'
  BY <1>1 DEF SubmitElsewhere, MaySubmit, SignerHeld, Elsewhere, Leaves, IsClosed,
     AfterRefusal
<1>2. ASSUME NEW o \in Orders, SubmitUnsigned(o) PROVE Sent'
  BY <1>2 DEF SubmitUnsigned, MaySubmit, SignerHeld
<1>3. ASSUME NEW o \in Orders, SubmitQueued(o) PROVE Sent'
  BY <1>3 DEF SubmitQueued, MaySubmit, SignerHeld, IsClosed
<1>4. ASSUME NEW o \in Orders, Unavailable(o) PROVE Sent'
  BY <1>4 DEF Unavailable, Elsewhere, Leaves
<1>5. ASSUME NEW o \in Orders, Answered(o) PROVE Sent'
  BY <1>5 DEF Answered, Released
<1>6. ASSUME NEW o \in Orders, RestAnswers(o) PROVE Sent'
  BY <1>6 DEF RestAnswers
<1>7. ASSUME NEW o \in Orders, Cancel(o) PROVE Sent'
  BY <1>7 DEF Cancel, Resolve
<1>8. ASSUME NEW o \in Orders, Take(o) PROVE Sent'
  BY <1>8 DEF Take, IsClosed
<1>9. ASSUME NEW o \in Orders, EnsureConnected(o) PROVE Sent'
  BY <1>9 DEF EnsureConnected, Dispatch, Leaves, IsClosed, LockFree, IsReady
<1>10. ASSUME NEW o \in Orders, WorkerConnected(o) PROVE Sent'
  BY <1>10 DEF WorkerConnected, Dispatch, Leaves, IsClosed
<1>11. ASSUME NEW o \in Orders, WorkerUnconnected(o) PROVE Sent'
  BY <1>11 DEF WorkerUnconnected, Resolve, IsClosed
<1>12. ASSUME NEW o \in Orders, Receive(o) PROVE Sent'
  BY <1>12 DEF Receive, Resolve, IsClosed
<1>13. ASSUME NEW o \in Orders, Fail(o) PROVE Sent'
  BY <1>13 DEF Fail, Resolve, CloseSocket, IsClosed
<1>14. ASSUME NEW m \in wire, Arrives(m) PROVE Sent'
  BY <1>14 DEF Arrives
<1>15. CASE WorkerCancelled
  BY <1>15 DEF WorkerCancelled, Resolve, Outcome
<1>16. CASE CloseEnds
  BY <1>16 DEF CloseEnds, CloseSocket, Drained
<1>17. CASE GivesUp \/ MaintConnects \/ MaintConnected \/ MaintUnconnected \/ Stop
          \/ CloseBegins \/ WorkerEnds \/ MaintEnds \/ Breaks \/ UNCHANGED vars
  BY <1>17 DEF GivesUp, MaintConnects, MaintConnected, MaintUnconnected, Stop,
     CloseBegins, WorkerEnds, CloseSocket, MaintEnds, Breaks, vars
<1>18. QED
  BY <1>1, <1>2, <1>3, <1>4, <1>5, <1>6, <1>7, <1>8, <1>9, <1>10, <1>11, <1>12, <1>13,
     <1>14, <1>15, <1>16, <1>17
     DEF Next, Submits, Resumes, Works, Worker, Maintenance, Closing, Environment

\* A frame is decided on once and answered once.
LEMMA NextCarried ==
    TypeOK /\ Control /\ Matched /\ Sent /\ Carried /\ [Next]_vars => Carried'
<1> SUFFICES ASSUME TypeOK, Control, Matched, Sent, Carried, [Next]_vars
             PROVE  Carried'
  OBVIOUS
<1> USE BoundAssumption DEF TypeOK, Control, Matched, Sent, Unsent, Carried, InHand,
        Live, Verdicts, Sockets, orderVars, signer, sockets, network
<1>1. ASSUME NEW o \in Orders, SubmitElsewhere(o) PROVE Carried'
  BY <1>1 DEF SubmitElsewhere, MaySubmit, SignerHeld, Elsewhere, Leaves, IsClosed,
     AfterRefusal
<1>2. ASSUME NEW o \in Orders, Unavailable(o) PROVE Carried'
  BY <1>2 DEF Unavailable, Elsewhere, Leaves
<1>3. ASSUME NEW o \in Orders, EnsureConnected(o) PROVE Carried'
  <2>1. CASE ~IsReady
    BY <1>3, <2>1 DEF EnsureConnected
  <2>2. CASE Dispatch(o, sock) /\ UNCHANGED network
    BY <1>3, <2>2 DEF EnsureConnected
  <2>3. CASE Leaves(o, sock) /\ UNCHANGED <<sock, opened>>
    <3>1. copies[o] = 0 /\ verdict[o] = "none" /\ sock <= opened'
      BY <1>3 DEF EnsureConnected
    <3>2. QED
      BY <2>3, <3>1 DEF Leaves
  <2>4. QED
    BY <1>3, <2>1, <2>2, <2>3 DEF EnsureConnected, Dispatch
<1>4. ASSUME NEW o \in Orders, WorkerConnected(o) PROVE Carried'
  BY <1>4 DEF WorkerConnected, Dispatch, Leaves, IsClosed
<1>5. ASSUME NEW o \in Orders, Receive(o) PROVE Carried'
  BY <1>5 DEF Receive, Resolve, IsClosed
<1>6. ASSUME NEW o \in Orders, Fail(o) PROVE Carried'
  BY <1>6 DEF Fail, Resolve, CloseSocket, IsClosed
<1>7. ASSUME NEW m \in wire, Arrives(m) PROVE Carried'
  BY <1>7 DEF Arrives
<1>8. CASE MaintConnects
  BY <1>8 DEF MaintConnects, IsClosed, IsReady
<1>9. CASE MaintConnected
  BY <1>9 DEF MaintConnected
<1>10. CASE WorkerEnds
  BY <1>10 DEF WorkerEnds, CloseSocket
<1>11. CASE CloseEnds
  BY <1>11 DEF CloseEnds, CloseSocket, Drained
<1>12. ASSUME NEW o \in Orders,
            SubmitUnsigned(o) \/ SubmitQueued(o) \/ Answered(o) \/ RestAnswers(o)
          \/ Cancel(o) \/ Take(o) \/ WorkerUnconnected(o)
     PROVE Carried'
  BY <1>12 DEF SubmitUnsigned, SubmitQueued, Answered, RestAnswers, Cancel, Resolve,
     Take, WorkerUnconnected
<1>13. CASE GivesUp \/ MaintUnconnected \/ Stop \/ CloseBegins \/ WorkerCancelled
          \/ MaintEnds \/ Breaks \/ UNCHANGED vars
  BY <1>13 DEF GivesUp, MaintUnconnected, Stop, CloseBegins, WorkerCancelled, Resolve,
     MaintEnds, Breaks, vars
<1>14. QED
  BY <1>1, <1>2, <1>3, <1>4, <1>5, <1>6, <1>7, <1>8, <1>9, <1>10, <1>11, <1>12, <1>13
     DEF Next, Submits, Resumes, Works, Worker, Maintenance, Closing, Environment

\* A connection whose command was given up is left before the next command.
LEMMA NextOwnConnection ==
    TypeOK /\ Control /\ Matched /\ Carried /\ OwnConnection /\ [Next]_vars => OwnConnection'
<1> SUFFICES ASSUME TypeOK, Control, Matched, Carried, OwnConnection, [Next]_vars
             PROVE  OwnConnection'
  OBVIOUS
<1> USE BoundAssumption DEF TypeOK, Control, Matched, Carried, OwnConnection, InUse,
        IsClosed, InHand, Live, Verdicts, Sockets, orderVars, signer, sockets, network
<1>1. ASSUME NEW o \in Orders, SubmitElsewhere(o) PROVE OwnConnection'
  BY <1>1 DEF SubmitElsewhere, MaySubmit, SignerHeld, Elsewhere, Leaves, AfterRefusal
<1>2. ASSUME NEW o \in Orders, SubmitQueued(o) PROVE OwnConnection'
  BY <1>2 DEF SubmitQueued, MaySubmit, SignerHeld
<1>3. ASSUME NEW o \in Orders, Unavailable(o) PROVE OwnConnection'
  BY <1>3 DEF Unavailable, Elsewhere, Leaves
<1>4. ASSUME NEW o \in Orders, Take(o) PROVE OwnConnection'
  BY <1>4 DEF Take
<1>5. ASSUME NEW o \in Orders, EnsureConnected(o) PROVE OwnConnection'
  BY <1>5 DEF EnsureConnected, Dispatch, Leaves, LockFree, IsReady
<1>6. ASSUME NEW o \in Orders, WorkerConnected(o) PROVE OwnConnection'
  BY <1>6 DEF WorkerConnected, Dispatch, Leaves
<1>7. ASSUME NEW o \in Orders, WorkerUnconnected(o) PROVE OwnConnection'
  BY <1>7 DEF WorkerUnconnected, Resolve
<1>8. ASSUME NEW o \in Orders, Receive(o) PROVE OwnConnection'
  BY <1>8 DEF Receive, Resolve
<1>9. ASSUME NEW o \in Orders, Fail(o) PROVE OwnConnection'
  BY <1>9 DEF Fail, Resolve, CloseSocket
<1>10. ASSUME NEW m \in wire, Arrives(m) PROVE OwnConnection'
  BY <1>10 DEF Arrives
<1>11. CASE MaintConnects
  BY <1>11 DEF MaintConnects, IsReady
<1>12. CASE MaintConnected
  BY <1>12 DEF MaintConnected
<1>13. CASE Stop
  BY <1>13 DEF Stop
<1>14. CASE CloseBegins
  BY <1>14 DEF CloseBegins
<1>15. CASE WorkerCancelled
  BY <1>15 DEF WorkerCancelled, Resolve, Outcome
<1>16. CASE WorkerEnds
  BY <1>16 DEF WorkerEnds, CloseSocket
<1>17. CASE MaintEnds
  BY <1>17 DEF MaintEnds
<1>18. CASE CloseEnds
  BY <1>18 DEF CloseEnds, CloseSocket, Drained
<1>19. ASSUME NEW o \in Orders, SubmitUnsigned(o) \/ Answered(o) \/ RestAnswers(o)
          \/ Cancel(o)
     PROVE OwnConnection'
  BY <1>19 DEF SubmitUnsigned, Answered, RestAnswers, Cancel, Resolve
<1>20. CASE GivesUp \/ MaintUnconnected \/ Breaks \/ UNCHANGED vars
  BY <1>20 DEF GivesUp, MaintUnconnected, Breaks, vars
<1>21. QED
  BY <1>1, <1>2, <1>3, <1>4, <1>5, <1>6, <1>7, <1>8, <1>9, <1>10, <1>11, <1>12, <1>13,
     <1>14, <1>15, <1>16, <1>17, <1>18, <1>19, <1>20
     DEF Next, Submits, Resumes, Works, Worker, Maintenance, Closing, Environment

\* An answer without an id is the answer to the command in hand.
LEMMA NextTruthful ==
    TypeOK /\ Control /\ Sent /\ Carried /\ OwnConnection /\ Truthful /\ [Next]_vars => Truthful'
<1> SUFFICES ASSUME TypeOK, Control, Sent, Carried, OwnConnection, Truthful, [Next]_vars
             PROVE  Truthful'
  OBVIOUS
<1> USE BoundAssumption DEF TypeOK, Control, Sent, Carried, OwnConnection, Truthful,
        InUse, IsClosed, InHand, Verdicts, orderVars, signer, sockets, network
<1>1. ASSUME NEW o \in Orders, SubmitElsewhere(o) PROVE Truthful'
  BY <1>1 DEF SubmitElsewhere, MaySubmit, SignerHeld, Elsewhere, Leaves, AfterRefusal
<1>2. ASSUME NEW o \in Orders, SubmitUnsigned(o) PROVE Truthful'
  BY <1>2 DEF SubmitUnsigned, MaySubmit, SignerHeld
<1>3. ASSUME NEW o \in Orders, SubmitQueued(o) PROVE Truthful'
  BY <1>3 DEF SubmitQueued, MaySubmit, SignerHeld
<1>4. ASSUME NEW o \in Orders, Unavailable(o) PROVE Truthful'
  BY <1>4 DEF Unavailable, Elsewhere, Leaves
<1>5. ASSUME NEW o \in Orders, Answered(o) PROVE Truthful'
  BY <1>5 DEF Answered, Released
<1>6. ASSUME NEW o \in Orders, RestAnswers(o) PROVE Truthful'
  BY <1>6 DEF RestAnswers
<1>7. ASSUME NEW o \in Orders, Cancel(o) PROVE Truthful'
  BY <1>7 DEF Cancel, Resolve
<1>8. ASSUME NEW o \in Orders, WorkerUnconnected(o) PROVE Truthful'
  BY <1>8 DEF WorkerUnconnected, Resolve
<1>9. ASSUME NEW o \in Orders, Receive(o) PROVE Truthful'
  BY <1>9 DEF Receive, Resolve
<1>10. ASSUME NEW o \in Orders, Fail(o) PROVE Truthful'
  BY <1>10 DEF Fail, Resolve, CloseSocket
<1>11. ASSUME NEW m \in wire, Arrives(m) PROVE Truthful'
  BY <1>11 DEF Arrives
<1>12. CASE WorkerCancelled
  BY <1>12 DEF WorkerCancelled, Resolve, Outcome
<1>13. CASE CloseEnds
  BY <1>13 DEF CloseEnds, CloseSocket, Drained
<1>14. ASSUME NEW o \in Orders, Take(o) \/ EnsureConnected(o) \/ WorkerConnected(o)
     PROVE Truthful'
  BY <1>14 DEF Take, EnsureConnected, Dispatch, Leaves, WorkerConnected
<1>15. CASE GivesUp \/ MaintConnects \/ MaintConnected \/ MaintUnconnected \/ Stop
          \/ CloseBegins \/ WorkerEnds \/ MaintEnds \/ Breaks \/ UNCHANGED vars
  BY <1>15 DEF GivesUp, MaintConnects, MaintConnected, MaintUnconnected, Stop,
     CloseBegins, WorkerEnds, CloseSocket, MaintEnds, Breaks, vars
<1>16. QED
  BY <1>1, <1>2, <1>3, <1>4, <1>5, <1>6, <1>7, <1>8, <1>9, <1>10, <1>11, <1>12, <1>13,
     <1>14, <1>15
     DEF Next, Submits, Resumes, Works, Worker, Maintenance, Closing, Environment

\* A nonce is given back by its owner only, while it is the last one.
LEMMA NextSigned == TypeOK /\ Signed /\ [Next]_vars => Signed'
<1> SUFFICES ASSUME TypeOK, Signed, [Next]_vars
             PROVE  Signed'
  OBVIOUS
<1> USE BoundAssumption DEF TypeOK, Signed, Holds, Claims, Verdicts, orderVars, signer,
        sockets, network
<1>1. ASSUME NEW o \in Orders, SubmitElsewhere(o) PROVE Signed'
  BY <1>1 DEF SubmitElsewhere, MaySubmit, SignerHeld, Elsewhere, Leaves, IsClosed,
     AfterRefusal
<1>2. ASSUME NEW o \in Orders, SubmitUnsigned(o) PROVE Signed'
  BY <1>2 DEF SubmitUnsigned, MaySubmit, SignerHeld
<1>3. ASSUME NEW o \in Orders, SubmitQueued(o) PROVE Signed'
  BY <1>3 DEF SubmitQueued, MaySubmit, SignerHeld, IsClosed
<1>4. ASSUME NEW o \in Orders, Unavailable(o) PROVE Signed'
  BY <1>4 DEF Unavailable, Elsewhere, Leaves
<1>5. ASSUME NEW o \in Orders, Answered(o) PROVE Signed'
  BY <1>5 DEF Answered, Released
<1>6. ASSUME NEW o \in Orders, RestAnswers(o) PROVE Signed'
  BY <1>6 DEF RestAnswers
<1>7. ASSUME NEW o \in Orders, Cancel(o) PROVE Signed'
  BY <1>7 DEF Cancel, Resolve
<1>8. ASSUME NEW o \in Orders,
            Take(o) \/ EnsureConnected(o) \/ WorkerConnected(o)
          \/ WorkerUnconnected(o) \/ Receive(o) \/ Fail(o)
     PROVE Signed'
  BY <1>8 DEF Take, EnsureConnected, Dispatch, Leaves, WorkerConnected,
     WorkerUnconnected, Resolve, Receive, Fail, CloseSocket
<1>9. ASSUME NEW m \in wire, Arrives(m) PROVE Signed'
  BY <1>9 DEF Arrives
<1>10. CASE GivesUp \/ MaintConnects \/ MaintConnected \/ MaintUnconnected \/ Stop
          \/ CloseBegins \/ WorkerCancelled \/ WorkerEnds \/ MaintEnds \/ CloseEnds
          \/ Breaks \/ UNCHANGED vars
  BY <1>10 DEF GivesUp, MaintConnects, MaintConnected, MaintUnconnected, Stop,
     CloseBegins, WorkerCancelled, Resolve, WorkerEnds, CloseSocket, MaintEnds,
     CloseEnds, Breaks, vars
<1>11. QED
  BY <1>1, <1>2, <1>3, <1>4, <1>5, <1>6, <1>7, <1>8, <1>9, <1>10
     DEF Next, Submits, Resumes, Works, Worker, Maintenance, Closing, Environment

-----------------------------------------------------------------------------
(* The theorems *)

LEMMA InitIInv == Init => IInv
<1> SUFFICES ASSUME Init PROVE IInv
  OBVIOUS
<1> USE BoundAssumption DEF Init
<1>1. TypeOK
  BY DEF TypeOK, Sockets, CallerState, FutureState
<1>2. Control /\ Matched
  BY DEF Control, Matched, InHand, Live
<1>3. Sent /\ Carried
  BY DEF Sent, Unsent, Carried
<1>4. OwnConnection /\ Truthful /\ Signed
  BY DEF OwnConnection, Truthful, Signed, Holds, Claims, Verdicts
<1>5. QED
  BY <1>1, <1>2, <1>3, <1>4 DEF IInv

LEMMA NextIInv == IInv /\ [Next]_vars => IInv'
  BY NextTypes, NextControl, NextMatched, NextSent, NextCarried, NextOwnConnection,
     NextTruthful, NextSigned DEF IInv

LEMMA Inductive == Spec => []IInv
  BY InitIInv, NextIInv, PTL DEF Spec

\* Every variable keeps its type; the nonce in particular is a number, however often
\* it is given back.
THEOREM TypeCorrect == Spec => []TypeOK
<1>1. IInv => TypeOK
  BY DEF IInv
<1>2. QED
  BY <1>1, Inductive, PTL

\* Two orders that may be executed never bear the same nonce: who holds none, or was
\* refused or rejected, has no order that may be.
THEOREM NoncesUnique == Spec => []NoncesAreUnique
<1>1. ASSUME IInv, NEW o \in Orders, MayExecute(o) PROVE Claims(o)
  <2>1. caller[o] \notin {"idle", "refused"}
    BY <1>1 DEF IInv, Sent, Unsent, MayExecute
  <2>2. caller[o] # "rejected"
    BY <1>1 DEF IInv, Truthful, MayExecute, Verdicts
  <2>3. QED
    BY <1>1, <2>1, <2>2 DEF IInv, TypeOK, CallerState, Claims
<1>2. IInv => NoncesAreUnique
  BY <1>1 DEF IInv, Signed, NoncesAreUnique
<1>3. QED
  BY <1>2, Inductive, PTL

\* When close() has returned nothing waits and nothing is connected: a pending
\* future belongs to a command, and no task is left that could hold one.
THEOREM CloseQuiet == Spec => []ClosedIsQuiet
<1>1. IInv => ClosedIsQuiet
  BY DEF IInv, Control, Matched, Live, ClosedIsQuiet
<1>2. QED
  BY <1>1, Inductive, PTL

\* What the caller is told changes with its own state only.
LEMMA ToldStays == caller' = caller => Told' = Told
  BY DEF Told

\* Every step of the transport is a step of the promise, or leaves it as it is.
LEMMA StepRefines == IInv /\ [Next]_vars => [Promise!Next]_(Promise!vars)
<1> SUFFICES ASSUME IInv, [Next]_vars PROVE [Promise!Next]_(Promise!vars)
  OBVIOUS
<1> DEFINE Step == [Promise!Next]_(Promise!vars)
<1> USE DEF orderVars, signer, sockets, network
<1>1. ASSUME NEW o \in Orders, Promise!Leave(o) \/ Promise!Decide(o) \/ Promise!Tell(o)
      PROVE  Step
  BY <1>1 DEF Promise!Next
<1>2. ASSUME UNCHANGED <<copies, verdict, caller>> PROVE Step
  BY <1>2, ToldStays DEF Promise!vars
<1>3. ASSUME NEW o \in Orders, NEW s, Leaves(o, s), Told' = Told,
             copies[o] = 0, Told[o] \in {"nothing", "unknown"}
      PROVE  Step
  <2>1. copies' = [copies EXCEPT ![o] = 1] /\ verdict' = verdict
    BY <1>3 DEF Leaves
  <2>2. Promise!Leave(o)
    BY <1>3, <2>1 DEF Promise!Leave
  <2>3. QED
    BY <1>1, <2>2
<1>4. ASSUME NEW o \in Orders, NEW c \in CallerState, ToldOf(c) # "nothing",
             ToldOf(c) \in Verdicts => verdict[o] = ToldOf(c),
             ToldOf(c) = "refused" => copies[o] = 0,
             ToldOf(caller[o]) = "nothing", caller' = [caller EXCEPT ![o] = c],
             UNCHANGED <<copies, verdict>>
      PROVE  Step
  <2>1. Told[o] = "nothing" /\ Told' = [Told EXCEPT ![o] = ToldOf(c)]
    BY <1>4 DEF IInv, TypeOK, Told
  <2>2. Promise!Tell(o)
    BY <1>4, <2>1 DEF Promise!Tell, Promise!Verdicts, Verdicts, ToldOf, CallerState
  <2>3. QED
    BY <1>1, <2>2
<1>5. ASSUME NEW o \in Orders, Elsewhere(o), Holds(o) \/ caller[o] = "idle", copies[o] = 0
      PROVE  Step
  <2>1. ToldOf(caller[o]) = "nothing"
    BY <1>5 DEF Holds, ToldOf
  <2>2. CASE Leaves(o, 0) /\ caller' = [caller EXCEPT ![o] = "rest"]
    <3>1. Told' = Told /\ Told[o] = "nothing"
      BY <2>1, <2>2 DEF IInv, TypeOK, Told, ToldOf
    <3>2. QED
      BY <1>3, <1>5, <2>2, <3>1
  <2>3. CASE UNCHANGED network /\ caller' = [caller EXCEPT ![o] = "refused"]
    BY <1>4, <1>5, <2>1, <2>3 DEF ToldOf, CallerState, Verdicts
  <2>4. QED
    BY <1>5, <2>2, <2>3 DEF Elsewhere
<1>6. ASSUME NEW o \in Orders, NEW s, Dispatch(o, s), command[o] = "taken",
             UNCHANGED caller
      PROVE  Step
  <2>1. copies[o] = 0 /\ Told[o] \in {"nothing", "unknown"}
    BY <1>6 DEF IInv, TypeOK, Matched, Live, Sent, Unsent, Told, ToldOf
  <2>2. Told' = Told
    BY <1>6, ToldStays
  <2>3. QED
    BY <1>2, <1>3, <1>6, <2>1, <2>2 DEF Dispatch
<1>7. ASSUME NEW o \in Orders, SubmitElsewhere(o) PROVE Step
  BY <1>5, <1>7 DEF SubmitElsewhere, MaySubmit, IInv, Sent, Unsent
<1>8. ASSUME NEW o \in Orders, SubmitUnsigned(o) PROVE Step
  BY <1>4, <1>8 DEF SubmitUnsigned, MaySubmit, IInv, Sent, Unsent, ToldOf, CallerState,
     Verdicts
<1>9. ASSUME NEW o \in Orders, SubmitQueued(o) PROVE Step
  <2>1. Told' = Told
    BY <1>9 DEF SubmitQueued, MaySubmit, IInv, TypeOK, Told, ToldOf
  <2>2. QED
    BY <1>9, <2>1 DEF SubmitQueued, Promise!vars
<1>10. ASSUME NEW o \in Orders, Unavailable(o) PROVE Step
  BY <1>5, <1>10 DEF Unavailable, Holds, IInv, Sent, Unsent
<1>11. ASSUME NEW o \in Orders, Answered(o) PROVE Step
  BY <1>4, <1>11 DEF Answered, IInv, Truthful, ToldOf, CallerState, Verdicts
<1>12. ASSUME NEW o \in Orders, RestAnswers(o) PROVE Step
  BY <1>4, <1>12 DEF RestAnswers, ToldOf, CallerState, Verdicts
<1>13. ASSUME NEW o \in Orders, Cancel(o) PROVE Step
  BY <1>4, <1>13 DEF Cancel, ToldOf, CallerState, Verdicts
<1>14. ASSUME NEW o \in Orders, EnsureConnected(o) PROVE Step
  BY <1>2, <1>6, <1>14 DEF EnsureConnected
<1>15. ASSUME NEW o \in Orders, WorkerConnected(o) PROVE Step
  BY <1>6, <1>15 DEF WorkerConnected
<1>16. ASSUME NEW m \in wire, Arrives(m) PROVE Step
  <2>1. m.order \in Orders /\ copies[m.order] = 1 /\ verdict[m.order] = "none"
    BY DEF IInv, TypeOK, Carried
  <2>2. Promise!Decide(m.order)
    BY <1>16, <2>1, ToldStays DEF Arrives, Promise!Decide, Promise!Verdicts, Verdicts
  <2>3. QED
    BY <1>1, <2>1, <2>2
<1>17. ASSUME NEW o \in Orders, Take(o) \/ WorkerUnconnected(o) \/ Receive(o) \/ Fail(o)
       PROVE  Step
  BY <1>2, <1>17 DEF Take, WorkerUnconnected, Receive, Fail
<1>18. CASE GivesUp \/ Maintenance \/ Stop \/ CloseBegins \/ Closing \/ Breaks
            \/ UNCHANGED vars
  BY <1>2, <1>18 DEF GivesUp, Maintenance, MaintConnects, MaintConnected,
     MaintUnconnected, Stop, CloseBegins, Closing, WorkerCancelled, WorkerEnds, MaintEnds,
     CloseEnds, Breaks, vars
<1>19. QED
  BY <1>7, <1>8, <1>9, <1>10, <1>11, <1>12, <1>13, <1>14, <1>15, <1>16, <1>17, <1>18
     DEF Next, Submits, Resumes, Works, Worker, Environment

\* Over both transports an order leaves at most once, a caller that was told it did
\* not leave is never wrong, and a verdict it is told is the exchange's.
THEOREM SubmissionRefined == Spec => SentAtMostOnce
<1>1. Init => Promise!Init
  BY DEF Init, Promise!Init, Told, ToldOf
<1>2. QED
  BY <1>1, StepRefines, Inductive, PTL DEF Spec, SentAtMostOnce, Promise!Spec
=============================================================================
