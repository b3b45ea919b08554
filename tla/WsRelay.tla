------------------------------ MODULE WsRelay -------------------------------
(***************************************************************************)
(* A visitor's WebSocket, relayed to a WebSocket of the local application: *)
(* message credit both ways, the edge's buffer across hibernation, and the *)
(* close, which either end, the edge or the agent may start.               *)
(*                                                                         *)
(*   edge   src/edge/src/tunnel-object.ts (forwardVisitor, visitor and     *)
(*          agent messages, onAck, failVisitor, closeVisitorStream)        *)
(*   agent  src/internal/tunnel/ws_stream.go, msgCredit of flow.go         *)
(*                                                                         *)
(* One stream.  A message is its number; frames in flight are in order but *)
(* for the ACKs, which are counted apart: the agent's travel on its        *)
(* control queue, and the edge's commute with what they are sent among.    *)
(* The agent's stream is two goroutines, pumpEdge and pumpLocal, and the   *)
(* session's reader, which calls onFrame.                                  *)
(***************************************************************************)
EXTENDS Naturals, Sequences, FiniteSets

CONSTANTS
    WS_MSG_CREDIT,      \* unacknowledged messages per direction
    WS_MSG_TOLERANCE,   \* what the agent puts up with
    MAX_VISITOR,        \* bound: messages the visitor sends
    MAX_APP             \* bound: messages the application sends

ASSUME CreditAssumption ==
    /\ WS_MSG_CREDIT \in Nat \ {0}
    /\ WS_MSG_TOLERANCE \in Nat /\ WS_MSG_TOLERANCE >= WS_MSG_CREDIT
    /\ MAX_VISITOR \in Nat /\ MAX_APP \in Nat

VARIABLES
    \* The visitor and its VisitorAttachment at the edge
    visitor,        \* "none", "upgrading" (an HttpStream), "open", "closed", "refused"
    ending,         \* how an open visitor was closed: "none", "self", "app", "error"
    outstanding,    \* VisitorAttachment.outstanding
    pending,        \* VisitorAttachment.pending
    buffer,         \* wsBuffers of the stream, lost by hibernation
    sentV, gotV,    \* messages the visitor has sent (how many) and got (which)
    \* The wire
    up,             \* the agent's socket is OPEN
    toAgent,        \* frames to the agent
    acksToAgent,    \* ACK 1 frames to the agent
    data,           \* frames to the edge, from the agent's data queue on
    acksToEdge,     \* ACK 1 frames to the edge
    \* The agent
    agent,          \* "none", "dialing", "open", "ended" (run has returned)
    edgePump,       \* pumpEdge: "loop", "waiting" (select), "writing", "done"
    localPump,      \* pumpLocal: "reading", "holding" (credit.take), "closing", "done"
    inbox,          \* wsStream.inbox
    writing,        \* what pumpEdge writes to the application, 0 for nothing
    unacked,        \* wsStream.unacked
    wake,           \* the wake channel holds a token
    remoteClose,    \* the edge has sent WS_CLOSE
    localReq,       \* the agent has to close the local socket
    closeSent,      \* wsStream.closeSent
    closeCode,      \* what pumpLocal will report: "app" or "error"
    msgOut,         \* msgCredit.outstanding
    \* The application
    appClosed,      \* its socket is closed, by whichever side
    broken,         \* the local connection is torn: reads and writes fail
    sentA, readA,   \* messages it has sent, and pumpLocal has read
    gotA            \* messages it has got

visitorVars == <<visitor, ending, outstanding, pending, buffer, sentV, gotV>>
wireVars == <<up, toAgent, acksToAgent, data, acksToEdge>>
pumpVars == <<edgePump, localPump, closeCode, closeSent>>
inVars == <<inbox, writing, unacked, wake, remoteClose, localReq>>
appVars == <<appClosed, broken, sentA, gotA>>
vars == <<visitorVars, wireVars, agent, pumpVars, inVars, msgOut, readA, appVars>>

Message(n) == [type |-> "msg", n |-> n]
Head101 == [type |-> "head"]        \* REQ_HEAD, or RES_HEAD with status 101
Answer == [type |-> "answer"]       \* an HTTP response instead
Reset == [type |-> "reset"]
Close(code) == [type |-> "close", code |-> code]

Init ==
    /\ visitor = "none" /\ ending = "none"
    /\ outstanding = 0 /\ pending = FALSE /\ buffer = <<>>
    /\ sentV = 0 /\ gotV = <<>>
    /\ up = TRUE /\ toAgent = <<>> /\ acksToAgent = 0 /\ data = <<>> /\ acksToEdge = 0
    /\ agent = "none"
    /\ edgePump = "loop" /\ localPump = "reading"
    /\ closeCode = "error" /\ closeSent = FALSE
    /\ inbox = <<>> /\ writing = 0 /\ unacked = 0 /\ wake = FALSE
    /\ remoteClose = FALSE /\ localReq = FALSE
    /\ msgOut = 0 /\ readA = 0
    /\ appClosed = FALSE /\ broken = FALSE /\ sentA = 0 /\ gotA = <<>>
-----------------------------------------------------------------------------
(* The edge: the visitor's side.                                           *)

\* sendToAgent: to a socket that is not open nothing is sent.
Send(frames) == toAgent' = IF up THEN toAgent \o frames ELSE toAgent

\* forwardVisitor and HttpStream.start: REQ_HEAD with kind "ws".
Upgrade ==
    /\ visitor = "none" /\ up
    /\ visitor' = "upgrading"
    /\ Send(<<Head101>>)
    /\ UNCHANGED <<ending, outstanding, pending, buffer, sentV, gotV, up, acksToAgent,
                   data, acksToEdge, agent, pumpVars, inVars, msgOut, readA, appVars>>

\* The upgrade is given up before RES_HEAD: visitor gone, or head_timeout.
GiveUp ==
    /\ visitor = "upgrading"
    /\ visitor' = "refused"
    /\ Send(<<Reset>>)
    /\ UNCHANGED <<ending, outstanding, pending, buffer, sentV, gotV, up, acksToAgent,
                   data, acksToEdge, agent, pumpVars, inVars, msgOut, readA, appVars>>

\* failVisitor, closeVisitorStream, onSocketGone: att.closed, the buffer is
\* dropped, and WS_CLOSE tells the agent.
CloseVisitor(how) ==
    /\ visitor' = "closed"
    /\ ending' = how
    /\ buffer' = <<>>
    /\ Send(<<Close("error")>>)

\* onVisitorMessage: sent under credit, else buffered.  Too many or too long
\* messages, a budget that other streams have used up (`refused`), or an agent
\* that is gone close the visitor.
VisitorSends(refused) ==
    /\ visitor = "open"
    /\ sentV < MAX_VISITOR
    /\ sentV' = sentV + 1
    /\ \/ /\ up /\ ~refused
          /\ outstanding < WS_MSG_CREDIT /\ buffer = <<>>
          /\ outstanding' = outstanding + 1
          /\ Send(<<Message(sentV + 1)>>)
          /\ UNCHANGED <<visitor, ending, pending, buffer>>
       \/ /\ up /\ ~refused
          /\ outstanding = WS_MSG_CREDIT \/ buffer # <<>>
          /\ Len(buffer) < WS_MSG_CREDIT
          /\ buffer' = Append(buffer, sentV + 1)
          /\ pending' = TRUE
          /\ UNCHANGED <<visitor, ending, outstanding, toAgent>>
       \/ /\ \/ ~up \/ refused
             \/ outstanding = WS_MSG_CREDIT /\ Len(buffer) = WS_MSG_CREDIT
          /\ CloseVisitor("error")
          /\ pending' = FALSE
          /\ UNCHANGED outstanding
    /\ UNCHANGED <<gotV, up, acksToAgent, data, acksToEdge, agent, pumpVars, inVars,
                   msgOut, readA, appVars>>

\* onSocketGone of a visitor.
VisitorCloses ==
    /\ visitor = "open"
    /\ CloseVisitor("self")
    /\ UNCHANGED <<outstanding, pending, sentV, gotV, up, acksToAgent, data, acksToEdge,
                   agent, pumpVars, inVars, msgOut, readA, appVars>>

\* Mutant: the count of unacknowledged messages is not in the attachment.
HibernateUncounted ==
    /\ visitor \in {"open", "closed"}
    /\ IF pending /\ visitor = "open" THEN CloseVisitor("error") /\ pending' = FALSE
       ELSE buffer' = <<>> /\ UNCHANGED <<visitor, ending, pending, toAgent>>
    /\ outstanding' = 0
    /\ UNCHANGED <<sentV, gotV, up, acksToAgent, data, acksToEdge,
                   agent, pumpVars, inVars, msgOut, readA, appVars>>

\* The object is evicted and woken: what was buffered is lost, and the
\* constructor fails the visitors it was lost for.
Hibernate ==
    /\ visitor \in {"open", "closed"}
    /\ IF pending /\ visitor = "open" THEN CloseVisitor("error") /\ pending' = FALSE
       ELSE buffer' = <<>> /\ UNCHANGED <<visitor, ending, pending, toAgent>>
    /\ UNCHANGED <<outstanding, sentV, gotV, up, acksToAgent, data, acksToEdge,
                   agent, pumpVars, inVars, msgOut, readA, appVars>>
-----------------------------------------------------------------------------
(* The edge: frames from the agent.                                        *)

Least(a, b) == IF a <= b THEN a ELSE b

\* Mutant: an ACK frees credit, and the buffer waits for the next message.
RecvAckOnly ==
    /\ acksToEdge > 0
    /\ acksToEdge' = acksToEdge - 1
    /\ outstanding' = IF outstanding = 0 THEN 0 ELSE outstanding - 1
    /\ UNCHANGED <<visitor, ending, pending, buffer, sentV, gotV, up, toAgent, acksToAgent,
                   data, agent, pumpVars, inVars, msgOut, readA, appVars>>

\* onAck: credit comes back and the buffer is flushed as far as it goes.
RecvAck ==
    /\ acksToEdge > 0
    /\ acksToEdge' = acksToEdge - 1
    /\ LET left == IF outstanding = 0 THEN 0 ELSE outstanding - 1
           k == Least(Len(buffer), WS_MSG_CREDIT - left)
       IN  /\ outstanding' = left + k
           /\ Send([i \in 1 .. k |-> Message(buffer[i])])
           /\ buffer' = SubSeq(buffer, k + 1, Len(buffer))
    /\ pending' = (buffer' # <<>>)
    /\ UNCHANGED <<visitor, ending, sentV, gotV, up, acksToAgent, data,
                   agent, pumpVars, inVars, msgOut, readA, appVars>>

NextData(type) == data # <<>> /\ Head(data).type = type /\ data' = Tail(data)

\* RES_HEAD: acceptVisitorSocket, or the response of a refused upgrade.  For a
\* stream that is over the frame is ignored.
RecvResHead ==
    /\ \E type \in {"head", "answer"} :
        /\ NextData(type)
        /\ visitor' = IF visitor # "upgrading" THEN visitor
                      ELSE IF type = "head" THEN "open" ELSE "refused"
    /\ UNCHANGED <<ending, outstanding, pending, buffer, sentV, gotV, up, toAgent,
                   acksToAgent, acksToEdge, agent, pumpVars, inVars, msgOut, readA, appVars>>

\* agentWsMessage: delivered and acknowledged; a closed socket throws.
RecvMessage ==
    /\ NextData("msg")
    /\ IF visitor = "open"
       THEN gotV' = Append(gotV, Head(data).n) /\ acksToAgent' = acksToAgent + 1
       ELSE UNCHANGED <<gotV, acksToAgent>>
    /\ UNCHANGED <<visitor, ending, outstanding, pending, buffer, sentV, up, toAgent,
                   acksToEdge, agent, pumpVars, inVars, msgOut, readA, appVars>>

\* WS_CLOSE: closeVisitorStream, unless the visitor is closed already.
RecvClose ==
    /\ NextData("close")
    /\ IF visitor = "open"
       THEN CloseVisitor(Head(data).code) /\ pending' = FALSE
       ELSE UNCHANGED <<visitor, ending, buffer, pending, toAgent>>
    /\ UNCHANGED <<outstanding, sentV, gotV, up, acksToAgent, acksToEdge, agent,
                   pumpVars, inVars, msgOut, readA, appVars>>

\* The agent's socket drops, with what is on the wire.
LinkDown ==
    /\ up
    /\ up' = FALSE
    /\ toAgent' = <<>> /\ data' = <<>> /\ acksToAgent' = 0 /\ acksToEdge' = 0
    /\ UNCHANGED <<visitorVars, agent, pumpVars, inVars, msgOut, readA, appVars>>

\* agentGone: the upgrade fails, an open visitor is closed.
AgentGone ==
    /\ ~up
    /\ \/ visitor = "upgrading" /\ visitor' = "refused" /\ UNCHANGED <<ending, buffer>>
       \/ visitor = "open" /\ visitor' = "closed" /\ ending' = "error" /\ buffer' = <<>>
    /\ UNCHANGED <<outstanding, pending, sentV, gotV, wireVars, agent, pumpVars, inVars,
                   msgOut, readA, appVars>>
-----------------------------------------------------------------------------
(* The agent: the session's reader.                                        *)

NextFrame(type) == toAgent # <<>> /\ Head(toAgent).type = type /\ toAgent' = Tail(toAgent)
Running == agent \in {"dialing", "open"}

\* openStream; REQ_HEAD is the stream's first frame.
RecvReqHead ==
    /\ NextFrame("head")
    /\ agent' = "dialing"
    /\ UNCHANGED <<visitorVars, up, acksToAgent, data, acksToEdge, pumpVars, inVars,
                   msgOut, readA, appVars>>

\* onFrame, a message: into the inbox, or the edge has exceeded its credit.
RecvFromEdge ==
    /\ NextFrame("msg")
    /\ IF Running
       THEN /\ wake' = TRUE
            /\ IF unacked >= WS_MSG_TOLERANCE
               THEN localReq' = TRUE /\ UNCHANGED <<inbox, unacked>>
               ELSE /\ unacked' = unacked + 1
                    /\ inbox' = Append(inbox, Head(toAgent).n)
                    /\ UNCHANGED localReq
       ELSE UNCHANGED <<wake, localReq, inbox, unacked>>
    /\ UNCHANGED <<visitorVars, up, acksToAgent, data, acksToEdge, agent, pumpVars,
                   writing, remoteClose, msgOut, readA, appVars>>

\* Mutant: WS_CLOSE is noted but pumpEdge is not signalled.
RecvEdgeCloseUnsignalled ==
    /\ NextFrame("close")
    /\ remoteClose' = (remoteClose \/ Running)
    /\ UNCHANGED <<visitorVars, up, acksToAgent, data, acksToEdge, agent, pumpVars,
                   inbox, writing, unacked, wake, localReq, msgOut, readA, appVars>>

\* onFrame, WS_CLOSE.
RecvEdgeClose ==
    /\ NextFrame("close")
    /\ remoteClose' = (remoteClose \/ Running)
    /\ wake' = (wake \/ Running)
    /\ UNCHANGED <<visitorVars, up, acksToAgent, data, acksToEdge, agent, pumpVars,
                   inbox, writing, unacked, localReq, msgOut, readA, appVars>>

\* onFrame, RESET.
RecvReset ==
    /\ NextFrame("reset")
    /\ localReq' = (localReq \/ Running)
    /\ wake' = (wake \/ Running)
    /\ UNCHANGED <<visitorVars, up, acksToAgent, data, acksToEdge, agent, pumpVars,
                   inbox, writing, unacked, remoteClose, msgOut, readA, appVars>>

\* onFrame, ACK.
RecvEdgeAck ==
    /\ acksToAgent > 0
    /\ acksToAgent' = acksToAgent - 1
    /\ msgOut' = IF Running /\ msgOut > 0 THEN msgOut - 1 ELSE msgOut
    /\ UNCHANGED <<visitorVars, up, toAgent, data, acksToEdge, agent, pumpVars, inVars,
                   readA, appVars>>
-----------------------------------------------------------------------------
(* The agent: run and pumpEdge.                                            *)

\* dial succeeds: RES_HEAD 101, and the pumps start.
Dial ==
    /\ agent = "dialing" /\ up
    /\ agent' = "open"
    /\ data' = Append(data, Head101)
    /\ UNCHANGED <<visitorVars, up, toAgent, acksToAgent, acksToEdge, pumpVars, inVars,
                   msgOut, readA, appVars>>

\* The application refuses the upgrade, or cannot be reached.
DialFails ==
    /\ agent = "dialing" /\ up
    /\ agent' = "ended"
    /\ data' = Append(data, Answer)
    /\ appClosed' = TRUE
    /\ UNCHANGED <<visitorVars, up, toAgent, acksToAgent, acksToEdge, pumpVars, inVars,
                   msgOut, readA, broken, sentA, gotA>>

Closing == remoteClose \/ localReq

\* A message is taken from the inbox and written, unless a close is due.
Take ==
    /\ agent = "open" /\ edgePump = "loop" /\ inbox # <<>> /\ ~Closing
    /\ writing' = Head(inbox)
    /\ inbox' = Tail(inbox)
    /\ edgePump' = "writing"
    /\ UNCHANGED <<visitorVars, wireVars, agent, localPump, closeCode, closeSent, unacked,
                   wake, remoteClose, localReq, msgOut, readA, appVars>>

\* With a close due, what is queued is dropped.
Drop ==
    /\ agent = "open" /\ edgePump = "loop" /\ inbox # <<>> /\ Closing
    /\ inbox' = Tail(inbox)
    /\ localReq' = TRUE
    /\ wake' = TRUE
    /\ UNCHANGED <<visitorVars, wireVars, agent, pumpVars, writing, unacked, remoteClose,
                   msgOut, readA, appVars>>

\* The application gets what is written, unless it has closed.
Deliver == gotA' = IF appClosed THEN gotA ELSE Append(gotA, writing)

\* Written: ACK 1 goes out.
WriteDone ==
    /\ edgePump = "writing" /\ ~broken
    /\ Deliver
    /\ unacked' = unacked - 1
    /\ acksToEdge' = IF up THEN acksToEdge + 1 ELSE acksToEdge
    /\ writing' = 0
    /\ edgePump' = "loop"
    /\ UNCHANGED <<visitorVars, up, toAgent, acksToAgent, data, agent, localPump, closeCode,
                   closeSent, inbox, wake, remoteClose, localReq, msgOut, readA,
                   appClosed, broken, sentA>>

\* The write fails: interrupted by a close, timed out, or the connection is
\* gone.  The application may have got the message all the same.
WriteFails ==
    /\ edgePump = "writing"
    /\ \/ ~broken /\ Deliver
       \/ UNCHANGED gotA
    /\ broken' = TRUE
    /\ localReq' = TRUE
    /\ wake' = TRUE
    /\ writing' = 0
    /\ edgePump' = "loop"
    /\ UNCHANGED <<visitorVars, wireVars, agent, localPump, closeCode, closeSent, inbox,
                   unacked, remoteClose, msgOut, readA, appClosed, sentA>>

\* sendClose: WS_CLOSE at most once.
SendClose(code) ==
    /\ closeSent' = TRUE
    /\ data' = IF up /\ ~closeSent THEN Append(data, Close(code)) ELSE data

\* The close is carried out: the local socket is closed, the edge told, and
\* pumpEdge returns, which cancels the stream.
HandleClose ==
    /\ agent = "open" /\ edgePump = "loop" /\ inbox = <<>> /\ Closing
    /\ SendClose("error")
    /\ appClosed' = TRUE
    /\ edgePump' = "done"
    /\ UNCHANGED <<visitorVars, up, toAgent, acksToAgent, acksToEdge, agent, localPump,
                   closeCode, inVars, msgOut, readA, broken, sentA, gotA>>

\* Nothing to do: select.
Wait ==
    /\ agent = "open" /\ edgePump = "loop" /\ inbox = <<>> /\ ~Closing
    /\ edgePump' = "waiting"
    /\ UNCHANGED <<visitorVars, wireVars, agent, localPump, closeCode, closeSent, inVars,
                   msgOut, readA, appVars>>

Woken ==
    /\ edgePump = "waiting" /\ wake
    /\ wake' = FALSE
    /\ edgePump' = "loop"
    /\ UNCHANGED <<visitorVars, wireVars, agent, localPump, closeCode, closeSent, inbox,
                   writing, unacked, remoteClose, localReq, msgOut, readA, appVars>>

\* select may take localDone although wake is ready.
SeesLocalDone ==
    /\ edgePump = "waiting" /\ localPump = "done"
    /\ edgePump' = "done"
    /\ appClosed' = TRUE
    /\ UNCHANGED <<visitorVars, wireVars, agent, localPump, closeCode, closeSent, inVars,
                   msgOut, readA, broken, sentA, gotA>>

\* run returns once both pumps have.
RunReturns ==
    /\ agent = "open" /\ edgePump = "done" /\ localPump = "done"
    /\ agent' = "ended"
    /\ UNCHANGED <<visitorVars, wireVars, pumpVars, inVars, msgOut, readA, appVars>>

\* The session is over: its context ends whatever the stream is doing.
SessionOver ==
    /\ ~up /\ Running
    /\ agent' = "ended"
    /\ edgePump' = "done" /\ localPump' = "done"
    /\ appClosed' = TRUE
    /\ UNCHANGED <<visitorVars, wireVars, closeCode, closeSent, inVars, msgOut, readA,
                   broken, sentA, gotA>>
-----------------------------------------------------------------------------
(* The agent: pumpLocal.                                                   *)

Read ==
    /\ agent = "open" /\ localPump = "reading" /\ ~broken
    /\ readA < sentA
    /\ readA' = readA + 1
    /\ localPump' = "holding"
    /\ UNCHANGED <<visitorVars, wireVars, agent, edgePump, closeCode, closeSent, inVars,
                   msgOut, appVars>>

\* credit.take and sendData.
Relay ==
    /\ localPump = "holding"
    /\ msgOut < WS_MSG_CREDIT
    /\ msgOut' = msgOut + 1
    /\ data' = IF up THEN Append(data, Message(readA)) ELSE data
    /\ localPump' = "reading"
    /\ UNCHANGED <<visitorVars, up, toAgent, acksToAgent, acksToEdge, agent, edgePump,
                   closeCode, closeSent, inVars, readA, appVars>>

\* Read fails: the application has closed and everything it sent is read, or the
\* connection is torn.  A close that is due already will be reported by pumpEdge.
ReadFails ==
    /\ agent = "open" /\ localPump = "reading"
    /\ broken \/ (appClosed /\ readA = sentA)
    /\ closeCode' = IF broken THEN "error" ELSE "app"
    /\ localPump' = IF Closing THEN "done" ELSE "closing"
    /\ wake' = (wake \/ Closing)
    /\ UNCHANGED <<visitorVars, wireVars, agent, edgePump, closeSent, inbox, writing, unacked,
                   remoteClose, localReq, msgOut, readA, appVars>>

\* Mutant: WS_CLOSE goes through the control queue and overtakes messages.
LocalClosesEarly ==
    /\ localPump = "closing"
    /\ closeSent' = TRUE
    /\ data' = IF up /\ ~closeSent THEN <<Close(closeCode)>> \o data ELSE data
    /\ localPump' = "done"
    /\ wake' = TRUE
    /\ UNCHANGED <<visitorVars, up, toAgent, acksToAgent, acksToEdge, agent, edgePump,
                   closeCode, inbox, writing, unacked, remoteClose, localReq,
                   msgOut, readA, appVars>>

LocalCloses ==
    /\ localPump = "closing"
    /\ SendClose(closeCode)
    /\ localPump' = "done"
    /\ wake' = TRUE
    /\ UNCHANGED <<visitorVars, up, toAgent, acksToAgent, acksToEdge, agent, edgePump,
                   closeCode, inbox, writing, unacked, remoteClose, localReq,
                   msgOut, readA, appVars>>

\* Cancelled: Read, take and sendData return.
Cancelled ==
    /\ edgePump = "done" /\ localPump # "done"
    /\ localPump' = "done"
    /\ UNCHANGED <<visitorVars, wireVars, agent, edgePump, closeCode, closeSent, inVars,
                   msgOut, readA, appVars>>
-----------------------------------------------------------------------------
(* The application.                                                        *)

AppLives == agent = "open" /\ ~appClosed /\ ~broken

AppSends ==
    /\ AppLives
    /\ sentA < MAX_APP
    /\ sentA' = sentA + 1
    /\ UNCHANGED <<visitorVars, wireVars, agent, pumpVars, inVars, msgOut, readA,
                   appClosed, broken, gotA>>

\* It closes, or its connection breaks.
AppEnds ==
    /\ AppLives
    /\ appClosed' = TRUE
    /\ broken' \in BOOLEAN
    /\ UNCHANGED <<visitorVars, wireVars, agent, pumpVars, inVars, msgOut, readA,
                   sentA, gotA>>
-----------------------------------------------------------------------------
Edge ==
    \/ Upgrade \/ GiveUp \/ VisitorCloses \/ Hibernate \/ LinkDown \/ AgentGone
    \/ \E refused \in BOOLEAN : VisitorSends(refused)
    \/ RecvAck \/ RecvResHead \/ RecvMessage \/ RecvClose

Agent ==
    \/ RecvReqHead \/ RecvFromEdge \/ RecvEdgeClose \/ RecvReset \/ RecvEdgeAck
    \/ Dial \/ DialFails \/ SessionOver \/ RunReturns
    \/ Take \/ Drop \/ WriteDone \/ WriteFails \/ HandleClose \/ Wait \/ Woken \/ SeesLocalDone
    \/ Read \/ Relay \/ ReadFails \/ LocalCloses \/ Cancelled

Next == Edge \/ Agent \/ AppSends \/ AppEnds

\* Handlers of the edge, goroutines of the agent and the network run; dial and
\* write end, if only by their timeouts.
Progress ==
    /\ WF_vars(AgentGone) /\ WF_vars(RecvAck) /\ WF_vars(RecvResHead)
    /\ WF_vars(RecvMessage) /\ WF_vars(RecvClose)
    /\ WF_vars(RecvReqHead) /\ WF_vars(RecvFromEdge) /\ WF_vars(RecvEdgeClose)
    /\ WF_vars(RecvReset) /\ WF_vars(RecvEdgeAck)
    /\ WF_vars(Dial \/ DialFails) /\ WF_vars(SessionOver) /\ WF_vars(RunReturns)
    /\ WF_vars(Take) /\ WF_vars(Drop) /\ WF_vars(WriteDone \/ WriteFails)
    /\ WF_vars(HandleClose) /\ WF_vars(Wait) /\ WF_vars(Woken \/ SeesLocalDone)
    /\ WF_vars(Read \/ ReadFails) /\ WF_vars(Relay) /\ WF_vars(LocalCloses)
    /\ WF_vars(Cancelled)

Spec == Init /\ [][Next]_vars
FairSpec == Spec /\ Progress
-----------------------------------------------------------------------------
(* Properties.                                                             *)

Uplink == INSTANCE Pipe WITH
    sent <- sentV, got <- gotA, over <- appClosed, clean <- FALSE
Downlink == INSTANCE Pipe WITH
    sent <- sentA, got <- gotV, over <- visitor = "closed", clean <- ending = "app"

\* Both directions are pipes: in order, once, without a gap and never after the
\* end, through credit, buffer, inbox, interrupted writes and hibernation; and a
\* visitor that sees the application's own close has got all its messages.
RelayIsTwoPipes == Uplink!Spec /\ Downlink!Spec

Messages(frames) == Cardinality({i \in DOMAIN frames : frames[i].type = "msg"})

Healthy == visitor = "open" /\ up /\ agent = "open"

\* Message credit neither leaks nor grows, though the edge keeps its count in an
\* attachment and the agent in memory (PROTOCOL.md section 5.3): what is
\* outstanding is on the wire, at the receiver, or coming back as an ACK.
CreditConserved ==
    /\ Healthy /\ ~Closing =>
        outstanding = Messages(toAgent) + unacked + acksToEdge
    /\ Healthy => msgOut = Messages(data) + acksToAgent

AgentOver == (agent = "ended" /\ appClosed) \/ (agent = "none" /\ ~up)
VisitorOver == visitor \in {"closed", "refused"}

\* Whichever end closes, and whichever goroutine notices, the other end is told.
EndsMeet ==
    /\ VisitorOver ~> AgentOver
    /\ appClosed ~> VisitorOver

\* What was sent arrives or the relay ends: credit, buffer and inbox never
\* strand a message.
MessagesArrive ==
    /\ Len(gotA) < sentV ~> (Len(gotA) = sentV \/ VisitorOver \/ appClosed)
    /\ Len(gotV) < sentA ~> (Len(gotV) = sentA \/ VisitorOver)
=============================================================================
