---------------------------- MODULE RequestFlow -----------------------------
(***************************************************************************)
(* Request bodies: the visitor's body, pumped by the edge under stream and *)
(* connection send credit, fed by the agent to the local application, and  *)
(* the credit that travels back.                                           *)
(*                                                                         *)
(*   edge   src/edge/src/protocol/http-stream.ts, protocol/flow.ts,        *)
(*          and AgentConn, dispatch, persistIdle, conn of tunnel-object.ts *)
(*   agent  src/internal/tunnel/http_stream.go (onFrame, feed, run) and    *)
(*          session.go (dispatch, removeStream, grantConn, flushConn)      *)
(*                                                                         *)
(* The streams of one connection (one epoch) share the WebSocket.  A body  *)
(* is a number of bytes: the content plays no part.  Frames in flight are  *)
(* kept per stream, since frames of different streams commute: bodyWire    *)
(* counts the REQ_BODY bytes (where one frame ends and the next begins is  *)
(* left open, a delivery takes any part of them up to MAX_BODY_CHUNK) and  *)
(* toAgent holds the other frames, REQ_HEAD before and REQ_END or RESET    *)
(* behind the body.  WINDOW and RESET overtake RES_END on the agent's      *)
(* control channel, so toEdge is unordered.                                *)
(***************************************************************************)
EXTENDS Naturals, FiniteSets, Functions

CONSTANTS
    Streams,            \* stream ids allocated during one connection
    STREAM_WINDOW,      \* initial credit of a stream
    CONN_WINDOW,        \* initial credit of the connection
    MAX_BODY_CHUNK,     \* longest body frame
    Bodies              \* bound: the lengths of request body of the model

ASSUME ConstantsAssumption ==
    /\ IsFiniteSet(Streams)
    /\ STREAM_WINDOW \in Nat \ {0}
    /\ CONN_WINDOW \in Nat \ {0}
    /\ MAX_BODY_CHUNK \in Nat \ {0}
    /\ Bodies \subseteq Nat

VARIABLES
    \* The edge
    edge,           \* HttpStream: "idle", "open", "ended" (RES_END seen) or "done"
    bodyLeft,       \* bytes the visitor's body still has for the pump
    reqEndSent,     \* HttpStream.reqEndSent
    credit,         \* HttpStream.sendCredit
    connCredit,     \* AgentConn.connCredit, in memory
    savedCredit,    \* AgentAttachment.sendCredit, survives hibernation
    \* The wire
    toAgent,        \* subset of {"head", "end", "reset"} in flight
    bodyWire,       \* REQ_BODY bytes in flight
    toEdge,         \* subset of {"end", "reset"}: RES_END, RESET in flight
    winWire,        \* bytes in stream WINDOW frames in flight
    connWire,       \* bytes in WINDOW(0) frames in flight
    \* The agent
    agent,          \* "none", "open" (run is running), "returned", "removed"
    cancelled,      \* httpStream.ctx is cancelled
    pipeClosed,     \* the local application reads no more of the body
    reqEnded,       \* httpStream.reqEnded
    fed,            \* httpStream.fed: the feeder has exited
    queued,         \* httpStream.queued
    ungranted,      \* feed's local ungranted
    connUngranted,  \* session.connUngranted
    overrun         \* the agent reset the stream with flow_control

edgeVars == <<edge, bodyLeft, reqEndSent, credit, connCredit, savedCredit>>
agentVars == <<agent, cancelled, pipeClosed, reqEnded, fed, queued, ungranted,
               connUngranted, overrun>>
wireVars == <<toAgent, bodyWire, toEdge, winWire, connWire>>
vars == <<edgeVars, agentVars, wireVars>>

EdgeStates == {"idle", "open", "ended", "done"}
AgentStates == {"none", "open", "returned", "removed"}

TypeOK ==
    /\ edge \in [Streams -> EdgeStates]
    /\ bodyLeft \in [Streams -> Nat]
    /\ reqEndSent \in [Streams -> BOOLEAN]
    /\ credit \in [Streams -> Nat]
    /\ connCredit \in Nat
    /\ savedCredit \in Nat
    /\ toAgent \in [Streams -> SUBSET {"head", "end", "reset"}]
    /\ bodyWire \in [Streams -> Nat]
    /\ toEdge \in [Streams -> SUBSET {"end", "reset"}]
    /\ winWire \in [Streams -> Nat]
    /\ connWire \in Nat
    /\ agent \in [Streams -> AgentStates]
    /\ cancelled \in [Streams -> BOOLEAN]
    /\ pipeClosed \in [Streams -> BOOLEAN]
    /\ reqEnded \in [Streams -> BOOLEAN]
    /\ fed \in [Streams -> BOOLEAN]
    /\ queued \in [Streams -> Nat]
    /\ ungranted \in [Streams -> Nat]
    /\ connUngranted \in Nat
    /\ overrun \in [Streams -> BOOLEAN]

Init ==
    /\ edge = [s \in Streams |-> "idle"]
    /\ bodyLeft = [s \in Streams |-> 0]
    /\ reqEndSent = [s \in Streams |-> FALSE]
    /\ credit = [s \in Streams |-> STREAM_WINDOW]
    /\ connCredit = CONN_WINDOW
    /\ savedCredit = CONN_WINDOW
    /\ toAgent = [s \in Streams |-> {}]
    /\ bodyWire = [s \in Streams |-> 0]
    /\ toEdge = [s \in Streams |-> {}]
    /\ winWire = [s \in Streams |-> 0]
    /\ connWire = 0
    /\ agent = [s \in Streams |-> "none"]
    /\ cancelled = [s \in Streams |-> FALSE]
    /\ pipeClosed = [s \in Streams |-> FALSE]
    /\ reqEnded = [s \in Streams |-> FALSE]
    /\ fed = [s \in Streams |-> FALSE]
    /\ queued = [s \in Streams |-> 0]
    /\ ungranted = [s \in Streams |-> 0]
    /\ connUngranted = 0
    /\ overrun = [s \in Streams |-> FALSE]

Least(a, b) == IF a <= b THEN a ELSE b
-----------------------------------------------------------------------------
(* The edge.                                                               *)

EdgeActive(s) == edge[s] \in {"open", "ended"}

\* Mutant: persistIdle is forgotten.
EdgeDoneUnsaved(s) ==
    edge' = [edge EXCEPT ![s] = "done"] /\ UNCHANGED savedCredit

\* finish and onDone: the stream leaves the connection; the last one to do
\* so writes the send credit to the attachment (persistIdle).
EdgeDone(s) ==
    /\ edge' = [edge EXCEPT ![s] = "done"]
    /\ savedCredit' = IF \A t \in Streams \ {s} : ~EdgeActive(t)
                      THEN connCredit ELSE savedCredit

\* start: a visitor request with a body of n bytes gets a stream.
Start(s, n) ==
    /\ edge[s] = "idle"
    /\ edge' = [edge EXCEPT ![s] = "open"]
    /\ bodyLeft' = [bodyLeft EXCEPT ![s] = n]
    /\ toAgent' = [toAgent EXCEPT ![s] = {"head"}]
    /\ UNCHANGED <<reqEndSent, credit, connCredit, savedCredit, bodyWire,
                   toEdge, winWire, connWire, agentVars>>

\* Mutant: acquireCredit looks at the connection credit only.
PumpBytesOfConn(s, want) == Least(want, connCredit)

\* One round of the pump: acquireCredit takes the least of what the visitor
\* offers and both credits, and the bytes go out as one REQ_BODY.
PumpBytes(s, want) == Least(want, Least(credit[s], connCredit))

Pump(s, want) ==
    /\ edge[s] = "open"
    /\ want <= Least(bodyLeft[s], MAX_BODY_CHUNK)
    /\ LET n == PumpBytes(s, want) IN
       /\ n > 0
       /\ credit' = [credit EXCEPT ![s] = @ - n]
       /\ connCredit' = connCredit - n
       /\ bodyLeft' = [bodyLeft EXCEPT ![s] = @ - n]
       /\ bodyWire' = [bodyWire EXCEPT ![s] = @ + n]
    /\ UNCHANGED <<edge, reqEndSent, savedCredit, toAgent, toEdge, winWire,
                   connWire, agentVars>>

\* The visitor's body is finished: sendReqEnd.
PumpEnd(s) ==
    /\ edge[s] = "open"
    /\ bodyLeft[s] = 0
    /\ ~reqEndSent[s]
    /\ reqEndSent' = [reqEndSent EXCEPT ![s] = TRUE]
    /\ toAgent' = [toAgent EXCEPT ![s] = @ \cup {"end"}]
    /\ UNCHANGED <<edge, bodyLeft, credit, connCredit, savedCredit, bodyWire,
                   toEdge, winWire, connWire, agentVars>>

\* reset by the edge: the visitor went away, head_timeout, stream_timeout,
\* long_stream_budget, or credit_timeout.
EdgeReset(s) ==
    /\ EdgeActive(s)
    /\ EdgeDone(s)
    /\ toAgent' = [toAgent EXCEPT ![s] = @ \cup {"reset"}]
    /\ UNCHANGED <<bodyLeft, reqEndSent, credit, connCredit, bodyWire, toEdge,
                   winWire, connWire, agentVars>>

\* The pump has waited creditTimeoutMs without any credit.
CreditTimeout(s) ==
    /\ edge[s] = "open"
    /\ bodyLeft[s] > 0
    /\ Least(credit[s], connCredit) = 0
    /\ EdgeReset(s)

\* WINDOW of a stream: dropped when the stream is no longer known.
RecvWindow(s) ==
    /\ winWire[s] > 0
    /\ winWire' = [winWire EXCEPT ![s] = 0]
    /\ credit' = [credit EXCEPT ![s] = IF EdgeActive(s) THEN @ + winWire[s] ELSE @]
    /\ UNCHANGED <<edge, bodyLeft, reqEndSent, connCredit, savedCredit, toAgent,
                   bodyWire, toEdge, connWire, agentVars>>

\* WINDOW of stream 0: the credit in memory grows, the attachment does not.
RecvConnWindow ==
    /\ connWire > 0
    /\ connWire' = 0
    /\ connCredit' = connCredit + connWire
    /\ UNCHANGED <<edge, bodyLeft, reqEndSent, credit, savedCredit, toAgent,
                   bodyWire, toEdge, winWire, agentVars>>

\* onResEnd: the pump is stopped and the agent told that the request is over.
RecvResEnd(s) ==
    /\ "end" \in toEdge[s]
    /\ toEdge' = [toEdge EXCEPT ![s] = @ \ {"end"}]
    /\ IF edge[s] = "open"
       THEN /\ edge' = [edge EXCEPT ![s] = "ended"]
            /\ reqEndSent' = [reqEndSent EXCEPT ![s] = TRUE]
            /\ toAgent' = IF reqEndSent[s] THEN toAgent
                          ELSE [toAgent EXCEPT ![s] = @ \cup {"end"}]
       ELSE UNCHANGED <<edge, reqEndSent, toAgent>>
    /\ UNCHANGED <<bodyLeft, credit, connCredit, savedCredit, bodyWire, winWire,
                   connWire, agentVars>>

\* The visitor has taken the last response byte: writer.close resolves.
EdgeFinish(s) ==
    /\ edge[s] = "ended"
    /\ EdgeDone(s)
    /\ UNCHANGED <<bodyLeft, reqEndSent, credit, connCredit, agentVars, wireVars>>

\* RESET from the agent.
RecvReset(s) ==
    /\ "reset" \in toEdge[s]
    /\ toEdge' = [toEdge EXCEPT ![s] = @ \ {"reset"}]
    /\ IF EdgeActive(s) THEN EdgeDone(s) ELSE UNCHANGED <<edge, savedCredit>>
    /\ UNCHANGED <<bodyLeft, reqEndSent, credit, connCredit, toAgent, bodyWire,
                   winWire, connWire, agentVars>>

\* The idle Durable Object is evicted while its sockets stay open; conn
\* rebuilds the connection from the attachment when the next frame arrives.
Hibernate ==
    /\ \A s \in Streams : ~EdgeActive(s)
    /\ connCredit' = savedCredit
    /\ UNCHANGED <<edge, bodyLeft, reqEndSent, credit, savedCredit, agentVars,
                   wireVars>>
-----------------------------------------------------------------------------
(* The agent.                                                              *)

InMap(s) == agent[s] \in {"open", "returned"}

\* Mutants: the granted bytes are counted on, and granted again; a grant waits
\* for more than a whole window.
GrantStreamTwice(s, k) ==
    LET u == ungranted[s] + k
        flush == u >= STREAM_WINDOW \div 4
    IN  /\ winWire' = [winWire EXCEPT ![s] = IF flush THEN @ + u ELSE @]
        /\ ungranted' = [ungranted EXCEPT ![s] = u]
GrantStreamLate(s, k) ==
    LET u == ungranted[s] + k
        flush == u > STREAM_WINDOW
    IN  /\ winWire' = [winWire EXCEPT ![s] = IF flush THEN @ + u ELSE @]
        /\ ungranted' = [ungranted EXCEPT ![s] = IF flush THEN 0 ELSE u]

\* feed's grant: a quarter window of consumed bytes goes back in one WINDOW.
GrantStream(s, k) ==
    LET u == ungranted[s] + k
        flush == u >= STREAM_WINDOW \div 4
    IN  /\ winWire' = [winWire EXCEPT ![s] = IF flush THEN @ + u ELSE @]
        /\ ungranted' = [ungranted EXCEPT ![s] = IF flush THEN 0 ELSE u]

\* Mutant: bytes that come when no stream is active are not granted.
GrantConnOfActive(n, active) ==
    LET u == connUngranted + IF active THEN n ELSE 0
        flush == u >= CONN_WINDOW \div 4 \/ ~active
    IN  /\ connWire' = IF flush THEN connWire + u ELSE connWire
        /\ connUngranted' = IF flush THEN 0 ELSE u

\* grantConn: n bytes consumed or discarded, coalesced at a quarter window
\* while streams are active.
GrantConn(n, active) ==
    LET u == connUngranted + n
        flush == u >= CONN_WINDOW \div 4 \/ ~active
    IN  /\ connWire' = IF flush THEN connWire + u ELSE connWire
        /\ connUngranted' = IF flush THEN 0 ELSE u

\* Mutant: the queued bytes are forgotten.
FlushOnly(n) == connWire' = connWire + connUngranted + 0 * n /\ connUngranted' = 0

\* grantConn followed by flushConn.
GrantAndFlushConn(n) ==
    /\ connWire' = connWire + connUngranted + n
    /\ connUngranted' = 0

SomeInMap == \E t \in Streams : InMap(t)

\* openStream; run starts the feeder.  A request without a body has its pipe
\* closed at once, so that anything that comes is discarded.
RecvHead(s, noBody) ==
    /\ "head" \in toAgent[s]
    /\ toAgent' = [toAgent EXCEPT ![s] = @ \ {"head"}]
    /\ agent' = [agent EXCEPT ![s] = "open"]
    /\ pipeClosed' = [pipeClosed EXCEPT ![s] = noBody]
    /\ UNCHANGED <<cancelled, reqEnded, fed, queued, ungranted, connUngranted,
                   overrun, bodyWire, toEdge, winWire, connWire, edgeVars>>

\* REQ_BODY of k bytes.  An unknown stream and an exited feeder return the
\* credit at once; a queue that would exceed the window resets the stream.
Rejected(s, k) == ~fed[s] /\ queued[s] + k > STREAM_WINDOW

RecvBody(s, k) ==
    /\ "head" \notin toAgent[s]
    /\ k <= Least(bodyWire[s], MAX_BODY_CHUNK)
    /\ bodyWire' = [bodyWire EXCEPT ![s] = @ - k]
    /\ IF InMap(s) /\ ~fed[s] /\ ~Rejected(s, k)
       THEN /\ queued' = [queued EXCEPT ![s] = @ + k]
            /\ UNCHANGED <<connWire, connUngranted, overrun, cancelled, toEdge>>
       ELSE /\ GrantConn(k, SomeInMap)
            /\ LET trip == InMap(s) /\ Rejected(s, k) IN
               /\ overrun' = [overrun EXCEPT ![s] = @ \/ trip]
               /\ cancelled' = [cancelled EXCEPT ![s] = @ \/ trip]
               /\ toEdge' = [toEdge EXCEPT ![s] = IF trip THEN @ \cup {"reset"} ELSE @]
            /\ UNCHANGED queued
    /\ UNCHANGED <<agent, pipeClosed, reqEnded, fed, ungranted, toAgent, winWire,
                   edgeVars>>

RecvReqEnd(s) ==
    /\ "end" \in toAgent[s]
    /\ "head" \notin toAgent[s]
    /\ bodyWire[s] = 0
    /\ toAgent' = [toAgent EXCEPT ![s] = @ \ {"end"}]
    /\ reqEnded' = [reqEnded EXCEPT ![s] = @ \/ InMap(s)]
    /\ UNCHANGED <<agent, cancelled, pipeClosed, fed, queued, ungranted,
                   connUngranted, overrun, bodyWire, toEdge, winWire, connWire,
                   edgeVars>>

RecvEdgeReset(s) ==
    /\ toAgent[s] = {"reset"}
    /\ bodyWire[s] = 0
    /\ toAgent' = [toAgent EXCEPT ![s] = {}]
    /\ cancelled' = [cancelled EXCEPT ![s] = @ \/ InMap(s)]
    /\ UNCHANGED <<agent, pipeClosed, reqEnded, fed, queued, ungranted,
                   connUngranted, overrun, bodyWire, toEdge, winWire, connWire,
                   edgeVars>>

\* One round of feed: a chunk of k bytes leaves the queue and its credit is
\* returned to the stream and to the connection.
Fed(s, k) ==
    /\ agent[s] # "none"
    /\ ~fed[s]
    /\ k <= Least(queued[s], MAX_BODY_CHUNK)
    /\ queued' = [queued EXCEPT ![s] = @ - k]
    /\ GrantStream(s, k)
    /\ GrantConn(k, SomeInMap)
    /\ UNCHANGED <<agent, cancelled, pipeClosed, reqEnded, fed, overrun, toAgent,
                   bodyWire, toEdge, edgeVars>>

\* The local application reads the chunk from the pipe.
AppReads(s, k) == ~pipeClosed[s] /\ Fed(s, k)

\* The pipe is closed: the chunk is discarded.
Discard(s, k) == pipeClosed[s] /\ Fed(s, k)

\* feed returns, at the end of the body or on a cancelled stream; whatever
\* is still queued is granted and the coalesced credit flushed.
FeedExit(s) ==
    /\ agent[s] # "none"
    /\ ~fed[s]
    /\ cancelled[s] \/ (reqEnded[s] /\ queued[s] = 0)
    /\ fed' = [fed EXCEPT ![s] = TRUE]
    /\ queued' = [queued EXCEPT ![s] = 0]
    /\ ungranted' = [ungranted EXCEPT ![s] = 0]
    /\ GrantAndFlushConn(queued[s])
    /\ UNCHANGED <<agent, cancelled, pipeClosed, reqEnded, overrun, toAgent,
                   bodyWire, toEdge, winWire, edgeVars>>

\* watchEarlyResponse: the response has started and the body made no
\* progress for earlyResponseGrace.
EarlyDiscard(s) ==
    /\ agent[s] = "open"
    /\ ~fed[s]
    /\ queued[s] > 0
    /\ ~pipeClosed[s]
    /\ pipeClosed' = [pipeClosed EXCEPT ![s] = TRUE]
    /\ UNCHANGED <<agent, cancelled, reqEnded, fed, queued, ungranted,
                   connUngranted, overrun, edgeVars, wireVars>>

\* run returns: its deferred calls close the pipe and cancel the stream.
RunReturns(s, frames) ==
    /\ agent[s] = "open"
    /\ agent' = [agent EXCEPT ![s] = "returned"]
    /\ pipeClosed' = [pipeClosed EXCEPT ![s] = TRUE]
    /\ cancelled' = [cancelled EXCEPT ![s] = TRUE]
    /\ toEdge' = [toEdge EXCEPT ![s] = @ \cup frames]
    /\ UNCHANGED <<reqEnded, fed, queued, ungranted, connUngranted, overrun,
                   toAgent, bodyWire, winWire, connWire, edgeVars>>

\* The whole response has been queued.
Respond(s) == RunReturns(s, {"end"})

\* credit_timeout or local_error while the response was being sent.
AgentReset(s) == RunReturns(s, {"reset"})

\* The context ended first: nothing more is sent.
Abandon(s) == cancelled[s] /\ RunReturns(s, {})

\* removeStream: the last stream to go flushes the coalesced credit.
Remove(s) ==
    /\ agent[s] = "returned"
    /\ agent' = [agent EXCEPT ![s] = "removed"]
    /\ IF \E t \in Streams \ {s} : InMap(t)
       THEN UNCHANGED <<connWire, connUngranted>>
       ELSE GrantAndFlushConn(0)
    /\ UNCHANGED <<cancelled, pipeClosed, reqEnded, fed, queued, ungranted,
                   overrun, toAgent, bodyWire, toEdge, winWire, edgeVars>>
-----------------------------------------------------------------------------
Chunk == 1 .. MAX_BODY_CHUNK

\* What happens when nothing fails and nobody gives up.
Traffic ==
    \E s \in Streams :
        \/ \E n \in Bodies : Start(s, n)
        \/ \E want \in Chunk : Pump(s, want)
        \/ PumpEnd(s)
        \/ RecvWindow(s)
        \/ RecvResEnd(s)
        \/ EdgeFinish(s)
        \/ \E noBody \in BOOLEAN : RecvHead(s, noBody)
        \/ \E k \in Chunk : RecvBody(s, k)
        \/ RecvReqEnd(s)
        \/ \E k \in Chunk : AppReads(s, k)
        \/ \E k \in Chunk : Discard(s, k)
        \/ FeedExit(s)
        \/ EarlyDiscard(s)
        \/ Respond(s)
        \/ Remove(s)

\* Timeouts, cancellations and errors of either side.
Failure ==
    \E s \in Streams :
        \/ EdgeReset(s)
        \/ CreditTimeout(s)
        \/ RecvReset(s)
        \/ RecvEdgeReset(s)
        \/ AgentReset(s)
        \/ Abandon(s)

NextAwake == Traffic \/ RecvConnWindow \/ Failure

Next == NextAwake \/ Hibernate

\* The agent's goroutines, the edge's event handlers and the network run.
\* Nothing makes the visitor send, the application read or answer, or a timer
\* end a stream that somebody serves.
Progress ==
    /\ WF_vars(RecvConnWindow)
    /\ \A s \in Streams :
        /\ WF_vars(RecvWindow(s)) /\ WF_vars(RecvResEnd(s)) /\ WF_vars(EdgeFinish(s))
        /\ WF_vars(\E noBody \in BOOLEAN : RecvHead(s, noBody))
        /\ WF_vars(\E k \in Chunk : RecvBody(s, k))
        /\ WF_vars(RecvReqEnd(s)) /\ WF_vars(RecvEdgeReset(s)) /\ WF_vars(RecvReset(s))
        /\ WF_vars(\E k \in Chunk : Discard(s, k))
        /\ WF_vars(FeedExit(s)) /\ WF_vars(Abandon(s)) /\ WF_vars(Remove(s))

Spec == Init /\ [][Next]_vars
AwakeSafe == Init /\ [][NextAwake]_vars
AwakeSpec == AwakeSafe /\ Progress
-----------------------------------------------------------------------------
(* Properties.                                                             *)

StreamLoop(s) == INSTANCE CreditLoop WITH
    Window <- STREAM_WINDOW,
    credit <- credit[s],
    sent <- bodyWire[s],
    held <- queued[s] + ungranted[s],
    back <- winWire[s]

ConnLoop == INSTANCE CreditLoop WITH
    Window <- CONN_WINDOW,
    credit <- connCredit,
    sent <- SumFunction(bodyWire),
    held <- SumFunction(queued) + connUngranted,
    back <- connWire

\* A stream's credit, bytes in flight, bytes queued at the agent and WINDOWs in
\* flight never add up to more than one window, whatever is reset, cut short
\* or answered early (PROTOCOL.md section 4.1, http_stream.go onFrame).
StreamBounded == \A s \in Streams : StreamLoop(s)!NoOverrun

\* The edge never makes the agent reset a stream with flow_control: the check
\* of httpStream.onFrame only catches an edge that breaks the protocol.
NeverOverrun == \A s \in Streams : ~overrun[s]

\* Hibernation may lose connection credit but never mint it: the agent is never
\* sent more than one connection window.
ConnBounded == ConnLoop!NoOverrun

\* Once every stream is over and nothing is in flight, the edge has the whole
\* connection window back; no coalesced grant sits at the agent.
AtRest ==
    /\ connWire = 0
    /\ \A s \in Streams :
        /\ edge[s] \in {"idle", "done"}
        /\ agent[s] \in {"none", "removed"} /\ (agent[s] = "removed" => fed[s])
        /\ toAgent[s] = {} /\ toEdge[s] = {} /\ bodyWire[s] = 0
ConnFullAtRest == AtRest => connCredit = CONN_WINDOW

\* Each stream window implements the credit loop that ends with its stream:
\* StreamLoop(s)!SpecEnding for every stream s.
StreamsImplementLoop ==
    /\ \A s \in Streams : StreamLoop(s)!Init
    /\ [][\A s \in Streams : [StreamLoop(s)!NextEnding]_(StreamLoop(s)!vars)]_vars

\* While the object stays awake the connection window behaves like a credit loop
\* that loses nothing.
ConnImplementsLoop == ConnLoop!SpecExact

\* A visitor that sends its body and an application that reads it.
Cooperation ==
    \A s \in Streams :
        /\ WF_vars(\E want \in Chunk : Pump(s, want))
        /\ WF_vars(\E k \in Chunk : AppReads(s, k))

\* Coalescing both windows at a quarter never strands a sender: if the visitor
\* goes on sending and the application reading, the whole body is sent unless
\* the stream ends before.
UploadCompletes ==
    Cooperation => \A s \in Streams :
        edge[s] = "open" ~> (bodyLeft[s] = 0 \/ edge[s] # "open")

\* However the streams end, the connection's credit comes home: with no stream
\* open at the edge, it has its whole window again or opens another stream.
CreditComesHome ==
    (\A s \in Streams : edge[s] # "open")
        ~> (connCredit = CONN_WINDOW \/ \E s \in Streams : edge[s] = "open")
=============================================================================
