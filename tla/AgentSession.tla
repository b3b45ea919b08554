---------------------------- MODULE AgentSession ----------------------------
(***************************************************************************)
(* One connected session of the agent (internal/tunnel/session.go): the    *)
(* reader, the writer and its two queues, the heartbeat, the streams, and  *)
(* run with its graceful drain.  Each goroutine is an actor; a select that *)
(* waits is an action per case.  What a frame carries is left out: of an   *)
(* inbound message only what dispatch does with it is kept, of a stream    *)
(* the frames it queues.  Credit is RequestFlow's and ResponseFlow's       *)
(* subject.                                                                *)
(***************************************************************************)
EXTENDS Naturals, Sequences, FiniteSets

CONSTANTS
  CTRL_CAP,     \* capacity of the control queue (256 in newSession)
  DATA_CAP,     \* capacity of the data queue (16 in newSession)
  MAX_STREAMS,  \* bound: streams the edge opens
  FRAMES,       \* bound: data frames of a response, RES_END the last
  MAX_WIRE,     \* bound: messages under way to the agent
  MAX_SENT      \* bound: messages the edge sends of its own accord

ASSUME SessionAssumption ==
  /\ CTRL_CAP \in Nat \ {0} /\ DATA_CAP \in Nat \ {0}
  /\ MAX_STREAMS \in Nat /\ FRAMES \in Nat \ {0}
  /\ MAX_WIRE \in Nat \ {0} /\ MAX_SENT \in Nat

Ids == 1 .. MAX_STREAMS
Close == <<0, 0>>  \* the outFrame with a closeCode; <<id, k>> has k frames after it
DataFrames == {Close} \cup (Ids \X (0 .. FRAMES - 1))
CtrlFrames == {<<"ping">>, <<"reply">>, <<"reset">>, <<"DRAIN">>}

(* "goaway" is only noted, for what AgentRunner makes of the end.          *)
(* "reply" stands for a bad REQ_HEAD and for REQ_BODY of a stream that is  *)
(* gone, "violation" for text other than pong, an undecodable or           *)
(* unexpected frame and a reused stream id.                                *)
Inbound == {"pong", "head", "reply", "goaway", "violation"}

VARIABLES
  path,      \* the network: "up", "stalled" (half open) or "down" (edge closed)
  wire,      \* messages on their way from the edge
  sent,      \* messages the edge has sent of its own accord
  ctrl, data,           \* the two queues
  writer,               \* where writeLoop is: "blocked" in a write, or between them
  reader,               \* where readLoop is: "reply" while it queues an answer
  heartbeat, short,     \* where heartbeatLoop is; its deadline is probeTimeout
  alive,                \* the one-place channel from the reader to the heartbeat
  heard,                \* something was read since the ping that is awaited was queued
  maxSeen,              \* high-water mark of stream ids
  stream, left,         \* each stream's state and the frames it has yet to queue
  cancelled,            \* userCtx is cancelled
  main,                 \* where run and drain are
  cause,                \* context.Cause(s.ctx)
  socket,               \* "open", "closing" (Close is under way) or "closed"
  finished, owed, wrote \* streams whose RES_END was queued; those finished when
                        \* the close was queued; those whose RES_END was written

edgeVars == <<path, wire, sent>>
queueVars == <<ctrl, data>>
writerVars == <<writer, wrote>>
readerVars == <<reader, maxSeen>>
beatVars == <<heartbeat, short, heard, alive>>
streamVars == <<stream, left, finished>>
endVars == <<cause, socket>>
mainVars == <<main, cancelled, owed>>
sessionVars == <<edgeVars, queueVars, writerVars, readerVars, beatVars, streamVars,
                 endVars, mainVars>>

SessionTypeOK ==
  /\ path \in {"up", "stalled", "down"}
  /\ wire \in Seq(Inbound) /\ Len(wire) <= MAX_WIRE
  /\ sent \in 0 .. MAX_SENT
  /\ ctrl \in Seq(CtrlFrames) /\ Len(ctrl) <= CTRL_CAP
  /\ data \in Seq(DataFrames) /\ Len(data) <= DATA_CAP
  /\ writer \in {"top", "select", "blocked", "gone"}
  /\ reader \in {"read", "reply", "gone"}
  /\ heartbeat \in {"ping", "await", "tick", "gone"}
  /\ short \in BOOLEAN /\ alive \in BOOLEAN /\ heard \in BOOLEAN
  /\ cancelled \in BOOLEAN
  /\ maxSeen \in 0 .. MAX_STREAMS
  /\ stream \in [Ids -> {"none", "running", "over"}]
  /\ left \in [Ids -> 0 .. FRAMES]
  /\ main \in {"serve", "drain", "close", "flush", "join", "returned"}
  /\ cause \in {"none", "done", "heartbeat", "protocol", "conn"}
  /\ socket \in {"open", "closing", "closed"}
  /\ finished \subseteq Ids /\ owed \subseteq Ids /\ wrote \subseteq Ids

SessionInit ==
  /\ path = "up" /\ wire = <<>> /\ sent = 0
  /\ ctrl = <<>> /\ data = <<>>
  /\ writer = "top" /\ wrote = {}
  /\ reader = "read" /\ maxSeen = 0
  /\ heartbeat = "ping" /\ short = FALSE /\ heard = FALSE /\ alive = FALSE
  /\ stream = [id \in Ids |-> "none"] /\ left = [id \in Ids |-> FRAMES]
  /\ finished = {} /\ owed = {}
  /\ main = "serve" /\ cancelled = FALSE
  /\ cause = "none" /\ socket = "open"

Over == cause # "none"
FirstCause(c) == IF Over THEN cause ELSE c

(* fail: the first cause wins, the connection is dropped at once.          *)
Fail(c) == cause' = FirstCause(c) /\ socket' = "closed"

(* closeWith: a close handshake, which CloseNow cuts short after 2 s.      *)
CloseWith(c) ==
  /\ cause' = FirstCause(c)
  /\ socket' = IF socket = "open" THEN "closing" ELSE socket

SocketCloses ==
  /\ socket = "closing" /\ socket' = "closed"
  /\ UNCHANGED <<edgeVars, queueVars, writerVars, readerVars, beatVars, streamVars,
                 cause, mainVars>>

(* sendCtrl gives up only when the session is over.                        *)
SendCtrl(f) ==
  \/ Len(ctrl) < CTRL_CAP /\ ctrl' = Append(ctrl, f)
  \/ Over /\ ctrl' = ctrl

---------------------------------------------------------------------------
(* The edge and the network.                                               *)

EdgeSends(msg) ==
  /\ path = "up" /\ Len(wire) < MAX_WIRE /\ sent < MAX_SENT
  /\ msg = "head" => maxSeen < MAX_STREAMS /\ \A i \in DOMAIN wire : wire[i] # "head"
  /\ wire' = Append(wire, msg) /\ sent' = sent + 1
  /\ UNCHANGED <<path, queueVars, writerVars, readerVars, beatVars, streamVars,
                 endVars, mainVars>>

PathBreaks ==
  /\ path = "up" /\ path' \in {"stalled", "down"}
  /\ UNCHANGED <<wire, sent, queueVars, writerVars, readerVars, beatVars, streamVars,
                 endVars, mainVars>>

(* The edge answers a ping at once; when MAX_WIRE messages are under way   *)
(* already they prove as much as the pong, which is left out.              *)
Answer(f) ==
  wire' = IF f = <<"ping">> /\ path = "up" /\ Len(wire) < MAX_WIRE
          THEN Append(wire, "pong") ELSE wire

---------------------------------------------------------------------------
(* writeLoop: control frames first, then whichever queue has one.          *)

WriteOk(f) ==
  /\ socket # "closed" /\ path # "down"
  /\ writer' = "top"
  /\ wrote' = wrote \cup {id \in Ids : f = <<id, 0>>}
  /\ Answer(f)
  /\ UNCHANGED endVars

WriteFails ==
  /\ socket # "open" \/ path = "down"
  /\ Fail("conn") /\ writer' = "gone"
  /\ UNCHANGED <<wire, wrote>>

(* A half-open socket takes frames only as long as the kernel buffers.     *)
WriteBlocks ==
  /\ path = "stalled" /\ socket # "closed"
  /\ writer' = "blocked"
  /\ UNCHANGED <<wire, wrote, endVars>>

WriteClose ==
  /\ CloseWith("done") /\ writer' = "gone"
  /\ UNCHANGED <<wire, wrote>>

Write(f) == IF f = Close THEN WriteClose ELSE WriteOk(f) \/ WriteFails \/ WriteBlocks

TakeCtrl ==
  /\ ctrl # <<>> /\ ctrl' = Tail(ctrl) /\ Write(Head(ctrl))
  /\ UNCHANGED data

TakeData ==
  /\ data # <<>> /\ data' = Tail(data) /\ Write(Head(data))
  /\ UNCHANGED ctrl

WriterTop ==
  /\ writer = "top"
  /\ \/ TakeCtrl
     \/ ctrl = <<>> /\ writer' = "select" /\ UNCHANGED <<wire, queueVars, wrote, endVars>>
  /\ UNCHANGED <<path, sent, readerVars, beatVars, streamVars, mainVars>>

WriterSelect ==
  /\ writer = "select"
  /\ \/ TakeCtrl
     \/ TakeData
     \/ Over /\ writer' = "gone" /\ UNCHANGED <<wire, queueVars, wrote, endVars>>
  /\ UNCHANGED <<path, sent, readerVars, beatVars, streamVars, mainVars>>

WriteWaits == writer = "blocked" /\ Over /\ writer' = "gone" /\ Fail("conn")
  /\ UNCHANGED <<edgeVars, queueVars, wrote, readerVars, beatVars, streamVars, mainVars>>

(* The write's 30 seconds are over, or CloseNow interrupts it.             *)
WriteTimeout ==
  /\ writer = "blocked" /\ writer' = "gone" /\ Fail("conn")
  /\ UNCHANGED <<edgeVars, queueVars, wrote, readerVars, beatVars, streamVars, mainVars>>

---------------------------------------------------------------------------
(* readLoop and dispatch.                                                  *)

SignalPong(msg) == alive' = (alive \/ msg = "pong")

(* Every message signals alive before it is looked at; the channel holds   *)
(* one signal, so none is lost while the heartbeat is elsewhere.           *)
Signal(msg) == alive' = TRUE

(* openStream: the next id is above the high-water mark; the stream is in  *)
(* the map, counted and started before the reader goes on.                 *)
OpenStream ==
  /\ maxSeen' = maxSeen + 1
  /\ stream' = [stream EXCEPT ![maxSeen + 1] = "running"]

Read ==
  /\ reader = "read" /\ socket # "closed" /\ wire # <<>>
  /\ wire' = Tail(wire)
  /\ Signal(Head(wire)) /\ heard' = (heartbeat = "await")
  /\ reader' = CASE Head(wire) = "reply" -> "reply"
                 [] Head(wire) = "violation" -> "gone"
                 [] OTHER -> "read"
  /\ IF Head(wire) = "head" THEN OpenStream ELSE UNCHANGED <<maxSeen, stream>>
  /\ IF Head(wire) = "violation" THEN CloseWith("protocol") ELSE UNCHANGED endVars
  /\ UNCHANGED <<path, sent, queueVars, writerVars, heartbeat, short, left, finished,
                 mainVars>>

(* The reader answers a frame itself; it may block here while the control  *)
(* queue is full.                                                          *)
ReaderReplies ==
  /\ reader = "reply" /\ SendCtrl(<<"reply">>) /\ reader' = "read"
  /\ UNCHANGED <<edgeVars, data, writerVars, maxSeen, beatVars, streamVars,
                 endVars, mainVars>>

ReadFails ==
  /\ reader = "read"
  /\ socket = "closed" \/ (path = "down" /\ wire = <<>>)
  /\ Fail("conn") /\ reader' = "gone"
  /\ UNCHANGED <<edgeVars, queueVars, writerVars, maxSeen, beatVars, streamVars,
                 mainVars>>

---------------------------------------------------------------------------
(* heartbeatLoop, awaitAlive and probeLoop.                                *)

BeatOver ==
  /\ Over /\ heartbeat # "gone" /\ heartbeat' = "gone"
  /\ short' = FALSE /\ heard' = FALSE
  /\ UNCHANGED <<edgeVars, queueVars, writerVars, readerVars, alive, streamVars, endVars,
                 mainVars>>

QueuePing ==
  /\ heartbeat = "ping" /\ Len(ctrl) < CTRL_CAP
  /\ ctrl' = Append(ctrl, <<"ping">>) /\ heartbeat' = "await"
  /\ UNCHANGED <<edgeVars, data, writerVars, readerVars, short, heard, alive,
                 streamVars, endVars, mainVars>>

AwaitAlive ==
  /\ heartbeat = "await" /\ alive
  /\ alive' = FALSE /\ heartbeat' = "tick" /\ heard' = FALSE /\ short' = FALSE
  /\ UNCHANGED <<edgeVars, queueVars, writerVars, readerVars, streamVars, endVars,
                 mainVars>>

(* A goroutine parked in the select is handed the signal at once, so the   *)
(* timer finds no signal waiting.                                          *)
AwaitTimeout ==
  /\ heartbeat = "await" /\ ~alive
  /\ Fail("heartbeat") /\ heartbeat' = "gone"
  /\ UNCHANGED <<edgeVars, queueVars, writerVars, readerVars, short, heard, alive,
                 streamVars, mainVars>>

(* probeLoop: the host woke up or its addresses changed, at any time.  The *)
(* deadline gets short, once, and a second ping goes out unless the queue  *)
(* is full.                                                                *)
AwaitProbe ==
  /\ heartbeat = "await" /\ ~short /\ short' = TRUE
  /\ ctrl' = IF Len(ctrl) < CTRL_CAP THEN Append(ctrl, <<"ping">>) ELSE ctrl
  /\ UNCHANGED <<edgeVars, data, writerVars, readerVars, heartbeat, heard, alive,
                 streamVars, endVars, mainVars>>

(* The ticker or a probe starts the next round; a stale signal is dropped. *)
Tick ==
  /\ heartbeat = "tick" /\ heartbeat' = "ping" /\ short' \in BOOLEAN
  /\ alive' = FALSE
  /\ UNCHANGED <<edgeVars, queueVars, writerVars, readerVars, heard, streamVars, endVars,
                 mainVars>>

---------------------------------------------------------------------------
(* The streams: each queues its response, fails, or sees its context end.  *)

(* sendData blocks under backpressure; after RES_END the stream returns    *)
(* and is removed from the map.                                            *)
StreamSends(id) ==
  /\ stream[id] = "running" /\ Len(data) < DATA_CAP
  /\ data' = Append(data, <<id, left[id] - 1>>)
  /\ left' = [left EXCEPT ![id] = @ - 1]
  /\ stream' = [stream EXCEPT ![id] = IF left[id] = 1 THEN "over" ELSE @]
  /\ finished' = IF left[id] = 1 THEN finished \cup {id} ELSE finished
  /\ UNCHANGED <<edgeVars, ctrl, writerVars, readerVars, beatVars,
                 endVars, mainVars>>

StreamFails(id) ==
  /\ stream[id] = "running" /\ SendCtrl(<<"reset">>)
  /\ stream' = [stream EXCEPT ![id] = "over"]
  /\ UNCHANGED <<edgeVars, data, writerVars, readerVars, beatVars, left,
                 finished, endVars, mainVars>>

StreamCancelled(id) ==
  /\ stream[id] = "running" /\ Over
  /\ stream' = [stream EXCEPT ![id] = "over"]
  /\ UNCHANGED <<edgeVars, queueVars, writerVars, readerVars, beatVars,
                 left, finished, endVars, mainVars>>

---------------------------------------------------------------------------
(* run and drain.                                                          *)

UserCancels ==
  /\ ~cancelled /\ cancelled' = TRUE
  /\ UNCHANGED <<edgeVars, queueVars, writerVars, readerVars, beatVars,
                 streamVars, endVars, main, owed>>

ServeEnds ==
  /\ main = "serve" /\ Over /\ main' = "join"
  /\ UNCHANGED <<edgeVars, queueVars, writerVars, readerVars, beatVars,
                 streamVars, endVars, cancelled, owed>>

StartDrain ==
  /\ main = "serve" /\ cancelled /\ SendCtrl(<<"DRAIN">>) /\ main' = "drain"
  /\ UNCHANGED <<edgeVars, data, writerVars, readerVars, beatVars,
                 streamVars, endVars, cancelled, owed>>

(* The poll finds no stream, the session is over, or drainGrace has passed.*)
DrainWaited ==
  /\ main = "drain" /\ main' = "close"
  /\ UNCHANGED <<edgeVars, queueVars, writerVars, readerVars, beatVars,
                 streamVars, endVars, cancelled, owed>>

CloseAhead ==
  /\ main = "close" /\ CloseWith("done") /\ owed' = finished /\ main' = "flush"
  /\ UNCHANGED <<edgeVars, queueVars, writerVars, readerVars, beatVars,
                 streamVars, cancelled>>

(* The close goes behind every frame the streams have queued.              *)
QueueClose ==
  /\ main = "close" /\ Len(data) < DATA_CAP
  /\ data' = Append(data, Close) /\ owed' = finished /\ main' = "flush"
  /\ UNCHANGED <<edgeVars, ctrl, writerVars, readerVars, beatVars,
                 streamVars, endVars, cancelled>>

DrainOver ==
  /\ main \in {"close", "flush"} /\ Over /\ main' = "join"
  /\ UNCHANGED <<edgeVars, queueVars, writerVars, readerVars, beatVars,
                 streamVars, endVars, cancelled, owed>>

(* The queue stayed full for a second, or the flush took drainGrace.       *)
DrainTimeout ==
  /\ main \in {"close", "flush"} /\ CloseWith("done") /\ main' = "join"
  /\ UNCHANGED <<edgeVars, queueVars, writerVars, readerVars, beatVars,
                 streamVars, cancelled, owed>>

(* run waits for the reader, so that no stream is opened any more, then    *)
(* for the streams, whose context is cancelled.                            *)
JoinAll ==
  /\ main = "join" /\ reader = "gone" /\ \A id \in Ids : stream[id] # "running"
  /\ main' = "returned"
  /\ UNCHANGED <<edgeVars, queueVars, writerVars, readerVars, beatVars,
                 streamVars, endVars, cancelled, owed>>

---------------------------------------------------------------------------
SessionNext ==
  \/ \E msg \in Inbound \ {"pong"} : EdgeSends(msg)
  \/ PathBreaks \/ UserCancels \/ SocketCloses
  \/ WriterTop \/ WriterSelect \/ WriteTimeout
  \/ Read \/ ReaderReplies \/ ReadFails
  \/ BeatOver \/ QueuePing \/ AwaitAlive \/ AwaitTimeout \/ AwaitProbe \/ Tick
  \/ \E id \in Ids : StreamSends(id) \/ StreamFails(id) \/ StreamCancelled(id)
  \/ ServeEnds \/ StartDrain \/ DrainWaited \/ QueueClose \/ DrainOver \/ DrainTimeout
  \/ JoinAll

(* Every goroutine that can go on does, and every timer fires.  Nothing is *)
(* assumed of the edge, of the network, of the user or of the local        *)
(* application: a stream only has to end once its context is cancelled.    *)
(* StartDrain is strongly fair: senders that wait for a channel queue up.  *)
Goroutines == {"writer", "reader", "heartbeat", "main", "close"}

GoesOn(g) ==
  \/ g = "writer" /\ (WriterTop \/ WriterSelect \/ WriteTimeout)
  \/ g = "reader" /\ (Read \/ ReaderReplies \/ ReadFails)
  \/ g = "heartbeat" /\ (QueuePing \/ AwaitAlive \/ AwaitTimeout \/ Tick)
  \/ g = "main" /\ (ServeEnds \/ DrainWaited \/ QueueClose \/ DrainOver \/ DrainTimeout
                       \/ JoinAll)
  \/ g = "close" /\ SocketCloses

SessionFairness ==
  /\ \A g \in Goroutines : WF_sessionVars(GoesOn(g))
  /\ SF_sessionVars(StartDrain)
  /\ \A id \in Ids : WF_sessionVars(StreamCancelled(id))

SessionSpec == SessionInit /\ [][SessionNext]_sessionVars /\ SessionFairness

---------------------------------------------------------------------------
(* A graceful end keeps its order: when the writer reaches the queued      *)
(* close, every response that was complete when the close was queued has   *)
(* been written, and run returns only when no stream runs any more.        *)
EndsInOrder ==
  /\ main = "flush" /\ cause = "done" => owed \subseteq wrote
  /\ main = "returned" => \A id \in Ids : stream[id] # "running"

(* The heartbeat never ends a session that has read anything since its     *)
(* ping was queued: a pong behind a large upload is no false alarm.        *)
NoFalseAlarm ==
  [][cause # "heartbeat" /\ cause' = "heartbeat" => ~heard]_sessionVars

(* Once the user cancels or the network breaks, run returns: neither a     *)
(* full queue, a half-open socket nor a stream that never ends holds it.   *)
SessionEnds == cancelled \/ path # "up" ~> main = "returned"
=============================================================================
