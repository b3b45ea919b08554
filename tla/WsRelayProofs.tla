--------------------------- MODULE WsRelayProofs ----------------------------
(***************************************************************************)
(* Theorems about WsRelay, for any credit and any number of messages: the  *)
(* message credit is conserved, and both directions are pipes.             *)
(*                                                                         *)
(* The inductive invariant is RelayInv.  Stages says what an end that is   *)
(* not there yet, or no more, can have left behind; Framed which frames    *)
(* may be where; Numbers that the messages on their way are numbered       *)
(* through from the receiver's socket to the sender's; EdgeCredit and      *)
(* AgentCredit that the credit adds up.  Each part has its own step lemma, *)
(* which uses the others.  On top of it Lively says what keeps the relay   *)
(* moving: no wakeup is lost, and no end leaves without a word.            *)
(***************************************************************************)
EXTENDS WsRelay, FiniteSetTheorems, SequenceTheorems, TLAPS

Frames ==
    {Head101, Answer, Reset, Close("app"), Close("error")} \cup {Message(n) : n \in Nat}

VisitorTyped ==
    /\ visitor \in {"none", "upgrading", "open", "closed", "refused"}
    /\ ending \in {"none", "self", "app", "error"}
    /\ outstanding \in Nat /\ pending \in BOOLEAN /\ sentV \in Nat
    /\ buffer \in Seq(Nat) /\ gotV \in Seq(Nat)

WireTyped ==
    /\ up \in BOOLEAN
    /\ acksToAgent \in Nat /\ acksToEdge \in Nat
    /\ toAgent \in Seq(Frames) /\ data \in Seq(Frames)

PumpTyped ==
    /\ agent \in {"none", "dialing", "open", "ended"}
    /\ edgePump \in {"loop", "waiting", "writing", "done"}
    /\ localPump \in {"reading", "holding", "closing", "done"}
    /\ closeCode \in {"app", "error"} /\ closeSent \in BOOLEAN

StreamTyped ==
    /\ inbox \in Seq(Nat) /\ writing \in Nat /\ unacked \in Nat
    /\ wake \in BOOLEAN /\ remoteClose \in BOOLEAN /\ localReq \in BOOLEAN
    /\ msgOut \in Nat /\ readA \in Nat

AppTyped ==
    /\ appClosed \in BOOLEAN /\ broken \in BOOLEAN
    /\ sentA \in Nat /\ gotA \in Seq(Nat)

TypeOK == VisitorTyped /\ WireTyped /\ PumpTyped /\ StreamTyped /\ AppTyped

\* What a visitor that is not accepted yet, or never was, can have left behind.
Unopened ==
    visitor \in {"none", "upgrading", "refused"} =>
        /\ sentV = 0 /\ outstanding = 0 /\ unacked = 0
        /\ acksToEdge = 0 /\ acksToAgent = 0 /\ gotV = <<>> /\ buffer = <<>>

\* The same of an agent that has not dialed yet.
Undialed ==
    agent \in {"none", "dialing"} =>
        /\ data = <<>> /\ gotA = <<>> /\ inbox = <<>>
        /\ edgePump = "loop" /\ localPump = "reading"
        /\ msgOut = 0 /\ readA = 0 /\ sentA = 0 /\ ~closeSent /\ ~appClosed

\* How far the ends can be apart.
Linked ==
    /\ visitor = "none" => agent = "none" /\ toAgent = <<>>
    /\ visitor \in {"open", "closed"} => agent \in {"open", "ended"}
    /\ edgePump \in {"writing", "waiting"} => agent = "open"
    /\ localPump \in {"holding", "closing"} => agent = "open"
    /\ ending # "none" => visitor = "closed"
    /\ buffer # <<>> => visitor = "open" /\ pending

Severed == ~up => toAgent = <<>> /\ data = <<>> /\ acksToEdge = 0 /\ acksToAgent = 0

Written == IF edgePump = "writing" THEN 1 ELSE 0

Bounded ==
    /\ readA <= sentA /\ (localPump = "holding" => readA > 0)
    /\ Len(gotA) <= sentV
    /\ outstanding <= WS_MSG_CREDIT
    /\ Len(inbox) + Written <= unacked

\* Which frames may be where.
FramesUp ==
    /\ \A i \in 1 .. Len(toAgent) :
        /\ toAgent[i].type = "head" => i = 1 /\ agent = "none"
        /\ toAgent[i].type \in {"close", "reset"} => visitor \in {"closed", "refused"}
        /\ toAgent[i].type = "msg" => toAgent[i].n \in 1 .. sentV
        /\ toAgent[i].type \in {"head", "msg", "close", "reset"}
    /\ agent = "none" /\ (toAgent # <<>> \/ (up /\ visitor = "upgrading")) =>
        toAgent # <<>> /\ toAgent[1].type = "head"

FramesDown ==
    /\ \A i \in 1 .. Len(data) :
        /\ data[i].type \in {"head", "answer"} => i = 1 /\ visitor \in {"upgrading", "refused"}
        /\ data[i].type = "answer" => agent = "ended"
        /\ data[i].type = "msg" => data[i].n \in 1 .. sentA
        /\ data[i].type \in {"head", "answer", "msg", "close"}
    /\ visitor = "upgrading" /\ agent \in {"open", "ended"} /\ up =>
        data # <<>> /\ data[1].type \in {"head", "answer"}

Queued ==
    /\ \A i \in 1 .. Len(inbox) : inbox[i] \in 1 .. sentV
    /\ \A i \in 1 .. Len(buffer) : buffer[i] \in 1 .. sentV
    /\ edgePump = "writing" => writing \in 1 .. sentV

\* The visitor's messages are numbered through, from the application's socket
\* by way of pumpEdge, the inbox and the wire to the edge's buffer.
Taken == Len(gotA) + Written

WrittenNext == ~appClosed /\ edgePump = "writing" => writing = Len(gotA) + 1

TakenNext ==
    ~appClosed /\ ~Closing /\ Running =>
        /\ \A i \in 1 .. Len(inbox) : inbox[i] = Taken + i
        /\ \A i \in 1 .. Len(toAgent) :
            toAgent[i].type = "msg" => toAgent[i].n = Taken + Len(inbox) + i

BufferedNext ==
    ~appClosed /\ ~Closing /\ agent = "open" /\ visitor = "open" /\ up =>
        /\ \A i \in 1 .. Len(buffer) : buffer[i] = Taken + Len(inbox) + Len(toAgent) + i
        /\ sentV = Taken + Len(inbox) + Len(toAgent) + Len(buffer)

\* The application's messages, from the visitor's socket by way of the wire to
\* pumpLocal; what follows a WS_CLOSE does not count.
Headed == IF data # <<>> /\ data[1].type \in {"head", "answer"} THEN 1 ELSE 0
Relayed == IF localPump = "holding" THEN readA - 1 ELSE readA
NoClose(frames, i) == \A j \in 1 .. i : frames[j].type # "close"
Awaited == visitor \in {"upgrading", "open"}

RelayedNext ==
    Awaited =>
        /\ \A i \in 1 .. Len(data) :
            NoClose(data, i) /\ data[i].type = "msg" => data[i].n + Headed = Len(gotV) + i
        /\ up /\ localPump # "done" /\ NoClose(data, Len(data)) =>
            Relayed + Headed = Len(gotV) + Len(data)

\* The application's own close is behind all its messages.
ClosedLast ==
    Awaited =>
        \A i \in 1 .. Len(data) :
            data[i] = Close("app") /\ NoClose(data, i - 1) => sentA + Headed + 1 = Len(gotV) + i

\* Such a close says that the application has closed, and sends no more.
ClosedOver ==
    /\ \A i \in 1 .. Len(data) : data[i] = Close("app") => appClosed
    /\ localPump = "closing" /\ closeCode = "app" => appClosed /\ readA = sentA
    /\ ending = "app" => appClosed

\* Credit is conserved from the upgrade on.
EdgeCredit ==
    visitor = "open" /\ up /\ agent = "open" /\ ~Closing =>
        outstanding = Len(toAgent) + unacked + acksToEdge

AgentCredit ==
    Awaited /\ up /\ agent = "open" => msgOut = Messages(data) + acksToAgent

Stages == Unopened /\ Undialed /\ Linked /\ Severed /\ Bounded
Framed == FramesUp /\ FramesDown /\ Queued
Numbers == WrittenNext /\ TakenNext /\ BufferedNext /\ RelayedNext /\ ClosedLast /\ ClosedOver
RelayInv == TypeOK /\ Stages /\ Framed /\ Numbers /\ EdgeCredit /\ AgentCredit

LEMMA EmptySeqs == <<>> \in Seq(Nat) /\ <<>> \in Seq(Frames)
  OBVIOUS

LEMMA AppendTyped == \A s \in Seq(Nat), n \in Nat : Append(s, n) \in Seq(Nat)
  OBVIOUS

LEMMA InitTyped == Init => TypeOK
  <1> SUFFICES ASSUME Init PROVE TypeOK  OBVIOUS
  <1>1. VisitorTyped  BY EmptySeqs DEF Init, VisitorTyped
  <1>2. WireTyped  BY EmptySeqs DEF Init, WireTyped
  <1>3. PumpTyped  BY DEF Init, PumpTyped
  <1>4. StreamTyped  BY EmptySeqs DEF Init, StreamTyped
  <1>5. AppTyped  BY EmptySeqs DEF Init, AppTyped
  <1> QED BY <1>1, <1>2, <1>3, <1>4, <1>5 DEF TypeOK, VisitorTyped, WireTyped

LEMMA FrameFields ==
    /\ Head101.type = "head" /\ Answer.type = "answer" /\ Reset.type = "reset"
    /\ \A c : Close(c).type = "close" /\ Close(c).code = c
    /\ \A n : Message(n).type = "msg" /\ Message(n).n = n
  <1>1. Head101.type = "head" /\ Answer.type = "answer" /\ Reset.type = "reset"
    BY DEF Head101, Answer, Reset
  <1>2. ASSUME NEW c PROVE Close(c).type = "close" /\ Close(c).code = c
    BY DEF Close
  <1>3. ASSUME NEW n PROVE Message(n).type = "msg" /\ Message(n).n = n
    BY DEF Message
  <1> QED BY <1>1, <1>2, <1>3

LEMMA FrameKinds ==
    /\ Head101 \in Frames /\ Answer \in Frames /\ Reset \in Frames
    /\ Close("app") \in Frames /\ Close("error") \in Frames
    /\ \A n \in Nat : Message(n) \in Frames
    /\ \A f \in Frames : f.type = "close" => f.code \in {"app", "error"} /\ f = Close(f.code)
    /\ \A f \in Frames : f.type = "msg" => f.n \in Nat
  <1>1. ASSUME NEW f \in Frames
        PROVE  \/ f \in {Head101, Answer, Reset, Close("app"), Close("error")}
               \/ \E n \in Nat : f = Message(n)
    BY DEF Frames
  <1>2. ASSUME NEW f \in Frames, f.type = "close"
        PROVE  f = Close("app") \/ f = Close("error")
    BY <1>1, <1>2, FrameFields
  <1>3. ASSUME NEW f \in Frames, f.type = "msg" PROVE f.n \in Nat
    BY <1>1, <1>3, FrameFields
  <1>4. /\ Head101 \in Frames /\ Answer \in Frames /\ Reset \in Frames
        /\ Close("app") \in Frames /\ Close("error") \in Frames
        /\ \A n \in Nat : Message(n) \in Frames
    BY DEF Frames
  <1> QED BY <1>2, <1>3, <1>4, FrameFields

\* What a step does to the frames on their way to the agent.
LEMMA SendFacts ==
    ASSUME TypeOK, NEW fs \in Seq(Frames), Send(fs)
    PROVE  /\ toAgent' \in Seq(Frames)
           /\ ~up => toAgent' = toAgent
           /\ up => /\ Len(toAgent') = Len(toAgent) + Len(fs)
                    /\ \A i \in 1 .. Len(toAgent) : toAgent'[i] = toAgent[i]
                    /\ \A i \in 1 .. Len(fs) : toAgent'[Len(toAgent) + i] = fs[i]
  <1>1. toAgent \in Seq(Frames)  BY DEF TypeOK, VisitorTyped, WireTyped
  <1>2. toAgent' = IF up THEN toAgent \o fs ELSE toAgent  BY DEF Send
  <1>3. /\ toAgent \o fs \in Seq(Frames) /\ Len(toAgent \o fs) = Len(toAgent) + Len(fs)
        /\ \A i \in 1 .. Len(toAgent) : (toAgent \o fs)[i] = toAgent[i]
        /\ \A i \in 1 .. Len(fs) : (toAgent \o fs)[Len(toAgent) + i] = fs[i]
    BY <1>1, ConcatProperties
  <1> QED BY <1>1, <1>2, <1>3

\* A single frame.
LEMMA SendOne ==
    ASSUME TypeOK, NEW f \in Frames, Send(<<f>>)
    PROVE  /\ toAgent' \in Seq(Frames)
           /\ ~up => toAgent' = toAgent
           /\ up => /\ Len(toAgent') = Len(toAgent) + 1
                    /\ \A i \in 1 .. Len(toAgent) : toAgent'[i] = toAgent[i]
                    /\ toAgent'[Len(toAgent) + 1] = f
  <1>1. <<f>> \in Seq(Frames) /\ Len(<<f>>) = 1 /\ <<f>>[1] = f  OBVIOUS
  <1>2. 1 \in 1 .. Len(<<f>>)  BY <1>1
  <1> QED BY <1>1, <1>2, SendFacts

\* What RecvAck does to the buffer: k of its messages are sent.
FlushSome(k) ==
    /\ outstanding' = (IF outstanding = 0 THEN 0 ELSE outstanding - 1) + k
    /\ outstanding' \in Nat /\ outstanding' <= WS_MSG_CREDIT
    /\ Send([i \in 1 .. k |-> Message(buffer[i])])
    /\ buffer' \in Seq(Nat) /\ Len(buffer') = Len(buffer) - k
    /\ \A i \in 1 .. Len(buffer') : buffer'[i] = buffer[i + k]
    /\ pending' \in BOOLEAN /\ (buffer' # <<>> => pending')

LEMMA RecvAckFlushes ==
    ASSUME TypeOK, outstanding <= WS_MSG_CREDIT, RecvAck
    PROVE  \E k \in 0 .. Len(buffer) : FlushSome(k)
  <1> DEFINE left == IF outstanding = 0 THEN 0 ELSE outstanding - 1
             k == Least(Len(buffer), WS_MSG_CREDIT - left)
  <1>1. left \in Nat /\ WS_MSG_CREDIT - left \in Nat /\ Len(buffer) \in Nat
    BY CreditAssumption DEF TypeOK, VisitorTyped, WireTyped
  <1>2. k \in 0 .. Len(buffer)  BY <1>1 DEF Least
  <1>3. /\ outstanding' = left + k
        /\ Send([i \in 1 .. k |-> Message(buffer[i])])
        /\ buffer' = SubSeq(buffer, k + 1, Len(buffer))
        /\ pending' = (buffer' # <<>>)
    BY DEF RecvAck
  <1> HIDE DEF k
  <1>4. /\ buffer' \in Seq(Nat) /\ Len(buffer') = Len(buffer) - k
        /\ \A i \in 1 .. Len(buffer') : buffer'[i] = buffer[i + k]
    <2>1. buffer \in Seq(Nat) /\ k + 1 \in 1 .. Len(buffer) + 1
      BY <1>2 DEF TypeOK, VisitorTyped, WireTyped
    <2>2. \A i \in k + 1 .. Len(buffer) : buffer[i] \in Nat  BY <2>1
    <2> QED BY <1>2, <1>3, <2>1, <2>2, SubSeqProperties
  <1>5. outstanding' \in Nat /\ outstanding' <= WS_MSG_CREDIT
    <2>1. k <= WS_MSG_CREDIT - left  BY <1>1 DEF k, Least
    <2>2. WS_MSG_CREDIT \in Nat  BY CreditAssumption
    <2> QED BY <1>1, <1>2, <1>3, <2>1, <2>2
  <1>6. pending' \in BOOLEAN /\ (buffer' # <<>> => pending')  BY <1>3
  <1> QED BY <1>2, <1>3, <1>4, <1>5, <1>6 DEF FlushSome

LEMMA FlushFacts ==
    ASSUME TypeOK, NEW k \in 0 .. Len(buffer), FlushSome(k)
    PROVE  /\ toAgent' \in Seq(Frames)
           /\ ~up => toAgent' = toAgent
           /\ up => /\ Len(toAgent') = Len(toAgent) + k
                    /\ \A i \in 1 .. Len(toAgent) : toAgent'[i] = toAgent[i]
                    /\ \A i \in 1 .. k : toAgent'[Len(toAgent) + i] = Message(buffer[i])
  <1> DEFINE fs == [i \in 1 .. k |-> Message(buffer[i])]
  <1>1. \A i \in 1 .. k : buffer[i] \in Nat  BY DEF TypeOK, VisitorTyped, WireTyped
  <1>2. \A i \in 1 .. k : fs[i] \in Frames  BY <1>1, FrameKinds
  <1>3. fs \in Seq(Frames) /\ Len(fs) = k  BY <1>2
  <1>4. Send(fs)  BY DEF FlushSome
  <1>5. \A i \in 1 .. k : fs[i] = Message(buffer[i])  OBVIOUS
  <1> HIDE DEF fs
  <1> QED BY <1>3, <1>4, <1>5, SendFacts

LEMMA NextTyped == TypeOK /\ Stages /\ [Next]_vars => TypeOK'
  <1> SUFFICES ASSUME TypeOK, Stages, [Next]_vars PROVE TypeOK'  OBVIOUS
  <1> USE DEF visitorVars, wireVars, pumpVars, inVars, appVars
  <1>a. UNCHANGED visitorVars => VisitorTyped'  BY DEF TypeOK, VisitorTyped
  <1>b. UNCHANGED wireVars => WireTyped'  BY DEF TypeOK, WireTyped
  <1>c. UNCHANGED <<agent, pumpVars>> => PumpTyped'  BY DEF TypeOK, PumpTyped
  <1>d. UNCHANGED <<inVars, msgOut, readA>> => StreamTyped'  BY DEF TypeOK, StreamTyped
  <1>e. UNCHANGED appVars => AppTyped'  BY DEF TypeOK, AppTyped
  <1>1. CASE Upgrade
    <2>1. VisitorTyped'
      BY <1>1 DEF Upgrade, TypeOK, VisitorTyped
    <2>2. WireTyped'
      BY <1>1, FrameKinds, SendOne DEF Upgrade, TypeOK, WireTyped
    <2> QED BY <1>1, <1>c, <1>d, <1>e, <2>1, <2>2 DEF TypeOK, Upgrade
  <1>2. CASE GiveUp
    <2>1. VisitorTyped'
      BY <1>2 DEF GiveUp, TypeOK, VisitorTyped
    <2>2. WireTyped'
      BY <1>2, FrameKinds, SendOne DEF GiveUp, TypeOK, WireTyped
    <2> QED BY <1>2, <1>c, <1>d, <1>e, <2>1, <2>2 DEF TypeOK, GiveUp
  <1>3. CASE VisitorCloses
    <2>1. VisitorTyped'
      BY <1>3, EmptySeqs DEF VisitorCloses, CloseVisitor, TypeOK, VisitorTyped
    <2>2. WireTyped'
      BY <1>3, FrameKinds, SendOne DEF VisitorCloses, CloseVisitor, TypeOK, WireTyped
    <2> QED BY <1>3, <1>c, <1>d, <1>e, <2>1, <2>2 DEF TypeOK, VisitorCloses
  <1>4. CASE Hibernate
    <2>1. VisitorTyped'
      BY <1>4, EmptySeqs DEF Hibernate, CloseVisitor, TypeOK, VisitorTyped
    <2>2. WireTyped'
      BY <1>4, FrameKinds, SendOne DEF Hibernate, CloseVisitor, TypeOK, WireTyped
    <2> QED BY <1>4, <1>c, <1>d, <1>e, <2>1, <2>2 DEF TypeOK, Hibernate
  <1>5. CASE LinkDown
    <2>1. WireTyped'
      BY <1>5, FrameKinds, EmptySeqs DEF LinkDown, TypeOK, WireTyped
    <2> QED BY <1>5, <1>a, <1>c, <1>d, <1>e, <2>1 DEF TypeOK, LinkDown
  <1>6. CASE AgentGone
    <2>1. VisitorTyped'
      BY <1>6, EmptySeqs DEF AgentGone, TypeOK, VisitorTyped
    <2> QED BY <1>6, <1>b, <1>c, <1>d, <1>e, <2>1 DEF TypeOK, AgentGone
  <1>7. CASE RecvAck
    <2>0. PICK k \in 0 .. Len(buffer) : FlushSome(k)
      BY <1>7, RecvAckFlushes DEF Stages, Bounded
    <2>1. VisitorTyped'
      BY <1>7, <2>0 DEF RecvAck, FlushSome, TypeOK, VisitorTyped
    <2>2. WireTyped'
      BY <1>7, <2>0, FlushFacts DEF RecvAck, TypeOK, WireTyped
    <2> QED BY <1>7, <1>c, <1>d, <1>e, <2>1, <2>2 DEF TypeOK, RecvAck
  <1>8. CASE RecvResHead
    <2>1. VisitorTyped'
      BY <1>8 DEF RecvResHead, NextData, TypeOK, VisitorTyped
    <2>2. WireTyped'
      BY <1>8, FrameKinds DEF RecvResHead, NextData, TypeOK, WireTyped
    <2> QED BY <1>8, <1>c, <1>d, <1>e, <2>1, <2>2 DEF TypeOK, RecvResHead
  <1>9. CASE RecvMessage
    <2>1. VisitorTyped'
      <3>1. Head(data) \in Frames /\ Head(data).type = "msg"
        BY <1>9 DEF RecvMessage, NextData, TypeOK, WireTyped
      <3>2. Head(data).n \in Nat  BY <3>1, FrameKinds
      <3>3. gotV' = gotV \/ gotV' = Append(gotV, Head(data).n)  BY <1>9 DEF RecvMessage
      <3>4. gotV' \in Seq(Nat)  BY <3>2, <3>3, AppendTyped DEF TypeOK, VisitorTyped
      <3> QED BY <1>9, <3>4 DEF RecvMessage, TypeOK, VisitorTyped
    <2>2. WireTyped'
      BY <1>9, FrameKinds DEF RecvMessage, NextData, TypeOK, WireTyped
    <2> QED BY <1>9, <1>c, <1>d, <1>e, <2>1, <2>2 DEF TypeOK, RecvMessage
  <1>10. CASE RecvClose
    <2>1. VisitorTyped'
      <3>1. Head(data) \in Frames /\ Head(data).type = "close"
        BY <1>10 DEF RecvClose, NextData, TypeOK, WireTyped
      <3>2. Head(data).code \in {"app", "error"}  BY <3>1, FrameKinds
      <3> QED BY <1>10, <3>2, EmptySeqs DEF RecvClose, CloseVisitor, TypeOK, VisitorTyped
    <2>2. WireTyped'
      BY <1>10, FrameKinds, SendOne
         DEF RecvClose, NextData, CloseVisitor, TypeOK, WireTyped
    <2> QED BY <1>10, <1>c, <1>d, <1>e, <2>1, <2>2 DEF TypeOK, RecvClose
  <1>11. ASSUME NEW refused \in BOOLEAN, VisitorSends(refused) PROVE TypeOK'
    <2>1. VisitorTyped'
      <3>1. sentV' \in Nat /\ outstanding' \in Nat /\ pending' \in BOOLEAN /\ UNCHANGED gotV
        <4>1. sentV' = sentV + 1 /\ outstanding' \in {outstanding, outstanding + 1}
          BY <1>11 DEF VisitorSends
        <4>2. pending' = pending \/ pending' = TRUE \/ pending' = FALSE
          BY <1>11 DEF VisitorSends
        <4>3. sentV \in Nat /\ outstanding \in Nat /\ pending \in BOOLEAN
          BY DEF TypeOK, VisitorTyped
        <4>4. UNCHANGED gotV  BY <1>11 DEF VisitorSends
        <4>5. pending' \in BOOLEAN  BY <4>2, <4>3
        <4> QED BY <4>1, <4>3, <4>4, <4>5
      <3>2. \/ UNCHANGED <<visitor, ending>>
            \/ visitor' = "closed" /\ ending' = "error"
        BY <1>11 DEF VisitorSends, CloseVisitor
      <3>3. buffer' \in {buffer, Append(buffer, sentV + 1), <<>>}
        BY <1>11 DEF VisitorSends, CloseVisitor
      <3>4. buffer' \in Seq(Nat)
        <4>1. buffer \in Seq(Nat) /\ sentV + 1 \in Nat  BY DEF TypeOK, VisitorTyped
        <4> QED BY <3>3, <4>1, EmptySeqs, AppendTyped
      <3> QED BY <3>1, <3>2, <3>4 DEF TypeOK, VisitorTyped
    <2>2. WireTyped'
      <3>1. \/ UNCHANGED toAgent \/ Send(<<Message(sentV + 1)>>) \/ Send(<<Close("error")>>)
        BY <1>11 DEF VisitorSends, CloseVisitor
      <3>2. sentV + 1 \in Nat  BY DEF TypeOK, VisitorTyped
      <3>3. toAgent' \in Seq(Frames)
        BY <3>1, <3>2, FrameKinds, SendOne DEF TypeOK, WireTyped
      <3> QED BY <1>11, <3>3 DEF VisitorSends, TypeOK, WireTyped
    <2> QED BY <1>11, <1>c, <1>d, <1>e, <2>1, <2>2 DEF TypeOK, VisitorSends
  <1>12. CASE RecvReqHead
    <2>1. WireTyped'
      BY <1>12, FrameKinds DEF RecvReqHead, NextFrame, TypeOK, WireTyped
    <2>2. PumpTyped'
      BY <1>12 DEF RecvReqHead, NextFrame, TypeOK, PumpTyped
    <2> QED BY <1>12, <1>a, <1>d, <1>e, <2>1, <2>2 DEF TypeOK, RecvReqHead
  <1>13. CASE RecvFromEdge
    <2>1. WireTyped'
      BY <1>13, FrameKinds DEF RecvFromEdge, NextFrame, TypeOK, WireTyped
    <2>2. StreamTyped'
      <3>1. Head(toAgent) \in Frames /\ Head(toAgent).type = "msg"
        BY <1>13 DEF RecvFromEdge, NextFrame, TypeOK, WireTyped
      <3>2. Head(toAgent).n \in Nat  BY <3>1, FrameKinds
      <3>3. inbox' = inbox \/ inbox' = Append(inbox, Head(toAgent).n)
        BY <1>13 DEF RecvFromEdge
      <3>4. inbox' \in Seq(Nat)  BY <3>2, <3>3 DEF TypeOK, StreamTyped
      <3>5. unacked' = unacked \/ unacked' = unacked + 1
        BY <1>13 DEF RecvFromEdge
      <3>6. wake' \in BOOLEAN /\ localReq' \in BOOLEAN
        <4>1. CASE Running /\ unacked >= WS_MSG_TOLERANCE
          BY <1>13, <4>1 DEF RecvFromEdge
        <4>2. CASE Running /\ ~(unacked >= WS_MSG_TOLERANCE)
          BY <1>13, <4>2 DEF RecvFromEdge, TypeOK, StreamTyped
        <4>3. CASE ~Running
          BY <1>13, <4>3 DEF RecvFromEdge, TypeOK, StreamTyped
        <4> QED BY <4>1, <4>2, <4>3
      <3> QED BY <1>13, <3>4, <3>5, <3>6 DEF RecvFromEdge, TypeOK, StreamTyped
    <2> QED BY <1>13, <1>a, <1>c, <1>e, <2>1, <2>2 DEF TypeOK, RecvFromEdge
  <1>14. CASE RecvEdgeClose
    <2>1. WireTyped'
      BY <1>14, FrameKinds DEF RecvEdgeClose, NextFrame, TypeOK, WireTyped
    <2>2. StreamTyped'
      BY <1>14 DEF RecvEdgeClose, NextFrame, TypeOK, StreamTyped
    <2> QED BY <1>14, <1>a, <1>c, <1>e, <2>1, <2>2 DEF TypeOK, RecvEdgeClose
  <1>15. CASE RecvReset
    <2>1. WireTyped'
      BY <1>15, FrameKinds DEF RecvReset, NextFrame, TypeOK, WireTyped
    <2>2. StreamTyped'
      BY <1>15 DEF RecvReset, NextFrame, TypeOK, StreamTyped
    <2> QED BY <1>15, <1>a, <1>c, <1>e, <2>1, <2>2 DEF TypeOK, RecvReset
  <1>16. CASE RecvEdgeAck
    <2>1. WireTyped'
      BY <1>16 DEF RecvEdgeAck, TypeOK, WireTyped
    <2>2. StreamTyped'
      BY <1>16 DEF RecvEdgeAck, TypeOK, StreamTyped
    <2> QED BY <1>16, <1>a, <1>c, <1>e, <2>1, <2>2 DEF TypeOK, RecvEdgeAck
  <1>17. CASE Dial
    <2>1. WireTyped'
      BY <1>17, FrameKinds DEF Dial, TypeOK, WireTyped
    <2>2. PumpTyped'
      BY <1>17 DEF Dial, TypeOK, PumpTyped
    <2> QED BY <1>17, <1>a, <1>d, <1>e, <2>1, <2>2 DEF TypeOK, Dial
  <1>18. CASE DialFails
    <2>1. WireTyped'
      BY <1>18, FrameKinds DEF DialFails, TypeOK, WireTyped
    <2>2. PumpTyped'
      BY <1>18 DEF DialFails, TypeOK, PumpTyped
    <2>3. AppTyped'
      BY <1>18 DEF DialFails, TypeOK, AppTyped
    <2> QED BY <1>18, <1>a, <1>d, <2>1, <2>2, <2>3 DEF TypeOK, DialFails
  <1>19. CASE SessionOver
    <2>1. PumpTyped'
      BY <1>19 DEF SessionOver, TypeOK, PumpTyped
    <2>2. AppTyped'
      BY <1>19 DEF SessionOver, TypeOK, AppTyped
    <2> QED BY <1>19, <1>a, <1>b, <1>d, <2>1, <2>2 DEF TypeOK, SessionOver
  <1>20. CASE RunReturns
    <2>1. PumpTyped'
      BY <1>20 DEF RunReturns, TypeOK, PumpTyped
    <2> QED BY <1>20, <1>a, <1>b, <1>d, <1>e, <2>1 DEF TypeOK, RunReturns
  <1>21. CASE Take
    <2>1. PumpTyped'
      BY <1>21 DEF Take, TypeOK, PumpTyped
    <2>2. StreamTyped'
      BY <1>21 DEF Take, TypeOK, StreamTyped
    <2> QED BY <1>21, <1>a, <1>b, <1>e, <2>1, <2>2 DEF TypeOK, Take
  <1>22. CASE Drop
    <2>1. StreamTyped'
      BY <1>22 DEF Drop, TypeOK, StreamTyped
    <2> QED BY <1>22, <1>a, <1>b, <1>c, <1>e, <2>1 DEF TypeOK, Drop
  <1>23. CASE WriteDone
    <2>1. WireTyped'
      BY <1>23 DEF WriteDone, Deliver, TypeOK, WireTyped
    <2>2. PumpTyped'
      BY <1>23 DEF WriteDone, Deliver, TypeOK, PumpTyped
    <2>3. StreamTyped'
      BY <1>23 DEF WriteDone, Deliver, Stages, Bounded, Written, TypeOK, StreamTyped
    <2>4. AppTyped'
      BY <1>23 DEF WriteDone, Deliver, TypeOK, AppTyped, StreamTyped
    <2> QED BY <1>23, <1>a, <2>1, <2>2, <2>3, <2>4 DEF TypeOK, WriteDone
  <1>24. CASE WriteFails
    <2>1. PumpTyped'
      BY <1>24 DEF WriteFails, Deliver, TypeOK, PumpTyped
    <2>2. StreamTyped'
      BY <1>24 DEF WriteFails, Deliver, TypeOK, StreamTyped
    <2>3. AppTyped'
      <3>1. gotA' = gotA \/ gotA' = Append(gotA, writing)
        BY <1>24 DEF WriteFails, Deliver
      <3>2. gotA' \in Seq(Nat)  BY <3>1, AppendTyped DEF TypeOK, AppTyped, StreamTyped
      <3> QED BY <1>24, <3>2 DEF WriteFails, TypeOK, AppTyped
    <2> QED BY <1>24, <1>a, <1>b, <2>1, <2>2, <2>3 DEF TypeOK, WriteFails
  <1>25. CASE HandleClose
    <2>1. WireTyped'
      BY <1>25, FrameKinds DEF HandleClose, SendClose, TypeOK, WireTyped
    <2>2. PumpTyped'
      BY <1>25 DEF HandleClose, SendClose, TypeOK, PumpTyped
    <2>3. AppTyped'
      BY <1>25 DEF HandleClose, SendClose, TypeOK, AppTyped
    <2> QED BY <1>25, <1>a, <1>d, <2>1, <2>2, <2>3 DEF TypeOK, HandleClose
  <1>26. CASE Wait
    <2>1. PumpTyped'
      BY <1>26 DEF Wait, TypeOK, PumpTyped
    <2> QED BY <1>26, <1>a, <1>b, <1>d, <1>e, <2>1 DEF TypeOK, Wait
  <1>27. CASE Woken
    <2>1. PumpTyped'
      BY <1>27 DEF Woken, TypeOK, PumpTyped
    <2>2. StreamTyped'
      BY <1>27 DEF Woken, TypeOK, StreamTyped
    <2> QED BY <1>27, <1>a, <1>b, <1>e, <2>1, <2>2 DEF TypeOK, Woken
  <1>28. CASE SeesLocalDone
    <2>1. PumpTyped'
      BY <1>28 DEF SeesLocalDone, TypeOK, PumpTyped
    <2>2. AppTyped'
      BY <1>28 DEF SeesLocalDone, TypeOK, AppTyped
    <2> QED BY <1>28, <1>a, <1>b, <1>d, <2>1, <2>2 DEF TypeOK, SeesLocalDone
  <1>29. CASE Read
    <2>1. PumpTyped'
      BY <1>29 DEF Read, TypeOK, PumpTyped
    <2>2. StreamTyped'
      BY <1>29 DEF Read, TypeOK, StreamTyped
    <2> QED BY <1>29, <1>a, <1>b, <1>e, <2>1, <2>2 DEF TypeOK, Read
  <1>30. CASE Relay
    <2>1. WireTyped'
      BY <1>30, FrameKinds DEF Relay, TypeOK, WireTyped, StreamTyped
    <2>2. PumpTyped'
      BY <1>30 DEF Relay, TypeOK, PumpTyped
    <2>3. StreamTyped'
      BY <1>30 DEF Relay, TypeOK, StreamTyped
    <2> QED BY <1>30, <1>a, <1>e, <2>1, <2>2, <2>3 DEF TypeOK, Relay
  <1>31. CASE ReadFails
    <2>1. PumpTyped'
      BY <1>31 DEF ReadFails, TypeOK, PumpTyped
    <2>2. StreamTyped'
      BY <1>31 DEF ReadFails, TypeOK, StreamTyped
    <2> QED BY <1>31, <1>a, <1>b, <1>e, <2>1, <2>2 DEF TypeOK, ReadFails
  <1>32. CASE LocalCloses
    <2>1. WireTyped'
      BY <1>32, FrameKinds DEF LocalCloses, SendClose, TypeOK, WireTyped, PumpTyped
    <2>2. PumpTyped'
      BY <1>32 DEF LocalCloses, SendClose, TypeOK, PumpTyped
    <2>3. StreamTyped'
      BY <1>32 DEF LocalCloses, SendClose, TypeOK, StreamTyped
    <2> QED BY <1>32, <1>a, <1>e, <2>1, <2>2, <2>3 DEF TypeOK, LocalCloses
  <1>33. CASE Cancelled
    <2>1. PumpTyped'
      BY <1>33 DEF Cancelled, TypeOK, PumpTyped
    <2> QED BY <1>33, <1>a, <1>b, <1>d, <1>e, <2>1 DEF TypeOK, Cancelled
  <1>34. CASE AppSends
    <2>1. AppTyped'
      BY <1>34 DEF AppSends, TypeOK, AppTyped
    <2> QED BY <1>34, <1>a, <1>b, <1>c, <1>d, <2>1 DEF TypeOK, AppSends
  <1>35. CASE AppEnds
    <2>1. AppTyped'
      BY <1>35 DEF AppEnds, TypeOK, AppTyped
    <2> QED BY <1>35, <1>a, <1>b, <1>c, <1>d, <2>1 DEF TypeOK, AppEnds
  <1>36. CASE UNCHANGED vars
    BY <1>36, <1>a, <1>b, <1>c, <1>d, <1>e DEF vars, TypeOK
  <1> QED
    BY <1>1, <1>2, <1>3, <1>4, <1>5, <1>6, <1>7, <1>8, <1>9, <1>10, <1>11,
       <1>12, <1>13, <1>14, <1>15, <1>16, <1>17, <1>18, <1>19, <1>20, <1>21,
       <1>22, <1>23, <1>24, <1>25, <1>26, <1>27, <1>28, <1>29, <1>30, <1>31,
       <1>32, <1>33, <1>34, <1>35, <1>36 DEF Next, Edge, Agent

\* What taking a frame off the wire leaves.
LEMMA NextDataFacts ==
    ASSUME TypeOK, NEW type, NextData(type)
    PROVE  /\ data # <<>> /\ Len(data) > 0 /\ Head(data) = data[1] /\ data[1].type = type
           /\ data[1] \in Frames /\ data' \in Seq(Frames) /\ Len(data') = Len(data) - 1
           /\ \A i \in 1 .. Len(data') : i + 1 \in 1 .. Len(data) /\ data'[i] = data[i + 1]
  <1>1. data \in Seq(Frames) /\ data # <<>> /\ data' = Tail(data)
    BY DEF TypeOK, WireTyped, NextData
  <1>2. Len(data) \in Nat /\ Len(data) > 0  BY <1>1
  <1>3. Head(data) = data[1] /\ data[1] \in Frames  BY <1>1, <1>2
  <1>4. /\ data' \in Seq(Frames) /\ Len(data') = Len(data) - 1
        /\ \A i \in 1 .. Len(data') : data'[i] = data[i + 1]
    BY <1>1, HeadTailProperties
  <1> QED BY <1>1, <1>2, <1>3, <1>4 DEF NextData

LEMMA NextFrameFacts ==
    ASSUME TypeOK, NEW type, NextFrame(type)
    PROVE  /\ toAgent # <<>> /\ Len(toAgent) > 0 /\ Head(toAgent) = toAgent[1]
           /\ toAgent[1].type = type /\ toAgent[1] \in Frames
           /\ toAgent' \in Seq(Frames) /\ Len(toAgent') = Len(toAgent) - 1
           /\ \A i \in 1 .. Len(toAgent') :
                 i + 1 \in 1 .. Len(toAgent) /\ toAgent'[i] = toAgent[i + 1]
  <1>1. toAgent \in Seq(Frames) /\ toAgent # <<>> /\ toAgent' = Tail(toAgent)
    BY DEF TypeOK, WireTyped, NextFrame
  <1>2. Len(toAgent) \in Nat /\ Len(toAgent) > 0  BY <1>1
  <1>3. Head(toAgent) = toAgent[1] /\ toAgent[1] \in Frames  BY <1>1, <1>2
  <1>4. /\ toAgent' \in Seq(Frames) /\ Len(toAgent') = Len(toAgent) - 1
        /\ \A i \in 1 .. Len(toAgent') : toAgent'[i] = toAgent[i + 1]
    BY <1>1, HeadTailProperties
  <1> QED BY <1>1, <1>2, <1>3, <1>4 DEF NextFrame

\* What queueing a frame for the edge adds.
LEMMA AppendFacts ==
    ASSUME TypeOK, NEW f \in Frames
    PROVE  /\ Append(data, f) # <<>> /\ Len(Append(data, f)) = Len(data) + 1
           /\ \A i \in 1 .. Len(data) : Append(data, f)[i] = data[i]
           /\ Append(data, f)[Len(data) + 1] = f
           /\ Len(data) \in Nat
  BY DEF TypeOK, WireTyped

\* A frame is sent to the agent: it is of the right kind for where it comes.
LEMMA FramesUpSend ==
    ASSUME TypeOK, FramesUp, Severed, NEW f \in Frames, Send(<<f>>),
           sentV' \in Nat, sentV' >= sentV, UNCHANGED <<agent, up>>,
           visitor \in {"closed", "refused"} => visitor' = visitor,
           f.type \in {"head", "msg", "close", "reset"},
           f.type = "head" => toAgent = <<>> /\ agent = "none",
           f.type \in {"close", "reset"} => visitor' \in {"closed", "refused"},
           f.type = "msg" => f.n \in 1 .. sentV',
           up /\ agent = "none" /\ toAgent = <<>> => f.type = "head"
    PROVE  FramesUp'
  <1>0. toAgent \in Seq(Frames) /\ Len(toAgent) \in Nat /\ sentV \in Nat
    BY DEF TypeOK, WireTyped, VisitorTyped
  <1>1. CASE ~up
    <2>1. toAgent' = <<>> /\ Len(toAgent') = 0  BY <1>1, SendOne DEF Severed
    <2> QED BY <1>1, <2>1 DEF FramesUp
  <1>2. CASE up
    <2>1. /\ Len(toAgent') = Len(toAgent) + 1
          /\ \A i \in 1 .. Len(toAgent) : toAgent'[i] = toAgent[i]
          /\ toAgent'[Len(toAgent) + 1] = f
      BY <1>2, SendOne
    <2>2. toAgent = <<>> <=> Len(toAgent) = 0  BY <1>0
    <2>3. ASSUME NEW i \in 1 .. Len(toAgent')
          PROVE  /\ toAgent'[i].type = "head" => i = 1 /\ agent' = "none"
                 /\ toAgent'[i].type \in {"close", "reset"} => visitor' \in {"closed", "refused"}
                 /\ toAgent'[i].type = "msg" => toAgent'[i].n \in 1 .. sentV'
                 /\ toAgent'[i].type \in {"head", "msg", "close", "reset"}
      <3>1. CASE i \in 1 .. Len(toAgent)
        <4>1. toAgent'[i] = toAgent[i]  BY <2>1, <3>1
        <4> QED BY <1>0, <3>1, <4>1 DEF FramesUp
      <3>2. CASE i = Len(toAgent) + 1
        <4>1. toAgent'[i] = f  BY <2>1, <3>2
        <4> QED BY <1>0, <2>2, <3>2, <4>1
      <3> QED BY <1>0, <2>1, <2>3, <3>1, <3>2
    <2>4. ASSUME agent' = "none" PROVE toAgent' # <<>> /\ toAgent'[1].type = "head"
      <3>0. toAgent' # <<>>  BY <1>0, <2>1
      <3>1. CASE toAgent = <<>>
        BY <1>0, <1>2, <2>1, <2>2, <2>4, <3>0, <3>1
      <3>2. CASE toAgent # <<>>
        <4>1. 1 \in 1 .. Len(toAgent)  BY <1>0, <2>2, <3>2
        <4> QED BY <2>1, <2>4, <3>0, <3>2, <4>1 DEF FramesUp
      <3> QED BY <3>1, <3>2
    <2> QED BY <2>3, <2>4 DEF FramesUp
  <1> QED BY <1>1, <1>2 DEF TypeOK, WireTyped

\* The agent takes a frame off the wire.
LEMMA FramesUpTake ==
    ASSUME TypeOK, FramesUp, NEW type, NextFrame(type), UNCHANGED <<visitor, sentV>>,
           (type = "head" /\ agent' = "dialing") \/ (type # "head" /\ agent' = agent)
    PROVE  FramesUp' /\ (type # "head" => agent # "none")
  <1>1. 1 \in 1 .. Len(toAgent)  BY NextFrameFacts DEF TypeOK, WireTyped
  <1>2. toAgent[1].type = type /\ toAgent # <<>>  BY NextFrameFacts
  <1>3. type # "head" => agent # "none"  BY <1>2 DEF FramesUp
  <1>4. ASSUME NEW i \in 1 .. Len(toAgent')
        PROVE  /\ toAgent'[i].type # "head"
               /\ toAgent'[i].type \in {"close", "reset"} => visitor' \in {"closed", "refused"}
               /\ toAgent'[i].type = "msg" => toAgent'[i].n \in 1 .. sentV'
               /\ toAgent'[i].type \in {"head", "msg", "close", "reset"}
    <2>1. i + 1 \in 1 .. Len(toAgent) /\ toAgent'[i] = toAgent[i + 1]
      BY NextFrameFacts
    <2>2. i + 1 # 1  BY <2>1
    <2> QED BY <2>1, <2>2 DEF FramesUp
  <1>5. agent' # "none"  BY <1>3
  <1> QED BY <1>3, <1>4, <1>5 DEF FramesUp

\* A frame is queued for the edge, if the socket is still open.
LEMMA FramesDownAppend ==
    ASSUME TypeOK, FramesDown, Severed, Undialed, NEW f \in Frames,
           data' = (IF up THEN Append(data, f) ELSE data),
           UNCHANGED <<visitor, up, sentA>>,
           f.type \in {"head", "answer", "msg", "close"},
           f.type \in {"head", "answer"} => data = <<>> /\ visitor \in {"upgrading", "refused"},
           f.type = "answer" => agent' = "ended",
           agent = "ended" => agent' = "ended",
           f.type = "msg" => f.n \in 1 .. sentA,
           f.type \in {"msg", "close"} => agent \in {"open", "ended"}
    PROVE  FramesDown'
  <1>0. data \in Seq(Frames) /\ Len(data) \in Nat /\ (data = <<>> <=> Len(data) = 0)
    BY DEF TypeOK, WireTyped
  <1>1. CASE ~up
    <2>1. data' = <<>> /\ Len(data') = 0  BY <1>1 DEF Severed
    <2> QED BY <1>1, <2>1 DEF FramesDown
  <1>2. CASE up
    <2>1. /\ data' # <<>> /\ Len(data') = Len(data) + 1
          /\ \A i \in 1 .. Len(data) : data'[i] = data[i]
          /\ data'[Len(data) + 1] = f
      BY <1>2, AppendFacts
    <2>2. ASSUME NEW i \in 1 .. Len(data')
          PROVE  /\ data'[i].type \in {"head", "answer"} => i = 1 /\ visitor' \in {"upgrading", "refused"}
                 /\ data'[i].type = "answer" => agent' = "ended"
                 /\ data'[i].type = "msg" => data'[i].n \in 1 .. sentA'
                 /\ data'[i].type \in {"head", "answer", "msg", "close"}
      <3>1. CASE i \in 1 .. Len(data)
        <4>1. data'[i] = data[i]  BY <2>1, <3>1
        <4> QED BY <1>0, <3>1, <4>1 DEF FramesDown
      <3>2. CASE i = Len(data) + 1
        <4>1. data'[i] = f  BY <2>1, <3>2
        <4> QED BY <1>0, <3>2, <4>1
      <3> QED BY <1>0, <2>1, <2>2, <3>1, <3>2
    <2>3. ASSUME visitor' = "upgrading" PROVE data'[1].type \in {"head", "answer"}
      <3>1. CASE data = <<>>
        <4>1. data'[1] = f  BY <1>0, <2>1, <3>1
        <4>2. f.type \in {"head", "answer"} \/ agent \in {"open", "ended"}  OBVIOUS
        <4>3. agent \notin {"open", "ended"}  BY <1>2, <2>3, <3>1 DEF FramesDown
        <4> QED BY <4>1, <4>2, <4>3
      <3>2. CASE data # <<>>
        <4>1. 1 \in 1 .. Len(data)  BY <1>0, <3>2
        <4>2. data'[1] = data[1]  BY <2>1, <4>1
        <4>3. agent \in {"open", "ended"} => data[1].type \in {"head", "answer"}
          BY <1>2, <2>3 DEF FramesDown
        <4>4. agent \in {"open", "ended"}  BY <3>2 DEF Undialed, TypeOK, PumpTyped
        <4> QED BY <4>2, <4>3, <4>4
      <3> QED BY <3>1, <3>2
    <2> QED BY <2>1, <2>2, <2>3 DEF FramesDown
  <1> QED BY <1>1, <1>2 DEF TypeOK, WireTyped

\* The edge takes a frame off the wire.
LEMMA FramesDownTake ==
    ASSUME TypeOK, FramesDown, NEW type, NextData(type), UNCHANGED <<agent, up, sentA>>,
           visitor' # "upgrading"
    PROVE  FramesDown'
  <1>1. ASSUME NEW i \in 1 .. Len(data')
        PROVE  /\ data'[i].type \in {"msg", "close"}
               /\ data'[i].type = "msg" => data'[i].n \in 1 .. sentA'
    <2>1. i + 1 \in 1 .. Len(data) /\ data'[i] = data[i + 1]
      BY NextDataFacts
    <2>2. i + 1 # 1  BY <2>1
    <2> QED BY <2>1, <2>2 DEF FramesDown
  <1> QED BY <1>1 DEF FramesDown

\* What a write hands to the application is its next message.
LEMMA DeliverFacts ==
    ASSUME TypeOK, Bounded, Queued, WrittenNext, edgePump = "writing",
           Deliver \/ UNCHANGED gotA
    PROVE  /\ \/ gotA' = gotA
              \/ ~appClosed /\ gotA' = Append(gotA, Len(gotA) + 1) /\ Len(gotA) < sentV
           /\ gotA' \in Seq(Nat) /\ Len(gotA') <= sentV
           /\ Len(gotA') \in {Len(gotA), Len(gotA) + 1}
           /\ ~appClosed /\ Deliver => Len(gotA') = Len(gotA) + 1
  <1>0. gotA \in Seq(Nat) /\ Len(gotA) \in Nat /\ sentV \in Nat /\ Len(gotA) <= sentV
    BY DEF TypeOK, AppTyped, VisitorTyped, Bounded
  <1>1. CASE ~(~appClosed /\ Deliver)
    <2>1. gotA' = gotA  BY <1>1 DEF Deliver
    <2>2. gotA' \in Seq(Nat) /\ Len(gotA') = Len(gotA)  BY <1>0, <2>1
    <2>3. Len(gotA') <= sentV /\ Len(gotA') \in {Len(gotA), Len(gotA) + 1}  BY <1>0, <2>2
    <2> QED BY <1>1, <2>1, <2>2, <2>3
  <1>2. CASE ~appClosed /\ Deliver
    <2>1. writing = Len(gotA) + 1 /\ writing \in 1 .. sentV
      BY <1>2 DEF WrittenNext, Queued
    <2>2. gotA' = Append(gotA, Len(gotA) + 1)  BY <1>2, <2>1 DEF Deliver
    <2>3. gotA' \in Seq(Nat) /\ Len(gotA') = Len(gotA) + 1  BY <1>0, <2>2
    <2> QED BY <1>0, <1>2, <2>1, <2>2, <2>3
  <1> QED BY <1>1, <1>2

\* The edge flushes some of its buffer.
LEMMA FramesUpFlush ==
    ASSUME TypeOK, FramesUp, Linked, Severed, Queued,
           NEW k \in 0 .. Len(buffer), FlushSome(k), UNCHANGED <<agent, visitor, sentV, up>>
    PROVE  FramesUp'
  <1>0. /\ toAgent \in Seq(Frames) /\ Len(toAgent) \in Nat /\ Len(toAgent') \in Nat
        /\ (toAgent = <<>> <=> Len(toAgent) = 0) /\ (toAgent' = <<>> <=> Len(toAgent') = 0)
    BY FlushFacts DEF TypeOK, WireTyped
  <1>1. CASE ~up \/ k = 0
    <2>1. toAgent' = toAgent
      <3>1. CASE ~up  BY <3>1, FlushFacts
      <3>2. CASE up /\ k = 0
        BY <1>0, <3>2, FlushFacts
      <3> QED BY <1>1, <3>1, <3>2
    <2> QED BY <2>1 DEF FramesUp
  <1>2. CASE up /\ k > 0
    <2>1. /\ Len(toAgent') = Len(toAgent) + k
          /\ \A i \in 1 .. Len(toAgent) : toAgent'[i] = toAgent[i]
          /\ \A i \in 1 .. k : toAgent'[Len(toAgent) + i] = Message(buffer[i])
      BY <1>2, FlushFacts
    <2>2. visitor = "open" /\ agent # "none"  BY <1>2 DEF Linked, TypeOK, VisitorTyped
    <2>3. ASSUME NEW i \in 1 .. Len(toAgent')
          PROVE  /\ toAgent'[i].type = "head" => i = 1 /\ agent' = "none"
                 /\ toAgent'[i].type \in {"close", "reset"} => visitor' \in {"closed", "refused"}
                 /\ toAgent'[i].type = "msg" => toAgent'[i].n \in 1 .. sentV'
                 /\ toAgent'[i].type \in {"head", "msg", "close", "reset"}
      <3>1. CASE i \in 1 .. Len(toAgent)
        <4>1. toAgent'[i] = toAgent[i]  BY <2>1, <3>1
        <4> QED BY <3>1, <4>1 DEF FramesUp
      <3>2. CASE i \in Len(toAgent) + 1 .. Len(toAgent')
        <4> DEFINE m == i - Len(toAgent)
        <4>1. m \in 1 .. k /\ i = Len(toAgent) + m  BY <1>0, <2>1, <3>2
        <4>2. toAgent'[i] = Message(buffer[m])  BY <2>1, <4>1
        <4>3. buffer[m] \in 1 .. sentV  BY <4>1 DEF Queued, TypeOK, VisitorTyped
        <4> QED BY <4>2, <4>3, FrameFields
      <3> QED BY <1>0, <2>1, <2>3, <3>1, <3>2
    <2> QED BY <2>2, <2>3 DEF FramesUp
  <1> QED BY <1>1, <1>2 DEF TypeOK, VisitorTyped

\* A frame is sent to the agent: a message is the next one.
LEMMA TakenNextSend ==
    ASSUME TypeOK, TakenNext, NEW f \in Frames, Send(<<f>>),
           UNCHANGED <<appClosed, remoteClose, localReq, agent, inbox, edgePump, gotA>>,
           up /\ ~appClosed /\ ~Closing /\ Running /\ f.type = "msg" =>
              f.n = Taken + Len(inbox) + Len(toAgent) + 1
    PROVE  TakenNext'
  <1> SUFFICES ASSUME ~appClosed, ~Closing, Running,
                      NEW i \in 1 .. Len(toAgent'), toAgent'[i].type = "msg"
               PROVE  toAgent'[i].n = Taken + Len(inbox) + i
    BY DEF TakenNext, Taken, Written, Closing, Running
  <1>0. /\ toAgent \in Seq(Frames) /\ Len(toAgent) \in Nat
        /\ Taken \in Nat /\ Len(inbox) \in Nat
    BY DEF TypeOK, WireTyped, StreamTyped, AppTyped, Taken, Written
  <1>1. CASE i \in 1 .. Len(toAgent)
    <2>1. toAgent'[i] = toAgent[i]  BY <1>1, SendOne
    <2> QED BY <1>1, <2>1 DEF TakenNext
  <1>2. CASE i \notin 1 .. Len(toAgent)
    <2>1. up /\ i = Len(toAgent) + 1 /\ toAgent'[i] = f
      <3>1. up  BY <1>2, SendOne
      <3>2. Len(toAgent') = Len(toAgent) + 1 /\ toAgent'[Len(toAgent) + 1] = f
        BY <3>1, SendOne
      <3>3. i = Len(toAgent) + 1  BY <1>0, <1>2, <3>2
      <3> QED BY <3>1, <3>2, <3>3
    <2> QED BY <1>0, <2>1
  <1> QED BY <1>1, <1>2

\* The agent takes a frame that is not a message, or that it does not keep.
LEMMA TakenNextSkip ==
    ASSUME TypeOK, NEW type, NextFrame(type), TakenNext,
           UNCHANGED <<appClosed, agent, inbox, edgePump, gotA>>,
           Running => Closing'
    PROVE  TakenNext' /\ BufferedNext'
  BY DEF TakenNext, BufferedNext, Running

\* Where nothing has been sent there is no message.
LEMMA NothingSent ==
    ASSUME TypeOK, FramesUp, Queued, Bounded, sentV = 0
    PROVE  /\ Len(inbox) = 0 /\ Len(buffer) = 0 /\ Len(gotA) = 0 /\ edgePump # "writing"
           /\ \A i \in 1 .. Len(toAgent) : toAgent[i].type # "msg"
  <1>1. /\ Len(inbox) \in Nat /\ Len(buffer) \in Nat /\ Len(gotA) \in Nat
        /\ 1 .. sentV = {}
    BY DEF TypeOK, StreamTyped, VisitorTyped, AppTyped
  <1>2. Len(gotA) = 0 /\ edgePump # "writing"  BY <1>1 DEF Bounded, Queued
  <1>3. Len(inbox) = 0 /\ Len(buffer) = 0
    <2>1. Len(inbox) > 0 => 1 \in 1 .. Len(inbox)  BY <1>1
    <2>2. Len(buffer) > 0 => 1 \in 1 .. Len(buffer)  BY <1>1
    <2> QED BY <1>1, <2>1, <2>2 DEF Queued
  <1> QED BY <1>1, <1>2, <1>3 DEF FramesUp

\* A message is sent or buffered, or the visitor is closed.
LEMMA SendsCases ==
    ASSUME NEW refused \in BOOLEAN, VisitorSends(refused)
    PROVE  \/ /\ up /\ buffer = <<>> /\ Send(<<Message(sentV + 1)>>)
              /\ outstanding < WS_MSG_CREDIT /\ outstanding' = outstanding + 1
              /\ UNCHANGED <<visitor, ending, pending, buffer>>
           \/ /\ up /\ buffer' = Append(buffer, sentV + 1)
              /\ UNCHANGED <<visitor, ending, outstanding, toAgent>>
           \/ CloseVisitor("error") /\ UNCHANGED outstanding
  BY DEF VisitorSends

\* What an open visitor's wire is like.
LEMMA OpenWire ==
    ASSUME TypeOK, FramesUp, visitor \in {"upgrading", "open"}, agent # "none"
    PROVE  \A i \in 1 .. Len(toAgent) : toAgent[i].type = "msg"
  BY DEF FramesUp
\* While the upgrade is awaited the edge's first frame is its answer.
LEMMA NotUpgrading ==
    ASSUME TypeOK, Severed, Undialed, FramesDown, data # <<>>,
           data[1].type \notin {"head", "answer"}
    PROVE  visitor # "upgrading"
  BY DEF TypeOK, PumpTyped, WireTyped, Severed, Undialed, FramesDown

\* What a message or a close queued behind the others leaves as it was.
LEMMA DownAppend ==
    ASSUME TypeOK, NEW f \in Frames, f.type \in {"msg", "close"}, data' = Append(data, f)
    PROVE  /\ Headed' = Headed /\ Len(data) \in Nat /\ Len(data') = Len(data) + 1
           /\ data'[Len(data) + 1] = f
           /\ \A i \in 1 .. Len(data) : data'[i] = data[i]
           /\ \A i \in 0 .. Len(data) : NoClose(data', i) => NoClose(data, i)
           /\ NoClose(data', Len(data')) => f.type # "close"
  <1>1. /\ Len(data) \in Nat /\ Len(data') = Len(data) + 1 /\ data' # <<>>
        /\ data'[Len(data) + 1] = f
        /\ \A i \in 1 .. Len(data) : data'[i] = data[i]
    BY AppendFacts
  <1>2. ASSUME NEW i \in 0 .. Len(data) PROVE NoClose(data', i) => NoClose(data, i)
    <2>1. \A j \in 1 .. i : j \in 1 .. Len(data)  BY <1>1
    <2> QED BY <1>1, <2>1 DEF NoClose
  <1>3. NoClose(data', Len(data')) => f.type # "close"
    <2>1. Len(data) + 1 \in 1 .. Len(data')  BY <1>1
    <2> QED BY <1>1, <2>1 DEF NoClose
  <1>4. Headed' = Headed
    <2>1. CASE data = <<>>
      <3>1. data'[1] = f  BY <1>1, <2>1
      <3> QED BY <2>1, <3>1 DEF Headed
    <2>2. CASE data # <<>>
      <3>1. 1 \in 1 .. Len(data)  BY <2>2 DEF TypeOK, WireTyped
      <3>2. data'[1] = data[1]  BY <1>1, <3>1
      <3> QED BY <1>1, <2>2, <3>2 DEF Headed
    <2> QED BY <2>1, <2>2
  <1> QED BY <1>1, <1>2, <1>3, <1>4

\* What is left when the first frame is taken and it is no close.
LEMMA DownTake ==
    ASSUME TypeOK, FramesDown, NEW type, NextData(type), type # "close"
    PROVE  /\ Headed = (IF type \in {"head", "answer"} THEN 1 ELSE 0) /\ Headed' = 0
           /\ Len(data) \in Nat /\ Len(data') \in Nat /\ Len(data') = Len(data) - 1
           /\ \A i \in 1 .. Len(data') : i + 1 \in 1 .. Len(data) /\ data'[i] = data[i + 1]
           /\ \A i \in 0 .. Len(data') : NoClose(data', i) => NoClose(data, i + 1)
  <1>1. /\ data # <<>> /\ data[1].type = type
        /\ Len(data) \in Nat /\ Len(data') \in Nat /\ Len(data') = Len(data) - 1
        /\ \A i \in 1 .. Len(data') : i + 1 \in 1 .. Len(data) /\ data'[i] = data[i + 1]
    BY NextDataFacts
  <1>2. Headed = IF type \in {"head", "answer"} THEN 1 ELSE 0  BY <1>1 DEF Headed
  <1>3. Headed' = 0
    <2> SUFFICES ASSUME data' # <<>> PROVE data'[1].type \notin {"head", "answer"}
      BY DEF Headed
    <2>1. 1 \in 1 .. Len(data')  BY NextDataFacts
    <2>2. data'[1] = data[2] /\ 2 \in 1 .. Len(data)  BY <1>1, <2>1
    <2> QED BY <2>2 DEF FramesDown
  <1>4. ASSUME NEW i \in 0 .. Len(data'), NoClose(data', i) PROVE NoClose(data, i + 1)
    <2> SUFFICES ASSUME NEW j \in 1 .. i + 1 PROVE data[j].type # "close"
      BY DEF NoClose
    <2>1. CASE j = 1  BY <1>1, <2>1
    <2>2. CASE j # 1
      <3>1. j - 1 \in 1 .. i /\ j - 1 \in 1 .. Len(data') /\ (j - 1) + 1 = j
        BY <1>1, <2>2
      <3>2. data'[j - 1] = data[j]  BY <1>1, <3>1
      <3> QED BY <1>4, <3>1, <3>2 DEF NoClose
    <2> QED BY <2>1, <2>2
  <1> QED BY <1>1, <1>2, <1>3, <1>4

\* pumpLocal queues a message, or one of the pumps its close.
LEMMA RelayedNextAppend ==
    ASSUME TypeOK, RelayedNext, NEW f \in Frames, f.type \in {"msg", "close"},
           data' = Append(data, f), UNCHANGED <<visitor, gotV>>,
           Awaited /\ NoClose(data, Len(data)) /\ f.type = "msg" =>
              /\ f.n + Headed = Len(gotV) + Len(data) + 1
              /\ Relayed' + Headed = Len(gotV) + Len(data) + 1
    PROVE  RelayedNext'
  <1> SUFFICES ASSUME Awaited
               PROVE  /\ \A i \in 1 .. Len(data') : NoClose(data', i) /\ data'[i].type = "msg" =>
                            data'[i].n + Headed' = Len(gotV) + i
                      /\ NoClose(data', Len(data')) => Relayed' + Headed' = Len(gotV) + Len(data')
    BY DEF RelayedNext, Awaited
  <1>1. ASSUME NEW i \in 1 .. Len(data'), NoClose(data', i), data'[i].type = "msg"
        PROVE  data'[i].n + Headed' = Len(gotV) + i
    <2>1. CASE i \in 1 .. Len(data)
      <3>1. data'[i] = data[i] /\ NoClose(data, i) /\ Headed' = Headed
        BY <1>1, <2>1, DownAppend
      <3> QED BY <1>1, <2>1, <3>1 DEF RelayedNext
    <2>2. CASE i = Len(data) + 1
      <3>1. data'[i] = f /\ Headed' = Headed /\ Len(data) \in Nat  BY <2>2, DownAppend
      <3>2. NoClose(data', Len(data))
        <4>1. \A j \in 1 .. Len(data) : j \in 1 .. i  BY <2>2, <3>1
        <4> QED BY <1>1, <4>1 DEF NoClose
      <3>3. NoClose(data, Len(data))  BY <3>1, <3>2, DownAppend
      <3>4. f.n + Headed = Len(gotV) + Len(data) + 1  BY <1>1, <3>1, <3>3
      <3>5. Len(gotV) \in Nat  BY DEF TypeOK, VisitorTyped
      <3> QED BY <2>2, <3>1, <3>4, <3>5
    <2>3. Len(data) \in Nat /\ Len(data') = Len(data) + 1  BY DownAppend
    <2> QED BY <2>1, <2>2, <2>3
  <1>2. ASSUME NoClose(data', Len(data')) PROVE Relayed' + Headed' = Len(gotV) + Len(data')
    <2>1. /\ Headed' = Headed /\ Len(data) \in Nat /\ Len(data') = Len(data) + 1
          /\ f.type = "msg"
      BY <1>2, DownAppend
    <2>2. NoClose(data', Len(data))
      <3>1. \A j \in 1 .. Len(data) : j \in 1 .. Len(data')  BY <2>1
      <3> QED BY <1>2, <3>1 DEF NoClose
    <2>3. NoClose(data, Len(data))  BY <2>1, <2>2, DownAppend
    <2>4. Len(gotV) \in Nat  BY DEF TypeOK, VisitorTyped
    <2> QED BY <2>1, <2>3, <2>4
  <1> QED BY <1>1, <1>2

\* The edge takes an answer, or delivers a message.
LEMMA RelayedNextTake ==
    ASSUME TypeOK, FramesDown, RelayedNext, NEW type, NextData(type), type # "close",
           Awaited' => Awaited, UNCHANGED <<up, localPump, readA>>,
           \/ type \in {"head", "answer"} /\ UNCHANGED gotV
           \/ type = "msg" /\ Len(gotV') = Len(gotV) + 1
    PROVE  RelayedNext'
  <1> SUFFICES ASSUME Awaited
               PROVE  /\ \A i \in 1 .. Len(data') : NoClose(data', i) /\ data'[i].type = "msg" =>
                            data'[i].n + Headed' = Len(gotV') + i
                      /\ up /\ localPump # "done" /\ NoClose(data', Len(data')) =>
                            Relayed' + Headed' = Len(gotV') + Len(data')
    BY DEF RelayedNext
  <1>1. /\ Len(data) \in Nat /\ Len(data') \in Nat /\ Len(data') = Len(data) - 1
        /\ Headed' = 0 /\ Len(gotV) \in Nat /\ Len(gotV') = Len(gotV) + 1 - Headed
        /\ Headed \in {0, 1} /\ Relayed' = Relayed /\ Relayed \in Int
    BY DownTake DEF TypeOK, VisitorTyped, StreamTyped, Relayed
  <1>2. ASSUME NEW i \in 1 .. Len(data'), NoClose(data', i), data'[i].type = "msg"
        PROVE  data'[i].n + Headed' = Len(gotV') + i
    <2>1. i + 1 \in 1 .. Len(data) /\ data'[i] = data[i + 1] /\ NoClose(data, i + 1)
      <3>1. i \in 0 .. Len(data')  BY <1>1
      <3> QED BY <1>2, <3>1, DownTake
    <2>2. data[i + 1].n + Headed = Len(gotV) + (i + 1)  BY <1>2, <2>1 DEF RelayedNext
    <2>3. data[i + 1].n \in Nat  BY <1>2, <2>1, FrameKinds DEF TypeOK, WireTyped
    <2>4. PICK n \in Nat : n = data[i + 1].n /\ n = data'[i].n  BY <2>1, <2>3
    <2>5. n + Headed = Len(gotV) + (i + 1)  BY <2>2, <2>4
    <2>6. n + Headed' = Len(gotV') + i  BY <1>1, <2>5
    <2> QED BY <2>4, <2>6
  <1>3. ASSUME up, localPump # "done", NoClose(data', Len(data'))
        PROVE  Relayed' + Headed' = Len(gotV') + Len(data')
    <2>1. NoClose(data, Len(data') + 1) /\ Len(data') + 1 = Len(data)
      <3>1. Len(data') \in 0 .. Len(data')  BY <1>1
      <3> QED BY <1>1, <1>3, <3>1, DownTake
    <2>2. Relayed + Headed = Len(gotV) + Len(data)  BY <1>3, <2>1 DEF RelayedNext
    <2> QED BY <1>1, <2>2
  <1> QED BY <1>2, <1>3

LEMMA ClosedLastAppend ==
    ASSUME TypeOK, ClosedLast, NEW f \in Frames, f.type \in {"msg", "close"},
           data' = Append(data, f), UNCHANGED <<visitor, gotV, sentA>>,
           Awaited /\ NoClose(data, Len(data)) /\ f = Close("app") =>
              sentA + Headed + 1 = Len(gotV) + Len(data) + 1
    PROVE  ClosedLast'
  <1> SUFFICES ASSUME Awaited, NEW i \in 1 .. Len(data'), data'[i] = Close("app"),
                      NoClose(data', i - 1)
               PROVE  sentA + Headed' + 1 = Len(gotV) + i
    BY DEF ClosedLast, Awaited
  <1>1. Len(data) \in Nat /\ Len(data') = Len(data) + 1 /\ Headed' = Headed  BY DownAppend
  <1>2. i - 1 \in 0 .. Len(data)  BY <1>1
  <1>3. NoClose(data, i - 1)  BY <1>2, DownAppend
  <1>4. CASE i \in 1 .. Len(data)
    <2>1. data'[i] = data[i]  BY <1>4, DownAppend
    <2> QED BY <1>1, <1>3, <1>4, <2>1 DEF ClosedLast
  <1>5. CASE i = Len(data) + 1
    <2>1. data'[i] = f /\ i - 1 = Len(data)  BY <1>1, <1>5, DownAppend
    <2>2. NoClose(data, Len(data))  BY <1>3, <2>1
    <2>3. Len(gotV) \in Nat  BY DEF TypeOK, VisitorTyped
    <2> QED BY <1>1, <1>5, <2>1, <2>2, <2>3
  <1> QED BY <1>1, <1>4, <1>5

LEMMA ClosedLastTake ==
    ASSUME TypeOK, FramesDown, ClosedLast, NEW type, NextData(type), type # "close",
           Awaited' => Awaited, UNCHANGED sentA,
           \/ type \in {"head", "answer"} /\ UNCHANGED gotV
           \/ type = "msg" /\ Len(gotV') = Len(gotV) + 1
    PROVE  ClosedLast'
  <1> SUFFICES ASSUME Awaited, NEW i \in 1 .. Len(data'), data'[i] = Close("app"),
                      NoClose(data', i - 1)
               PROVE  sentA + Headed' + 1 = Len(gotV') + i
    BY DEF ClosedLast
  <1>1. /\ Len(data') \in Nat /\ Headed' = 0 /\ Len(gotV) \in Nat /\ sentA \in Nat
        /\ Len(gotV') = Len(gotV) + 1 - Headed /\ Headed \in {0, 1}
    BY DownTake DEF TypeOK, VisitorTyped, AppTyped
  <1>2. i - 1 \in 0 .. Len(data') /\ (i - 1) + 1 = (i + 1) - 1  BY <1>1
  <1>3. /\ i + 1 \in 1 .. Len(data) /\ data'[i] = data[i + 1]
        /\ NoClose(data, (i - 1) + 1)
    BY <1>2, DownTake
  <1>4. NoClose(data, (i + 1) - 1)  BY <1>2, <1>3
  <1>5. sentA + Headed + 1 = Len(gotV) + (i + 1)  BY <1>3, <1>4 DEF ClosedLast
  <1> QED BY <1>1, <1>5
-----------------------------------------------------------------------------
(* Counting the messages among frames.                                     *)

MessagesAt(s) == {i \in DOMAIN s : s[i].type = "msg"}

LEMMA MessagesFinite ==
    ASSUME NEW s \in Seq(Frames)
    PROVE  /\ IsFiniteSet(MessagesAt(s)) /\ MessagesAt(s) \subseteq 1 .. Len(s)
           /\ Messages(s) = Cardinality(MessagesAt(s)) /\ Messages(s) \in Nat
  <1>1. Len(s) \in Nat /\ MessagesAt(s) \subseteq 1 .. Len(s)  BY DEF MessagesAt
  <1>2. IsFiniteSet(1 .. Len(s))  BY <1>1, FS_Interval
  <1>3. IsFiniteSet(MessagesAt(s))  BY <1>1, <1>2, FS_Subset
  <1>4. Messages(s) = Cardinality(MessagesAt(s))  BY DEF Messages, MessagesAt
  <1> QED BY <1>1, <1>3, <1>4, FS_CardinalityType

LEMMA MessagesNone == Messages(<<>>) = 0
  <1>1. MessagesAt(<<>>) = {}  BY DEF MessagesAt
  <1>2. Messages(<<>>) = Cardinality(MessagesAt(<<>>))  BY DEF Messages, MessagesAt
  <1> QED BY <1>1, <1>2, FS_EmptySet

LEMMA MessagesAll ==
    ASSUME NEW s \in Seq(Frames), \A i \in 1 .. Len(s) : s[i].type = "msg"
    PROVE  Messages(s) = Len(s)
  <1>1. Len(s) \in Nat /\ MessagesAt(s) = 1 .. Len(s)  BY DEF MessagesAt
  <1>2. Cardinality(1 .. Len(s)) = Len(s)
    <2>1. 1 \in Int /\ Len(s) \in Int  BY <1>1
    <2>2. Cardinality(1 .. Len(s)) = IF 1 > Len(s) THEN 0 ELSE Len(s) - 1 + 1
      BY <2>1, FS_Interval
    <2> QED BY <1>1, <2>2
  <1> QED BY <1>1, <1>2, MessagesFinite

LEMMA MessagesAppend ==
    ASSUME NEW s \in Seq(Frames), NEW f \in Frames
    PROVE  Messages(Append(s, f)) = Messages(s) + (IF f.type = "msg" THEN 1 ELSE 0)
  <1> DEFINE t == Append(s, f)
  <1>1. /\ t \in Seq(Frames) /\ Len(t) = Len(s) + 1 /\ Len(s) \in Nat
        /\ t[Len(s) + 1] = f /\ \A i \in 1 .. Len(s) : t[i] = s[i]
    OBVIOUS
  <1> HIDE DEF t
  <1>2. IsFiniteSet(MessagesAt(s)) /\ MessagesAt(s) \subseteq 1 .. Len(s)
        /\ Messages(s) = Cardinality(MessagesAt(s)) /\ Messages(t) = Cardinality(MessagesAt(t))
    BY <1>1, MessagesFinite
  <1>3. DOMAIN s = 1 .. Len(s) /\ DOMAIN t = 1 .. Len(s) + 1  BY <1>1
  <1>4. CASE f.type = "msg"
    <2>1. MessagesAt(t) = MessagesAt(s) \cup {Len(s) + 1}
      BY <1>1, <1>3, <1>4 DEF MessagesAt
    <2>2. Len(s) + 1 \notin MessagesAt(s)  BY <1>1, <1>2
    <2>3. Cardinality(MessagesAt(s) \cup {Len(s) + 1}) = Cardinality(MessagesAt(s)) + 1
      BY <1>2, <2>2, FS_AddElement
    <2> QED BY <1>2, <1>4, <2>1, <2>3 DEF t
  <1>5. CASE f.type # "msg"
    <2>1. MessagesAt(t) = MessagesAt(s)
      BY <1>1, <1>3, <1>5 DEF MessagesAt
    <2>2. Messages(s) \in Nat  BY MessagesFinite
    <2> QED BY <1>2, <1>5, <2>1, <2>2 DEF t
  <1> QED BY <1>4, <1>5

LEMMA MessagesTail ==
    ASSUME NEW s \in Seq(Frames), s # <<>>
    PROVE  Messages(s) = Messages(Tail(s)) + (IF s[1].type = "msg" THEN 1 ELSE 0)
  <1> DEFINE t == Tail(s)
             shift == [i \in MessagesAt(t) |-> i + 1]
             later == MessagesAt(s) \ {1}
  <1>1. /\ t \in Seq(Frames) /\ Len(t) = Len(s) - 1 /\ Len(s) \in Nat /\ Len(s) > 0
        /\ \A i \in 1 .. Len(t) : t[i] = s[i + 1]
    BY HeadTailProperties
  <1> HIDE DEF t
  <1>2. /\ IsFiniteSet(MessagesAt(s)) /\ IsFiniteSet(MessagesAt(t))
        /\ Messages(s) = Cardinality(MessagesAt(s)) /\ Messages(t) = Cardinality(MessagesAt(t))
        /\ Messages(t) \in Nat
    BY <1>1, MessagesFinite
  <1>3. DOMAIN s = 1 .. Len(s) /\ DOMAIN t = 1 .. Len(t)  BY <1>1
  <1>4. \A i \in MessagesAt(t) : i \in Nat /\ i + 1 \in later
    BY <1>1, <1>3 DEF MessagesAt
  <1>5. \A j \in later : j - 1 \in MessagesAt(t) /\ (j - 1) + 1 = j
    BY <1>1, <1>3 DEF MessagesAt
  <1>6. shift \in Bijection(MessagesAt(t), later)
    <2>1. shift \in [MessagesAt(t) -> later]  BY <1>4
    <2>2. \A i, j \in MessagesAt(t) : shift[i] = shift[j] => i = j  BY <1>4
    <2>3. \A j \in later : \E i \in MessagesAt(t) : shift[i] = j  BY <1>5
    <2> QED BY <2>1, <2>2, <2>3 DEF Bijection, Injection, Surjection, IsInjective
  <1>7. Cardinality(later) = Cardinality(MessagesAt(t)) /\ IsFiniteSet(later)
    BY <1>2, <1>6, FS_Bijection DEF ExistsBijection
  <1>8. CASE s[1].type = "msg"
    <2>1. 1 \in DOMAIN s  BY <1>1, <1>3
    <2>2. MessagesAt(s) = later \cup {1}  BY <1>8, <2>1 DEF MessagesAt
    <2>3. Cardinality(later \cup {1}) = Cardinality(later) + 1  BY <1>7, FS_AddElement
    <2> QED BY <1>2, <1>7, <1>8, <2>2, <2>3 DEF t
  <1>9. CASE s[1].type # "msg"
    <2>1. MessagesAt(s) = later  BY <1>9 DEF MessagesAt
    <2>2. Messages(s) = Messages(t)  BY <1>2, <1>7, <2>1
    <2> QED BY <1>2, <1>9, <2>2 DEF t
  <1> QED BY <1>8, <1>9

LEMMA UnopenedStep == RelayInv /\ [Next]_vars => Unopened'
  <1> SUFFICES ASSUME RelayInv, [Next]_vars PROVE Unopened'  OBVIOUS
  <1> USE DEF visitorVars, wireVars, pumpVars, inVars, appVars
  <1>a. TypeOK /\ Unopened /\ Linked /\ FramesUp /\ Queued
    BY DEF RelayInv, Stages, Framed, Numbers
  <1>0. UNCHANGED <<visitor, outstanding, buffer, sentV, gotV, acksToAgent,
     acksToEdge, unacked>> => Unopened'
    BY <1>a DEF Unopened
  <1>1. CASE Upgrade
    BY <1>1, <1>a DEF Upgrade, Unopened, Linked, FramesUp, Queued, TypeOK,
       VisitorTyped, PumpTyped, StreamTyped
  <1>2. CASE GiveUp
    BY <1>2, <1>a DEF GiveUp, Unopened, Linked, FramesUp, Queued, TypeOK,
       VisitorTyped, PumpTyped, StreamTyped
  <1>3. CASE VisitorCloses
    BY <1>3, <1>a DEF VisitorCloses, CloseVisitor, Unopened, Linked, FramesUp,
       Queued, TypeOK, VisitorTyped, PumpTyped, StreamTyped
  <1>4. CASE Hibernate
    BY <1>4, <1>a DEF Hibernate, CloseVisitor, Unopened, Linked, FramesUp, Queued,
       TypeOK, VisitorTyped, PumpTyped, StreamTyped
  <1>5. CASE LinkDown
    BY <1>5, <1>a DEF LinkDown, Unopened, Linked, FramesUp, Queued, TypeOK,
       VisitorTyped, PumpTyped, StreamTyped
  <1>6. CASE AgentGone
    BY <1>6, <1>a DEF AgentGone, Unopened, Linked, FramesUp, Queued, TypeOK,
       VisitorTyped, PumpTyped, StreamTyped
  <1>7. CASE RecvAck
    BY <1>7, <1>a DEF RecvAck, Unopened, Linked, FramesUp, Queued, TypeOK,
       VisitorTyped, PumpTyped, StreamTyped
  <1>8. CASE RecvResHead
    BY <1>8, <1>a DEF RecvResHead, NextData, Unopened, Linked, FramesUp, Queued,
       TypeOK, VisitorTyped, PumpTyped, StreamTyped
  <1>9. CASE RecvMessage
    BY <1>9, <1>a DEF RecvMessage, NextData, Unopened, Linked, FramesUp, Queued,
       TypeOK, VisitorTyped, PumpTyped, StreamTyped
  <1>10. CASE RecvClose
    BY <1>10, <1>a DEF RecvClose, NextData, CloseVisitor, Unopened, Linked,
       FramesUp, Queued, TypeOK, VisitorTyped, PumpTyped, StreamTyped
  <1>11. ASSUME NEW refused \in BOOLEAN, VisitorSends(refused) PROVE Unopened'
    BY <1>11, <1>a DEF VisitorSends, CloseVisitor, Unopened, Linked, FramesUp,
       Queued, TypeOK, VisitorTyped, PumpTyped, StreamTyped
  <1>12. CASE RecvFromEdge
    <2>1. CASE visitor \in {"none", "upgrading", "refused"}
      <3>1. sentV = 0  BY <1>a, <2>1 DEF Unopened
      <3>2. 1 \in 1 .. Len(toAgent) /\ toAgent[1].type = "msg"
        BY <1>a, <1>12, NextFrameFacts DEF RecvFromEdge, RelayInv, TypeOK, WireTyped
      <3> QED BY <1>a, <3>1, <3>2 DEF FramesUp
    <2> QED BY <1>12, <2>1 DEF RecvFromEdge, Unopened
  <1>13. CASE RecvEdgeAck
    BY <1>13, <1>a DEF RecvEdgeAck, Unopened, Linked, FramesUp, Queued, TypeOK,
       VisitorTyped, PumpTyped, StreamTyped
  <1>14. CASE WriteDone
    BY <1>14, <1>a DEF WriteDone, Deliver, Unopened, Linked, FramesUp, Queued,
       TypeOK, VisitorTyped, PumpTyped, StreamTyped
  <1>15. CASE RecvReqHead \/ RecvEdgeClose \/ RecvReset \/ Dial \/ DialFails \/
     SessionOver \/ RunReturns \/ Take \/ Drop \/ WriteFails \/ HandleClose \/ Wait
     \/ Woken \/ SeesLocalDone \/ Read \/ Relay \/ ReadFails \/ LocalCloses \/
     Cancelled \/ AppSends \/ AppEnds \/ UNCHANGED vars
    BY <1>15, <1>0 DEF RecvReqHead, RecvEdgeClose, RecvReset, Dial, DialFails,
       SessionOver, RunReturns, Take, Drop, WriteFails, HandleClose, Wait, Woken,
       SeesLocalDone, Read, Relay, ReadFails, LocalCloses, Cancelled, AppSends,
       AppEnds, vars
  <1> QED BY <1>1, <1>2, <1>3, <1>4, <1>5, <1>6, <1>7, <1>8, <1>9, <1>10, <1>11,
     <1>12, <1>13, <1>14, <1>15 DEF Next, Edge, Agent

LEMMA UndialedStep == RelayInv /\ [Next]_vars => Undialed'
  <1> SUFFICES ASSUME RelayInv, [Next]_vars PROVE Undialed'  OBVIOUS
  <1> USE DEF visitorVars, wireVars, pumpVars, inVars, appVars
  <1>a. TypeOK /\ Undialed /\ Linked /\ Unopened /\ FramesUp
    BY DEF RelayInv, Stages, Framed, Numbers
  <1>0. UNCHANGED <<data, agent, edgePump, localPump, closeSent, inbox, msgOut,
     readA, appClosed, sentA, gotA>> => Undialed'
    BY <1>a DEF Undialed
  <1>1. CASE LinkDown
    BY <1>1, <1>a DEF LinkDown, Undialed, Linked, Unopened, FramesUp, TypeOK,
       PumpTyped, WireTyped, StreamTyped
  <1>2. CASE RecvResHead
    BY <1>2, <1>a, NextDataFacts DEF RecvResHead, Undialed, Linked, Unopened,
       FramesUp, TypeOK, PumpTyped, WireTyped, StreamTyped
  <1>3. CASE RecvMessage
    BY <1>3, <1>a, NextDataFacts DEF RecvMessage, Undialed, Linked, Unopened,
       FramesUp, TypeOK, PumpTyped, WireTyped, StreamTyped
  <1>4. CASE RecvClose
    BY <1>4, <1>a, NextDataFacts DEF RecvClose, CloseVisitor, Undialed, Linked,
       Unopened, FramesUp, TypeOK, PumpTyped, WireTyped, StreamTyped
  <1>5. CASE RecvReqHead
    BY <1>5, <1>a DEF RecvReqHead, NextFrame, Undialed, Linked, Unopened, FramesUp,
       TypeOK, PumpTyped, WireTyped, StreamTyped
  <1>6. CASE RecvFromEdge
    <2>1. CASE agent \in {"none", "dialing"}
      <3>1. sentV = 0  BY <1>a, <2>1 DEF Linked, Unopened, TypeOK, VisitorTyped
      <3>2. 1 \in 1 .. Len(toAgent) /\ toAgent[1].type = "msg"
        BY <1>a, <1>6, NextFrameFacts DEF RecvFromEdge, TypeOK, WireTyped
      <3> QED BY <1>a, <3>1, <3>2 DEF FramesUp
    <2> QED BY <1>6, <2>1 DEF RecvFromEdge, Undialed
  <1>7. CASE RecvEdgeAck
    BY <1>7, <1>a DEF RecvEdgeAck, Undialed, Linked, Unopened, FramesUp, TypeOK,
       PumpTyped, WireTyped, StreamTyped
  <1>8. CASE Dial
    BY <1>8, <1>a, AppendFacts, FrameKinds DEF Dial, Undialed, Linked, Unopened,
       FramesUp, TypeOK, PumpTyped, WireTyped, StreamTyped
  <1>9. CASE DialFails
    BY <1>9, <1>a, AppendFacts, FrameKinds DEF DialFails, Undialed, Linked,
       Unopened, FramesUp, TypeOK, PumpTyped, WireTyped, StreamTyped
  <1>10. CASE SessionOver
    BY <1>10, <1>a DEF SessionOver, Running, Undialed, Linked, Unopened, FramesUp,
       TypeOK, PumpTyped, WireTyped, StreamTyped
  <1>11. CASE RunReturns
    BY <1>11, <1>a DEF RunReturns, Undialed, Linked, Unopened, FramesUp, TypeOK,
       PumpTyped, WireTyped, StreamTyped
  <1>12. CASE Take
    BY <1>12, <1>a DEF Take, Undialed, Linked, Unopened, FramesUp, TypeOK,
       PumpTyped, WireTyped, StreamTyped
  <1>13. CASE Drop
    BY <1>13, <1>a DEF Drop, Undialed, Linked, Unopened, FramesUp, TypeOK,
       PumpTyped, WireTyped, StreamTyped
  <1>14. CASE WriteDone
    BY <1>14, <1>a DEF WriteDone, Deliver, Undialed, Linked, Unopened, FramesUp,
       TypeOK, PumpTyped, WireTyped, StreamTyped
  <1>15. CASE WriteFails
    BY <1>15, <1>a DEF WriteFails, Deliver, Undialed, Linked, Unopened, FramesUp,
       TypeOK, PumpTyped, WireTyped, StreamTyped
  <1>16. CASE HandleClose
    BY <1>16, <1>a, AppendFacts, FrameKinds DEF HandleClose, SendClose, Undialed,
       Linked, Unopened, FramesUp, TypeOK, PumpTyped, WireTyped, StreamTyped
  <1>17. CASE Wait
    BY <1>17, <1>a DEF Wait, Undialed, Linked, Unopened, FramesUp, TypeOK,
       PumpTyped, WireTyped, StreamTyped
  <1>18. CASE Woken
    BY <1>18, <1>a DEF Woken, Undialed, Linked, Unopened, FramesUp, TypeOK,
       PumpTyped, WireTyped, StreamTyped
  <1>19. CASE SeesLocalDone
    BY <1>19, <1>a DEF SeesLocalDone, Undialed, Linked, Unopened, FramesUp, TypeOK,
       PumpTyped, WireTyped, StreamTyped
  <1>20. CASE Read
    BY <1>20, <1>a DEF Read, Undialed, Linked, Unopened, FramesUp, TypeOK,
       PumpTyped, WireTyped, StreamTyped
  <1>21. CASE Relay
    BY <1>21, <1>a, AppendFacts, FrameKinds DEF Relay, Undialed, Linked, Unopened,
       FramesUp, TypeOK, PumpTyped, WireTyped, StreamTyped
  <1>22. CASE ReadFails
    BY <1>22, <1>a DEF ReadFails, Undialed, Linked, Unopened, FramesUp, TypeOK,
       PumpTyped, WireTyped, StreamTyped
  <1>23. CASE LocalCloses
    BY <1>23, <1>a, AppendFacts, FrameKinds DEF LocalCloses, SendClose, Undialed,
       Linked, Unopened, FramesUp, TypeOK, PumpTyped, WireTyped, StreamTyped
  <1>24. CASE Cancelled
    BY <1>24, <1>a DEF Cancelled, Undialed, Linked, Unopened, FramesUp, TypeOK,
       PumpTyped, WireTyped, StreamTyped
  <1>25. CASE AppSends
    BY <1>25, <1>a DEF AppSends, AppLives, Undialed, Linked, Unopened, FramesUp,
       TypeOK, PumpTyped, WireTyped, StreamTyped
  <1>26. CASE AppEnds
    BY <1>26, <1>a DEF AppEnds, AppLives, Undialed, Linked, Unopened, FramesUp,
       TypeOK, PumpTyped, WireTyped, StreamTyped
  <1>27. CASE Upgrade \/ GiveUp \/ VisitorCloses \/ Hibernate \/ AgentGone \/
     RecvAck \/ \E refused \in BOOLEAN : VisitorSends(refused) \/ RecvEdgeClose \/
     RecvReset \/ UNCHANGED vars
    BY <1>27, <1>0 DEF Upgrade, GiveUp, VisitorCloses, Hibernate, AgentGone,
       RecvAck, VisitorSends, RecvEdgeClose, RecvReset, vars
  <1> QED BY <1>1, <1>2, <1>3, <1>4, <1>5, <1>6, <1>7, <1>8, <1>9, <1>10, <1>11,
     <1>12, <1>13, <1>14, <1>15, <1>16, <1>17, <1>18, <1>19, <1>20, <1>21, <1>22,
     <1>23, <1>24, <1>25, <1>26, <1>27 DEF Next, Edge, Agent

LEMMA LinkedStep == RelayInv /\ [Next]_vars => Linked'
  <1> SUFFICES ASSUME RelayInv, [Next]_vars PROVE Linked'  OBVIOUS
  <1> USE DEF visitorVars, wireVars, pumpVars, inVars, appVars
  <1>a. TypeOK /\ Linked /\ Undialed /\ Unopened /\ FramesUp /\ FramesDown
    BY DEF RelayInv, Stages, Framed, Numbers
  <1>0. UNCHANGED <<visitor, ending, pending, buffer, toAgent, agent, edgePump,
     localPump>> => Linked'
    BY <1>a DEF Linked
  <1>1. CASE Upgrade
    BY <1>1, <1>a, SendOne, FrameKinds DEF Upgrade, Linked, Undialed, Unopened,
       FramesUp, FramesDown, TypeOK, VisitorTyped, PumpTyped, WireTyped
  <1>2. CASE GiveUp
    BY <1>2, <1>a, SendOne, FrameKinds DEF GiveUp, Linked, Undialed, Unopened,
       FramesUp, FramesDown, TypeOK, VisitorTyped, PumpTyped, WireTyped
  <1>3. CASE VisitorCloses
    BY <1>3, <1>a, SendOne, FrameKinds DEF VisitorCloses, CloseVisitor, Linked,
       Undialed, Unopened, FramesUp, FramesDown, TypeOK, VisitorTyped, PumpTyped,
       WireTyped
  <1>4. CASE Hibernate
    BY <1>4, <1>a, SendOne, FrameKinds DEF Hibernate, CloseVisitor, Linked,
       Undialed, Unopened, FramesUp, FramesDown, TypeOK, VisitorTyped, PumpTyped,
       WireTyped
  <1>5. CASE LinkDown
    BY <1>5, <1>a DEF LinkDown, Linked, Undialed, Unopened, FramesUp, FramesDown,
       TypeOK, VisitorTyped, PumpTyped, WireTyped
  <1>6. CASE AgentGone
    BY <1>6, <1>a DEF AgentGone, Linked, Undialed, Unopened, FramesUp, FramesDown,
       TypeOK, VisitorTyped, PumpTyped, WireTyped
  <1>7. CASE RecvAck
    BY <1>7, <1>a DEF RecvAck, Linked, Undialed, Unopened, FramesUp, FramesDown,
       TypeOK, VisitorTyped, PumpTyped, WireTyped
  <1>8. CASE RecvResHead
    BY <1>8, <1>a DEF RecvResHead, NextData, Linked, Undialed, Unopened, FramesUp,
       FramesDown, TypeOK, VisitorTyped, PumpTyped, WireTyped
  <1>9. CASE RecvClose
    BY <1>9, <1>a, SendOne, FrameKinds DEF RecvClose, NextData, CloseVisitor,
       Linked, Undialed, Unopened, FramesUp, FramesDown, TypeOK, VisitorTyped,
       PumpTyped, WireTyped
  <1>10. ASSUME NEW refused \in BOOLEAN, VisitorSends(refused) PROVE Linked'
    BY <1>10, <1>a, SendOne, FrameKinds DEF VisitorSends, CloseVisitor, Linked,
       Undialed, Unopened, FramesUp, FramesDown, TypeOK, VisitorTyped, PumpTyped,
       WireTyped
  <1>11. CASE RecvReqHead
    BY <1>11, <1>a, NextFrameFacts DEF RecvReqHead, Linked, Undialed, Unopened,
       FramesUp, FramesDown, TypeOK, VisitorTyped, PumpTyped, WireTyped
  <1>12. CASE RecvFromEdge
    BY <1>12, <1>a, NextFrameFacts DEF RecvFromEdge, Linked, Undialed, Unopened,
       FramesUp, FramesDown, TypeOK, VisitorTyped, PumpTyped, WireTyped
  <1>13. CASE RecvEdgeClose
    BY <1>13, <1>a, NextFrameFacts DEF RecvEdgeClose, Linked, Undialed, Unopened,
       FramesUp, FramesDown, TypeOK, VisitorTyped, PumpTyped, WireTyped
  <1>14. CASE RecvReset
    BY <1>14, <1>a, NextFrameFacts DEF RecvReset, Linked, Undialed, Unopened,
       FramesUp, FramesDown, TypeOK, VisitorTyped, PumpTyped, WireTyped
  <1>15. CASE Dial
    BY <1>15, <1>a DEF Dial, Linked, Undialed, Unopened, FramesUp, FramesDown,
       TypeOK, VisitorTyped, PumpTyped, WireTyped
  <1>16. CASE DialFails
    BY <1>16, <1>a DEF DialFails, Linked, Undialed, Unopened, FramesUp, FramesDown,
       TypeOK, VisitorTyped, PumpTyped, WireTyped
  <1>17. CASE SessionOver
    BY <1>17, <1>a DEF SessionOver, Running, Linked, Undialed, Unopened, FramesUp,
       FramesDown, TypeOK, VisitorTyped, PumpTyped, WireTyped
  <1>18. CASE RunReturns
    BY <1>18, <1>a DEF RunReturns, Linked, Undialed, Unopened, FramesUp, FramesDown,
       TypeOK, VisitorTyped, PumpTyped, WireTyped
  <1>19. CASE Take
    BY <1>19, <1>a DEF Take, Linked, Undialed, Unopened, FramesUp, FramesDown,
       TypeOK, VisitorTyped, PumpTyped, WireTyped
  <1>20. CASE WriteDone
    BY <1>20, <1>a DEF WriteDone, Deliver, Linked, Undialed, Unopened, FramesUp,
       FramesDown, TypeOK, VisitorTyped, PumpTyped, WireTyped
  <1>21. CASE WriteFails
    BY <1>21, <1>a DEF WriteFails, Deliver, Linked, Undialed, Unopened, FramesUp,
       FramesDown, TypeOK, VisitorTyped, PumpTyped, WireTyped
  <1>22. CASE HandleClose
    BY <1>22, <1>a DEF HandleClose, SendClose, Linked, Undialed, Unopened, FramesUp,
       FramesDown, TypeOK, VisitorTyped, PumpTyped, WireTyped
  <1>23. CASE Wait
    BY <1>23, <1>a DEF Wait, Linked, Undialed, Unopened, FramesUp, FramesDown,
       TypeOK, VisitorTyped, PumpTyped, WireTyped
  <1>24. CASE Woken
    BY <1>24, <1>a DEF Woken, Linked, Undialed, Unopened, FramesUp, FramesDown,
       TypeOK, VisitorTyped, PumpTyped, WireTyped
  <1>25. CASE SeesLocalDone
    BY <1>25, <1>a DEF SeesLocalDone, Linked, Undialed, Unopened, FramesUp,
       FramesDown, TypeOK, VisitorTyped, PumpTyped, WireTyped
  <1>26. CASE Read
    BY <1>26, <1>a DEF Read, Linked, Undialed, Unopened, FramesUp, FramesDown,
       TypeOK, VisitorTyped, PumpTyped, WireTyped
  <1>27. CASE Relay
    BY <1>27, <1>a DEF Relay, Linked, Undialed, Unopened, FramesUp, FramesDown,
       TypeOK, VisitorTyped, PumpTyped, WireTyped
  <1>28. CASE ReadFails
    BY <1>28, <1>a DEF ReadFails, Linked, Undialed, Unopened, FramesUp, FramesDown,
       TypeOK, VisitorTyped, PumpTyped, WireTyped
  <1>29. CASE LocalCloses
    BY <1>29, <1>a DEF LocalCloses, SendClose, Linked, Undialed, Unopened, FramesUp,
       FramesDown, TypeOK, VisitorTyped, PumpTyped, WireTyped
  <1>30. CASE Cancelled
    BY <1>30, <1>a DEF Cancelled, Linked, Undialed, Unopened, FramesUp, FramesDown,
       TypeOK, VisitorTyped, PumpTyped, WireTyped
  <1>31. CASE RecvMessage \/ RecvEdgeAck \/ Drop \/ AppSends \/ AppEnds \/ UNCHANGED
     vars
    BY <1>31, <1>0 DEF RecvMessage, RecvEdgeAck, Drop, AppSends, AppEnds, vars
  <1> QED BY <1>1, <1>2, <1>3, <1>4, <1>5, <1>6, <1>7, <1>8, <1>9, <1>10, <1>11,
     <1>12, <1>13, <1>14, <1>15, <1>16, <1>17, <1>18, <1>19, <1>20, <1>21, <1>22,
     <1>23, <1>24, <1>25, <1>26, <1>27, <1>28, <1>29, <1>30, <1>31 DEF Next, Edge,
     Agent

LEMMA SeveredStep == RelayInv /\ [Next]_vars => Severed'
  <1> SUFFICES ASSUME RelayInv, [Next]_vars PROVE Severed'  OBVIOUS
  <1> USE DEF visitorVars, wireVars, pumpVars, inVars, appVars
  <1>a. TypeOK /\ Severed  BY DEF RelayInv, Stages, Framed, Numbers
  <1>0. UNCHANGED <<up, toAgent, acksToAgent, data, acksToEdge>> => Severed'
    BY <1>a DEF Severed
  <1>1. CASE Upgrade
    BY <1>1, <1>a, SendOne, FrameKinds DEF Upgrade, Severed, TypeOK, WireTyped
  <1>2. CASE GiveUp
    BY <1>2, <1>a, SendOne, FrameKinds DEF GiveUp, Severed, TypeOK, WireTyped
  <1>3. CASE VisitorCloses
    BY <1>3, <1>a, SendOne, FrameKinds DEF VisitorCloses, CloseVisitor, Severed,
       TypeOK, WireTyped
  <1>4. CASE Hibernate
    BY <1>4, <1>a, SendOne, FrameKinds DEF Hibernate, CloseVisitor, Severed, TypeOK,
       WireTyped
  <1>5. CASE LinkDown
    BY <1>5, <1>a DEF LinkDown, Severed, TypeOK, WireTyped
  <1>6. CASE RecvAck
    BY <1>6, <1>a DEF RecvAck, Severed, TypeOK, WireTyped
  <1>7. CASE RecvResHead
    BY <1>7, <1>a, NextDataFacts DEF RecvResHead, Severed, TypeOK, WireTyped
  <1>8. CASE RecvMessage
    BY <1>8, <1>a, NextDataFacts DEF RecvMessage, Severed, TypeOK, WireTyped
  <1>9. CASE RecvClose
    BY <1>9, <1>a, SendOne, FrameKinds, NextDataFacts DEF RecvClose, CloseVisitor,
       Severed, TypeOK, WireTyped
  <1>10. ASSUME NEW refused \in BOOLEAN, VisitorSends(refused) PROVE Severed'
    BY <1>10, <1>a, SendOne, FrameKinds DEF VisitorSends, CloseVisitor, Severed,
       TypeOK, WireTyped
  <1>11. CASE RecvReqHead
    BY <1>11, <1>a, NextFrameFacts DEF RecvReqHead, Severed, TypeOK, WireTyped
  <1>12. CASE RecvFromEdge
    BY <1>12, <1>a, NextFrameFacts DEF RecvFromEdge, Severed, TypeOK, WireTyped
  <1>13. CASE RecvEdgeClose
    BY <1>13, <1>a, NextFrameFacts DEF RecvEdgeClose, Severed, TypeOK, WireTyped
  <1>14. CASE RecvReset
    BY <1>14, <1>a, NextFrameFacts DEF RecvReset, Severed, TypeOK, WireTyped
  <1>15. CASE RecvEdgeAck
    BY <1>15, <1>a DEF RecvEdgeAck, Severed, TypeOK, WireTyped
  <1>16. CASE Dial
    BY <1>16, <1>a, AppendFacts, FrameKinds DEF Dial, Severed, TypeOK, WireTyped
  <1>17. CASE DialFails
    BY <1>17, <1>a, AppendFacts, FrameKinds DEF DialFails, Severed, TypeOK,
       WireTyped
  <1>18. CASE WriteDone
    BY <1>18, <1>a DEF WriteDone, Deliver, Severed, TypeOK, WireTyped
  <1>19. CASE HandleClose
    BY <1>19, <1>a, AppendFacts, FrameKinds DEF HandleClose, SendClose, Severed,
       TypeOK, WireTyped
  <1>20. CASE Relay
    BY <1>20, <1>a, AppendFacts, FrameKinds DEF Relay, Severed, TypeOK, WireTyped
  <1>21. CASE LocalCloses
    BY <1>21, <1>a, AppendFacts, FrameKinds DEF LocalCloses, SendClose, Severed,
       TypeOK, WireTyped
  <1>22. CASE AgentGone \/ SessionOver \/ RunReturns \/ Take \/ Drop \/ WriteFails
     \/ Wait \/ Woken \/ SeesLocalDone \/ Read \/ ReadFails \/ Cancelled \/ AppSends
     \/ AppEnds \/ UNCHANGED vars
    BY <1>22, <1>0 DEF AgentGone, SessionOver, RunReturns, Take, Drop, WriteFails,
       Wait, Woken, SeesLocalDone, Read, ReadFails, Cancelled, AppSends, AppEnds,
       vars
  <1> QED BY <1>1, <1>2, <1>3, <1>4, <1>5, <1>6, <1>7, <1>8, <1>9, <1>10, <1>11,
     <1>12, <1>13, <1>14, <1>15, <1>16, <1>17, <1>18, <1>19, <1>20, <1>21, <1>22 DEF
     Next, Edge, Agent

LEMMA BoundedStep == RelayInv /\ [Next]_vars => Bounded'
  <1> SUFFICES ASSUME RelayInv, [Next]_vars PROVE Bounded'  OBVIOUS
  <1> USE DEF visitorVars, wireVars, pumpVars, inVars, appVars
  <1>a. TypeOK /\ Bounded  BY DEF RelayInv, Stages, Framed, Numbers
  <1>b. Queued /\ WrittenNext  BY DEF RelayInv, Framed, Numbers, Stages
  <1>0. UNCHANGED <<outstanding, sentV, edgePump, localPump, inbox, unacked, readA,
     sentA, gotA>> => Bounded'
    BY <1>a DEF Bounded, Written
  <1>1. CASE RecvAck
    <2>1. PICK k \in 0 .. Len(buffer) : FlushSome(k)
      BY <1>a, <1>1, RecvAckFlushes DEF Bounded
    <2> QED BY <1>a, <1>1, <2>1 DEF RecvAck, FlushSome, Bounded, Written
  <1>2. ASSUME NEW refused \in BOOLEAN, VisitorSends(refused) PROVE Bounded'
    <2>1. outstanding' <= WS_MSG_CREDIT
      <3>1. \/ UNCHANGED outstanding
            \/ outstanding < WS_MSG_CREDIT /\ outstanding' = outstanding + 1
        BY <1>2 DEF VisitorSends
      <3> QED BY <1>a, <3>1, CreditAssumption DEF Bounded, TypeOK, VisitorTyped
    <2>2. Len(gotA') <= sentV'
      BY <1>a, <1>2 DEF VisitorSends, Bounded, TypeOK, VisitorTyped, AppTyped
    <2> QED BY <1>a, <1>2, <2>1, <2>2 DEF VisitorSends, Bounded, Written
  <1>3. CASE RecvFromEdge
    BY <1>3, <1>a, NextFrameFacts DEF RecvFromEdge, Bounded, Written, TypeOK,
       VisitorTyped, PumpTyped, StreamTyped, AppTyped
  <1>4. CASE SessionOver
    BY <1>4, <1>a DEF SessionOver, Running, Bounded, Written, TypeOK, VisitorTyped,
       PumpTyped, StreamTyped, AppTyped
  <1>5. CASE Take
    BY <1>5, <1>a DEF Take, Bounded, Written, TypeOK, VisitorTyped, PumpTyped,
       StreamTyped, AppTyped
  <1>6. CASE Drop
    BY <1>6, <1>a DEF Drop, Bounded, Written, TypeOK, VisitorTyped, PumpTyped,
       StreamTyped, AppTyped
  <1>7. CASE WriteDone
    <2>1. Len(gotA') <= sentV
      BY <1>a, <1>b, <1>7, DeliverFacts DEF WriteDone
    <2>2. Len(inbox') + Written' <= unacked'
      BY <1>a, <1>7 DEF WriteDone, Bounded, Written, TypeOK, StreamTyped
    <2> QED BY <1>a, <1>7, <2>1, <2>2 DEF WriteDone, Bounded
  <1>8. CASE WriteFails
    <2>1. Len(gotA') <= sentV
      BY <1>a, <1>b, <1>8, DeliverFacts DEF WriteFails
    <2>2. Len(inbox') + Written' <= unacked'
      BY <1>a, <1>8 DEF WriteFails, Bounded, Written, TypeOK, StreamTyped
    <2> QED BY <1>a, <1>8, <2>1, <2>2 DEF WriteFails, Bounded
  <1>9. CASE HandleClose
    BY <1>9, <1>a DEF HandleClose, SendClose, Bounded, Written, TypeOK,
       VisitorTyped, PumpTyped, StreamTyped, AppTyped
  <1>10. CASE Wait
    BY <1>10, <1>a DEF Wait, Bounded, Written, TypeOK, VisitorTyped, PumpTyped,
       StreamTyped, AppTyped
  <1>11. CASE Woken
    BY <1>11, <1>a DEF Woken, Bounded, Written, TypeOK, VisitorTyped, PumpTyped,
       StreamTyped, AppTyped
  <1>12. CASE SeesLocalDone
    BY <1>12, <1>a DEF SeesLocalDone, Bounded, Written, TypeOK, VisitorTyped,
       PumpTyped, StreamTyped, AppTyped
  <1>13. CASE Read
    BY <1>13, <1>a DEF Read, Bounded, Written, TypeOK, VisitorTyped, PumpTyped,
       StreamTyped, AppTyped
  <1>14. CASE Relay
    BY <1>14, <1>a DEF Relay, Bounded, Written, TypeOK, VisitorTyped, PumpTyped,
       StreamTyped, AppTyped
  <1>15. CASE ReadFails
    BY <1>15, <1>a DEF ReadFails, Bounded, Written, TypeOK, VisitorTyped, PumpTyped,
       StreamTyped, AppTyped
  <1>16. CASE LocalCloses
    BY <1>16, <1>a DEF LocalCloses, SendClose, Bounded, Written, TypeOK,
       VisitorTyped, PumpTyped, StreamTyped, AppTyped
  <1>17. CASE Cancelled
    BY <1>17, <1>a DEF Cancelled, Bounded, Written, TypeOK, VisitorTyped, PumpTyped,
       StreamTyped, AppTyped
  <1>18. CASE AppSends
    BY <1>18, <1>a DEF AppSends, AppLives, Bounded, Written, TypeOK, VisitorTyped,
       PumpTyped, StreamTyped, AppTyped
  <1>19. CASE Upgrade \/ GiveUp \/ VisitorCloses \/ Hibernate \/ LinkDown \/
     AgentGone \/ RecvResHead \/ RecvMessage \/ RecvClose \/ RecvReqHead \/
     RecvEdgeClose \/ RecvReset \/ RecvEdgeAck \/ Dial \/ DialFails \/ RunReturns \/
     AppEnds \/ UNCHANGED vars
    BY <1>19, <1>0 DEF Upgrade, GiveUp, VisitorCloses, Hibernate, LinkDown,
       AgentGone, RecvResHead, RecvMessage, RecvClose, RecvReqHead, RecvEdgeClose,
       RecvReset, RecvEdgeAck, Dial, DialFails, RunReturns, AppEnds, vars
  <1> QED BY <1>1, <1>2, <1>3, <1>4, <1>5, <1>6, <1>7, <1>8, <1>9, <1>10, <1>11,
     <1>12, <1>13, <1>14, <1>15, <1>16, <1>17, <1>18, <1>19 DEF Next, Edge, Agent

LEMMA FramesUpStep == RelayInv /\ [Next]_vars => FramesUp'
  <1> SUFFICES ASSUME RelayInv, [Next]_vars PROVE FramesUp'  OBVIOUS
  <1> USE DEF visitorVars, wireVars, pumpVars, inVars, appVars
  <1>a. TypeOK /\ FramesUp  BY DEF RelayInv, Stages, Framed, Numbers
  <1>b. Linked /\ Severed /\ Bounded /\ Queued  BY DEF RelayInv, Framed, Numbers, Stages
  <1>0. UNCHANGED <<visitor, sentV, up, toAgent, agent>> => FramesUp'
    BY <1>a DEF FramesUp
  <1>1. CASE Upgrade
    <2>1. Head101.type = "head"  BY FrameFields
    <2>2. toAgent = <<>> /\ agent = "none" /\ visitor' = "upgrading"
      BY <1>b, <1>1 DEF Upgrade, Linked
    <2> QED BY <1>a, <1>b, <1>1, <2>1, <2>2, FramesUpSend, FrameKinds
           DEF Upgrade, TypeOK, VisitorTyped
  <1>2. CASE GiveUp
    <2>1. Reset.type = "reset"  BY FrameFields
    <2>2. up /\ agent = "none" => toAgent # <<>>
      BY <1>a, <1>2 DEF GiveUp, FramesUp
    <2> QED BY <1>a, <1>b, <1>2, <2>1, <2>2, FramesUpSend, FrameKinds
           DEF GiveUp, TypeOK, VisitorTyped
  <1>3. CASE VisitorCloses
    <2>1. Close("error").type = "close"  BY FrameFields
    <2>2. Send(<<Close("error")>>) /\ visitor = "open" /\ visitor' = "closed"
      BY <1>3 DEF VisitorCloses, CloseVisitor
    <2> QED BY <1>a, <1>b, <1>3, <2>1, <2>2, FramesUpSend, FrameKinds
           DEF VisitorCloses, Linked, TypeOK, VisitorTyped
  <1>4. CASE Hibernate
    <2>1. CASE UNCHANGED <<visitor, toAgent>>
      BY <1>0, <1>4, <2>1 DEF Hibernate
    <2>2. CASE visitor = "open" /\ CloseVisitor("error")
      <3>1. Close("error").type = "close"  BY FrameFields
      <3>2. Send(<<Close("error")>>) /\ visitor' = "closed"  BY <2>2 DEF CloseVisitor
      <3> QED BY <1>a, <1>b, <1>4, <2>2, <3>1, <3>2, FramesUpSend, FrameKinds
             DEF Hibernate, Linked, TypeOK, VisitorTyped
    <2> QED BY <1>4, <2>1, <2>2 DEF Hibernate
  <1>5. CASE LinkDown
    <2>1. toAgent' = <<>> /\ Len(toAgent') = 0  BY <1>5 DEF LinkDown
    <2> QED BY <2>1, <1>5 DEF FramesUp, LinkDown
  <1>6. CASE AgentGone
    BY <1>a, <1>b, <1>6 DEF AgentGone, FramesUp, Severed
  <1>7. CASE RecvAck
    <2>1. PICK k \in 0 .. Len(buffer) : FlushSome(k)
      BY <1>a, <1>b, <1>7, RecvAckFlushes DEF Bounded
    <2> QED BY <1>a, <1>b, <1>7, <2>1, FramesUpFlush DEF RecvAck
  <1>8. CASE RecvResHead
    BY <1>8, <1>a DEF RecvResHead, NextData, FramesUp, TypeOK, VisitorTyped,
       WireTyped
  <1>9. CASE RecvClose
    <2>1. CASE UNCHANGED <<visitor, toAgent>>
      BY <1>0, <1>9, <2>1 DEF RecvClose
    <2>2. CASE visitor = "open" /\ CloseVisitor(Head(data).code)
      <3>1. Close("error").type = "close"  BY FrameFields
      <3>2. Send(<<Close("error")>>) /\ visitor' = "closed"  BY <2>2 DEF CloseVisitor
      <3> QED BY <1>a, <1>b, <1>9, <2>2, <3>1, <3>2, FramesUpSend, FrameKinds
             DEF RecvClose, Linked, TypeOK, VisitorTyped
    <2> QED BY <1>9, <2>1, <2>2 DEF RecvClose
  <1>10. ASSUME NEW refused \in BOOLEAN, VisitorSends(refused) PROVE FramesUp'
    <2>0. visitor = "open" /\ sentV' = sentV + 1 /\ UNCHANGED <<agent, up>>
      BY <1>10 DEF VisitorSends
    <2>1. CASE UNCHANGED <<visitor, toAgent>>
      BY <1>a, <2>0, <2>1 DEF FramesUp, TypeOK, VisitorTyped
    <2>2. CASE UNCHANGED visitor /\ Send(<<Message(sentV + 1)>>)
      <3>1. sentV + 1 \in Nat /\ sentV + 1 \in 1 .. sentV'
        BY <1>a, <2>0 DEF TypeOK, VisitorTyped
      <3>2. LET f == Message(sentV + 1) IN f \in Frames /\ f.type = "msg" /\ f.n = sentV + 1
        BY <3>1, FrameKinds, FrameFields
      <3> QED BY <1>a, <1>b, <2>0, <2>2, <3>1, <3>2, FramesUpSend
             DEF Linked, TypeOK, VisitorTyped
    <2>3. CASE CloseVisitor("error")
      <3>1. Close("error").type = "close"  BY FrameFields
      <3>2. Send(<<Close("error")>>) /\ visitor' = "closed"  BY <2>3 DEF CloseVisitor
      <3> QED BY <1>a, <1>b, <2>0, <3>1, <3>2, FramesUpSend, FrameKinds
             DEF Linked, TypeOK, VisitorTyped
    <2> QED BY <1>10, <2>1, <2>2, <2>3 DEF VisitorSends
  <1>11. CASE RecvReqHead
    BY <1>a, <1>b, <1>11, FramesUpTake DEF RecvReqHead
  <1>12. CASE RecvFromEdge
    BY <1>a, <1>b, <1>12, FramesUpTake DEF RecvFromEdge
  <1>13. CASE RecvEdgeClose
    BY <1>a, <1>b, <1>13, FramesUpTake DEF RecvEdgeClose
  <1>14. CASE RecvReset
    BY <1>a, <1>b, <1>14, FramesUpTake DEF RecvReset
  <1>15. CASE Dial
    BY <1>15, <1>a DEF Dial, FramesUp, TypeOK, VisitorTyped, WireTyped
  <1>16. CASE DialFails
    BY <1>16, <1>a DEF DialFails, FramesUp, TypeOK, VisitorTyped, WireTyped
  <1>17. CASE SessionOver
    BY <1>17, <1>a DEF SessionOver, Running, FramesUp, TypeOK, VisitorTyped,
       WireTyped
  <1>18. CASE RunReturns
    BY <1>18, <1>a DEF RunReturns, FramesUp, TypeOK, VisitorTyped, WireTyped
  <1>19. CASE RecvMessage \/ RecvEdgeAck \/ Take \/ Drop \/ WriteDone \/ WriteFails
     \/ HandleClose \/ Wait \/ Woken \/ SeesLocalDone \/ Read \/ Relay \/ ReadFails
     \/ LocalCloses \/ Cancelled \/ AppSends \/ AppEnds \/ UNCHANGED vars
    BY <1>19, <1>0 DEF RecvMessage, RecvEdgeAck, Take, Drop, WriteDone, WriteFails,
       HandleClose, Wait, Woken, SeesLocalDone, Read, Relay, ReadFails, LocalCloses,
       Cancelled, AppSends, AppEnds, vars
  <1> QED BY <1>1, <1>2, <1>3, <1>4, <1>5, <1>6, <1>7, <1>8, <1>9, <1>10, <1>11,
     <1>12, <1>13, <1>14, <1>15, <1>16, <1>17, <1>18, <1>19 DEF Next, Edge, Agent

LEMMA FramesDownStep == RelayInv /\ [Next]_vars => FramesDown'
  <1> SUFFICES ASSUME RelayInv, [Next]_vars PROVE FramesDown'  OBVIOUS
  <1> USE DEF visitorVars, wireVars, pumpVars, inVars, appVars
  <1>a. TypeOK /\ FramesDown  BY DEF RelayInv, Stages, Framed, Numbers
  <1>b. Linked /\ Undialed /\ Severed /\ Bounded  BY DEF RelayInv, Framed, Numbers, Stages
  <1>c. FramesUp  BY DEF RelayInv, Framed
  <1>0. UNCHANGED <<visitor, up, data, agent, sentA>> => FramesDown'
    BY <1>a DEF FramesDown
  <1>1. CASE Upgrade
    <2>1. data = <<>> /\ Len(data) = 0 /\ agent = "none"
      BY <1>b, <1>1 DEF Upgrade, Linked, Undialed
    <2> QED BY <2>1, <1>1 DEF Upgrade, FramesDown
  <1>2. CASE GiveUp
    BY <1>2, <1>a DEF GiveUp, FramesDown, TypeOK, VisitorTyped
  <1>3. CASE VisitorCloses
    BY <1>3, <1>a DEF VisitorCloses, CloseVisitor, FramesDown, TypeOK, VisitorTyped
  <1>4. CASE Hibernate
    BY <1>4, <1>a DEF Hibernate, CloseVisitor, FramesDown, TypeOK, VisitorTyped
  <1>5. CASE LinkDown
    <2>1. data' = <<>> /\ Len(data') = 0  BY <1>5 DEF LinkDown
    <2> QED BY <2>1, <1>5 DEF FramesDown, LinkDown
  <1>6. CASE AgentGone
    BY <1>6, <1>a DEF AgentGone, FramesDown, TypeOK, VisitorTyped
  <1>7. CASE RecvResHead
    BY <1>a, <1>7, FramesDownTake DEF RecvResHead
  <1>8. CASE RecvMessage
    <2>1. visitor # "upgrading"
      BY <1>a, <1>8, <1>b, NextDataFacts
         DEF RecvMessage, FramesDown, Severed, Undialed, TypeOK, PumpTyped, WireTyped
    <2> QED BY <1>a, <1>8, <2>1, FramesDownTake DEF RecvMessage
  <1>9. CASE RecvClose
    <2>1. visitor # "upgrading"
      BY <1>a, <1>9, <1>b, NextDataFacts
         DEF RecvClose, FramesDown, Severed, Undialed, TypeOK, PumpTyped, WireTyped
    <2>2. visitor' # "upgrading"  BY <2>1, <1>9 DEF RecvClose, CloseVisitor
    <2> QED BY <1>a, <1>9, <2>2, FramesDownTake DEF RecvClose
  <1>10. ASSUME NEW refused \in BOOLEAN, VisitorSends(refused) PROVE FramesDown'
    BY <1>10, <1>a DEF VisitorSends, CloseVisitor, FramesDown, TypeOK, VisitorTyped
  <1>11. CASE RecvReqHead
    <2>1. agent' = "dialing" /\ agent = "none"
      <3>1. 1 \in 1 .. Len(toAgent) /\ toAgent[1].type = "head" /\ agent' = "dialing"
        BY <1>a, <1>11, NextFrameFacts DEF RecvReqHead, TypeOK, WireTyped
      <3> QED BY <1>c, <3>1 DEF FramesUp
    <2>2. data = <<>> /\ Len(data) = 0  BY <1>b, <2>1 DEF Undialed
    <2> QED BY <2>1, <2>2, <1>11 DEF RecvReqHead, FramesDown
  <1>12. CASE Dial
    <2>1. data' = (IF up THEN Append(data, Head101) ELSE data)  BY <1>12 DEF Dial
    <2> QED BY <1>a, <1>b, <2>1, <1>12, FramesDownAppend, FrameKinds, FrameFields
           DEF Dial, Undialed, Linked, TypeOK, VisitorTyped
  <1>13. CASE DialFails
    <2>1. data' = (IF up THEN Append(data, Answer) ELSE data)  BY <1>13 DEF DialFails
    <2> QED BY <1>a, <1>b, <2>1, <1>13, FramesDownAppend, FrameKinds, FrameFields
           DEF DialFails, Undialed, Linked, TypeOK, VisitorTyped
  <1>14. CASE SessionOver
    BY <1>14, <1>a DEF SessionOver, Running, FramesDown, TypeOK, VisitorTyped
  <1>15. CASE RunReturns
    BY <1>15, <1>a DEF RunReturns, FramesDown, TypeOK, VisitorTyped
  <1>16. CASE HandleClose
    <2>1. CASE data' = data  BY <1>0, <2>1, <1>16 DEF HandleClose
    <2>2. CASE data' = (IF up THEN Append(data, Close("error")) ELSE data)
      BY <1>a, <1>b, <1>16, <2>2, FramesDownAppend, FrameKinds, FrameFields
         DEF HandleClose
    <2> QED BY <2>1, <2>2, <1>16 DEF HandleClose, SendClose
  <1>17. CASE Relay
    <2>1. data' = (IF up THEN Append(data, Message(readA)) ELSE data)  BY <1>17 DEF Relay
    <2>2. readA \in Nat /\ readA \in 1 .. sentA
      BY <1>a, <1>b, <1>17 DEF Relay, Bounded, TypeOK, StreamTyped, AppTyped
    <2>3. LET f == Message(readA) IN f \in Frames /\ f.type = "msg" /\ f.n = readA
      BY <2>2, FrameKinds, FrameFields
    <2> QED BY <1>a, <1>b, <1>17, <2>1, <2>2, <2>3, FramesDownAppend DEF Relay, Linked
  <1>18. CASE LocalCloses
    <2>1. CASE data' = data  BY <1>0, <2>1, <1>18 DEF LocalCloses
    <2>2. CASE data' = (IF up THEN Append(data, Close(closeCode)) ELSE data)
      <3>1. Close(closeCode) \in Frames  BY <1>a, FrameKinds DEF TypeOK, PumpTyped
      <3> QED
        BY <1>a, <1>b, <1>18, <2>2, <3>1, FramesDownAppend, FrameFields
           DEF LocalCloses, Linked
    <2> QED BY <2>1, <2>2, <1>18 DEF LocalCloses, SendClose
  <1>19. CASE AppSends
    BY <1>a, <1>19 DEF AppSends, AppLives, FramesDown, TypeOK, AppTyped
  <1>20. CASE RecvAck \/ RecvFromEdge \/ RecvEdgeClose \/ RecvReset \/ RecvEdgeAck
     \/ Take \/ Drop \/ WriteDone \/ WriteFails \/ Wait \/ Woken \/ SeesLocalDone \/
     Read \/ ReadFails \/ Cancelled \/ AppEnds \/ UNCHANGED vars
    BY <1>20, <1>0 DEF RecvAck, RecvFromEdge, RecvEdgeClose, RecvReset, RecvEdgeAck,
       Take, Drop, WriteDone, WriteFails, Wait, Woken, SeesLocalDone, Read,
       ReadFails, Cancelled, AppEnds, vars
  <1> QED BY <1>1, <1>2, <1>3, <1>4, <1>5, <1>6, <1>7, <1>8, <1>9, <1>10, <1>11,
     <1>12, <1>13, <1>14, <1>15, <1>16, <1>17, <1>18, <1>19, <1>20 DEF Next, Edge,
     Agent

LEMMA QueuedStep == RelayInv /\ [Next]_vars => Queued'
  <1> SUFFICES ASSUME RelayInv, [Next]_vars PROVE Queued'  OBVIOUS
  <1> USE DEF visitorVars, wireVars, pumpVars, inVars, appVars
  <1>a. TypeOK /\ Queued /\ FramesUp  BY DEF RelayInv, Stages, Framed, Numbers
  <1>b. Bounded  BY DEF RelayInv, Framed, Numbers, Stages
  <1>0. UNCHANGED <<buffer, sentV, edgePump, inbox, writing>> => Queued'
    BY <1>a DEF Queued
  <1>1. CASE VisitorCloses
    BY <1>1, <1>a DEF VisitorCloses, CloseVisitor, Queued, FramesUp, TypeOK,
       VisitorTyped, PumpTyped, StreamTyped
  <1>2. CASE Hibernate
    BY <1>2, <1>a DEF Hibernate, CloseVisitor, Queued, FramesUp, TypeOK,
       VisitorTyped, PumpTyped, StreamTyped
  <1>3. CASE AgentGone
    BY <1>3, <1>a DEF AgentGone, Queued, FramesUp, TypeOK, VisitorTyped, PumpTyped,
       StreamTyped
  <1>4. CASE RecvAck
    <2>1. PICK k \in 0 .. Len(buffer) : FlushSome(k)
      BY <1>a, <1>b, <1>4, RecvAckFlushes DEF Bounded
    <2>2. ASSUME NEW i \in 1 .. Len(buffer') PROVE buffer'[i] \in 1 .. sentV
      <3>1. buffer'[i] = buffer[i + k] /\ Len(buffer') = Len(buffer) - k
        BY <2>1 DEF FlushSome
      <3>2. i + k \in 1 .. Len(buffer)  BY <1>a, <3>1 DEF TypeOK, VisitorTyped
      <3> QED BY <1>a, <3>1, <3>2 DEF Queued
    <2> QED BY <1>a, <2>2, <1>4 DEF RecvAck, Queued
  <1>5. CASE RecvClose
    BY <1>5, <1>a DEF RecvClose, NextData, CloseVisitor, Queued, FramesUp, TypeOK,
       VisitorTyped, PumpTyped, StreamTyped
  <1>6. ASSUME NEW refused \in BOOLEAN, VisitorSends(refused) PROVE Queued'
    <2>1. sentV \in Nat /\ sentV' = sentV + 1 /\ 1 .. sentV \subseteq 1 .. sentV'
      BY <1>a, <1>6 DEF VisitorSends, TypeOK, VisitorTyped
    <2>2. buffer' \in {buffer, Append(buffer, sentV + 1), <<>>}
      BY <1>6 DEF VisitorSends, CloseVisitor
    <2>3. ASSUME NEW i \in 1 .. Len(buffer') PROVE buffer'[i] \in 1 .. sentV'
      <3>1. \A j \in 1 .. Len(buffer) : buffer[j] \in 1 .. sentV  BY <1>a DEF Queued
      <3>2. buffer \in Seq(Nat)  BY <1>a DEF TypeOK, VisitorTyped
      <3>3. CASE buffer' = buffer  BY <2>1, <2>3, <3>1, <3>3
      <3>4. CASE buffer' = <<>>  BY <2>3, <3>4
      <3>5. CASE buffer' = Append(buffer, sentV + 1)
        <4>1. /\ Len(buffer') = Len(buffer) + 1 /\ buffer'[Len(buffer) + 1] = sentV + 1
              /\ \A j \in 1 .. Len(buffer) : buffer'[j] = buffer[j]
          BY <3>2, <3>5
        <4>2. CASE i \in 1 .. Len(buffer)  BY <2>1, <3>1, <4>1, <4>2
        <4>3. CASE i = Len(buffer) + 1  BY <2>1, <4>1, <4>3
        <4> QED BY <2>3, <3>2, <4>1, <4>2, <4>3
      <3> QED BY <2>2, <3>3, <3>4, <3>5
    <2> QED BY <1>a, <2>1, <2>3, <1>6 DEF VisitorSends, Queued
  <1>7. CASE RecvFromEdge
    <2>1. 1 \in 1 .. Len(toAgent) /\ toAgent[1].type = "msg" /\ Head(toAgent) = toAgent[1]
      BY <1>a, <1>7, NextFrameFacts DEF RecvFromEdge, TypeOK, WireTyped
    <2>2. Head(toAgent).n \in 1 .. sentV  BY <1>a, <2>1 DEF FramesUp
    <2>3. inbox' = inbox \/ inbox' = Append(inbox, Head(toAgent).n)
      BY <1>7 DEF RecvFromEdge
    <2>4. \A j \in 1 .. Len(inbox) : inbox[j] \in 1 .. sentV  BY <1>a DEF Queued
    <2>5. inbox \in Seq(Nat)  BY <1>a DEF TypeOK, StreamTyped
    <2>6. \A i \in 1 .. Len(inbox') : inbox'[i] \in 1 .. sentV  BY <2>2, <2>3, <2>4, <2>5
    <2> QED BY <1>a, <2>6, <1>7 DEF RecvFromEdge, Queued
  <1>8. CASE SessionOver
    BY <1>8, <1>a DEF SessionOver, Running, Queued, FramesUp, TypeOK, VisitorTyped,
       PumpTyped, StreamTyped
  <1>9. CASE Take
    BY <1>9, <1>a DEF Take, Queued, FramesUp, TypeOK, VisitorTyped, PumpTyped,
       StreamTyped
  <1>10. CASE Drop
    BY <1>10, <1>a DEF Drop, Queued, FramesUp, TypeOK, VisitorTyped, PumpTyped,
       StreamTyped
  <1>11. CASE WriteDone
    BY <1>11, <1>a DEF WriteDone, Deliver, Queued, FramesUp, TypeOK, VisitorTyped,
       PumpTyped, StreamTyped
  <1>12. CASE WriteFails
    BY <1>12, <1>a DEF WriteFails, Deliver, Queued, FramesUp, TypeOK, VisitorTyped,
       PumpTyped, StreamTyped
  <1>13. CASE HandleClose
    BY <1>13, <1>a DEF HandleClose, SendClose, Queued, FramesUp, TypeOK,
       VisitorTyped, PumpTyped, StreamTyped
  <1>14. CASE Wait
    BY <1>14, <1>a DEF Wait, Queued, FramesUp, TypeOK, VisitorTyped, PumpTyped,
       StreamTyped
  <1>15. CASE Woken
    BY <1>15, <1>a DEF Woken, Queued, FramesUp, TypeOK, VisitorTyped, PumpTyped,
       StreamTyped
  <1>16. CASE SeesLocalDone
    BY <1>16, <1>a DEF SeesLocalDone, Queued, FramesUp, TypeOK, VisitorTyped,
       PumpTyped, StreamTyped
  <1>17. CASE Upgrade \/ GiveUp \/ LinkDown \/ RecvResHead \/ RecvMessage \/
     RecvReqHead \/ RecvEdgeClose \/ RecvReset \/ RecvEdgeAck \/ Dial \/ DialFails
     \/ RunReturns \/ Read \/ Relay \/ ReadFails \/ LocalCloses \/ Cancelled \/
     AppSends \/ AppEnds \/ UNCHANGED vars
    BY <1>17, <1>0 DEF Upgrade, GiveUp, LinkDown, RecvResHead, RecvMessage,
       RecvReqHead, RecvEdgeClose, RecvReset, RecvEdgeAck, Dial, DialFails,
       RunReturns, Read, Relay, ReadFails, LocalCloses, Cancelled, AppSends,
       AppEnds, vars
  <1> QED BY <1>1, <1>2, <1>3, <1>4, <1>5, <1>6, <1>7, <1>8, <1>9, <1>10, <1>11,
     <1>12, <1>13, <1>14, <1>15, <1>16, <1>17 DEF Next, Edge, Agent

LEMMA WrittenNextStep == RelayInv /\ [Next]_vars => WrittenNext'
  <1> SUFFICES ASSUME RelayInv, [Next]_vars PROVE WrittenNext'  OBVIOUS
  <1> USE DEF visitorVars, wireVars, pumpVars, inVars, appVars
  <1>a. TypeOK /\ WrittenNext  BY DEF RelayInv, Stages, Framed, Numbers
  <1>b. TakenNext /\ Linked  BY DEF RelayInv, Framed, Numbers, Stages
  <1>0. UNCHANGED <<edgePump, writing, appClosed, gotA>> => WrittenNext'
    BY <1>a DEF WrittenNext
  <1>1. CASE DialFails
    BY <1>1, <1>a DEF DialFails, WrittenNext, TypeOK, StreamTyped
  <1>2. CASE SessionOver
    BY <1>2, <1>a DEF SessionOver, Running, WrittenNext, TypeOK, StreamTyped
  <1>3. CASE Take
    <2>1. ~appClosed => Head(inbox) = Len(gotA) + 1
      <3>1. 1 \in 1 .. Len(inbox) /\ Head(inbox) = inbox[1] /\ Len(gotA) \in Nat
        BY <1>a, <1>3 DEF Take, TypeOK, StreamTyped, AppTyped
      <3>2. Taken = Len(gotA)  BY <1>3, <3>1 DEF Take, Taken, Written
      <3> QED BY <1>b, <1>3, <3>1, <3>2 DEF Take, TakenNext, Running
    <2> QED BY <2>1, <1>3 DEF Take, WrittenNext
  <1>4. CASE WriteDone
    BY <1>4, <1>a DEF WriteDone, Deliver, WrittenNext, TypeOK, StreamTyped
  <1>5. CASE WriteFails
    BY <1>5, <1>a DEF WriteFails, Deliver, WrittenNext, TypeOK, StreamTyped
  <1>6. CASE HandleClose
    BY <1>6, <1>a DEF HandleClose, SendClose, WrittenNext, TypeOK, StreamTyped
  <1>7. CASE Wait
    BY <1>7, <1>a DEF Wait, WrittenNext, TypeOK, StreamTyped
  <1>8. CASE Woken
    BY <1>8, <1>a DEF Woken, WrittenNext, TypeOK, StreamTyped
  <1>9. CASE SeesLocalDone
    BY <1>9, <1>a DEF SeesLocalDone, WrittenNext, TypeOK, StreamTyped
  <1>10. CASE AppEnds
    BY <1>10, <1>a DEF AppEnds, AppLives, WrittenNext, TypeOK, StreamTyped
  <1>11. CASE Upgrade \/ GiveUp \/ VisitorCloses \/ Hibernate \/ LinkDown \/
     AgentGone \/ RecvAck \/ RecvResHead \/ RecvMessage \/ RecvClose \/ \E refused
     \in BOOLEAN : VisitorSends(refused) \/ RecvReqHead \/ RecvFromEdge \/
     RecvEdgeClose \/ RecvReset \/ RecvEdgeAck \/ Dial \/ RunReturns \/ Drop \/ Read
     \/ Relay \/ ReadFails \/ LocalCloses \/ Cancelled \/ AppSends \/ UNCHANGED vars
    BY <1>11, <1>0 DEF Upgrade, GiveUp, VisitorCloses, Hibernate, LinkDown,
       AgentGone, RecvAck, RecvResHead, RecvMessage, RecvClose, VisitorSends,
       RecvReqHead, RecvFromEdge, RecvEdgeClose, RecvReset, RecvEdgeAck, Dial,
       RunReturns, Drop, Read, Relay, ReadFails, LocalCloses, Cancelled, AppSends,
       vars
  <1> QED BY <1>1, <1>2, <1>3, <1>4, <1>5, <1>6, <1>7, <1>8, <1>9, <1>10, <1>11 DEF
     Next, Edge, Agent

LEMMA TakenNextStep == RelayInv /\ [Next]_vars => TakenNext'
  <1> SUFFICES ASSUME RelayInv, [Next]_vars PROVE TakenNext'  OBVIOUS
  <1> USE DEF visitorVars, wireVars, pumpVars, inVars, appVars
  <1>a. TypeOK /\ TakenNext  BY DEF RelayInv, Stages, Framed, Numbers
  <1>b. Linked /\ Undialed /\ Unopened /\ FramesUp /\ Queued /\ Bounded /\ BufferedNext
    BY DEF RelayInv, Framed, Numbers, Stages
  <1>c. WrittenNext  BY DEF RelayInv, Numbers
  <1>0. UNCHANGED <<toAgent, agent, edgePump, inbox, remoteClose, localReq,
     appClosed, gotA>> => TakenNext'
    BY <1>a DEF TakenNext, Taken, Written, Closing, Running
  <1>1. CASE Upgrade
    BY <1>a, <1>1, TakenNextSend, FrameKinds, FrameFields DEF Upgrade
  <1>2. CASE GiveUp
    BY <1>a, <1>2, TakenNextSend, FrameKinds, FrameFields DEF GiveUp
  <1>3. CASE VisitorCloses
    <2>1. CASE UNCHANGED <<toAgent>>  BY <1>0, <1>3, <2>1 DEF VisitorCloses
    <2>2. CASE Send(<<Close("error")>>)
      BY <1>a, <1>3, <2>2, TakenNextSend, FrameKinds, FrameFields DEF VisitorCloses
    <2> QED BY <1>3, <2>1, <2>2 DEF VisitorCloses, CloseVisitor
  <1>4. CASE Hibernate
    <2>1. CASE UNCHANGED <<toAgent>>  BY <1>0, <1>4, <2>1 DEF Hibernate
    <2>2. CASE Send(<<Close("error")>>)
      BY <1>a, <1>4, <2>2, TakenNextSend, FrameKinds, FrameFields DEF Hibernate
    <2> QED BY <1>4, <2>1, <2>2 DEF Hibernate, CloseVisitor
  <1>5. CASE LinkDown
    <2>1. Len(toAgent') = 0  BY <1>5 DEF LinkDown
    <2> QED BY <1>a, <1>5, <2>1 DEF LinkDown, TakenNext, Taken, Written, Running, Closing
  <1>6. CASE RecvAck
    <2>0. PICK k \in 0 .. Len(buffer) : FlushSome(k)
      BY <1>a, <1>b, <1>6, RecvAckFlushes DEF Bounded
    <2> SUFFICES ASSUME ~appClosed, ~Closing, Running,
                        NEW i \in 1 .. Len(toAgent'), toAgent'[i].type = "msg"
                 PROVE  toAgent'[i].n = Taken + Len(inbox) + i
      BY <1>a, <1>6 DEF RecvAck, TakenNext, Taken, Written, Closing, Running
    <2>1. /\ toAgent \in Seq(Frames) /\ Len(toAgent) \in Nat /\ Len(buffer) \in Nat
          /\ Taken \in Nat /\ Len(inbox) \in Nat
      BY <1>a DEF TypeOK, WireTyped, StreamTyped, AppTyped, VisitorTyped, Taken, Written
    <2>2. CASE i \in 1 .. Len(toAgent)
      <3>1. toAgent'[i] = toAgent[i]  BY <1>a, <2>0, <2>2, FlushFacts
      <3> QED BY <1>a, <2>2, <3>1 DEF TakenNext
    <2>3. CASE i \notin 1 .. Len(toAgent)
      <3> DEFINE m == i - Len(toAgent)
      <3>0. up  BY <1>a, <2>0, <2>3, FlushFacts
      <3>1. Len(toAgent') = Len(toAgent) + k
        BY <1>a, <2>0, <3>0, FlushFacts
      <3>2. m \in 1 .. k /\ i = Len(toAgent) + m /\ m \in 1 .. Len(buffer)
        BY <2>1, <2>3, <3>1
      <3>3. toAgent'[i] = Message(buffer[m])
        BY <1>a, <2>0, <3>0, <3>2, FlushFacts
      <3>4. visitor = "open"  BY <1>b, <2>1, <3>2 DEF Linked
      <3>5. agent = "open"  BY <1>b, <3>4 DEF Linked, Running
      <3>6. buffer[m] = Taken + Len(inbox) + Len(toAgent) + m
        BY <1>b, <3>0, <3>2, <3>4, <3>5 DEF BufferedNext
      <3>7. toAgent'[i].n = buffer[m]  BY <3>3, FrameFields
      <3> HIDE DEF m
      <3> QED BY <2>1, <3>2, <3>6, <3>7
    <2> QED BY <2>2, <2>3
  <1>7. CASE RecvClose
    <2>1. CASE UNCHANGED <<toAgent>>  BY <1>0, <1>7, <2>1 DEF RecvClose
    <2>2. CASE Send(<<Close("error")>>)
      BY <1>a, <1>7, <2>2, TakenNextSend, FrameKinds, FrameFields DEF RecvClose
    <2> QED BY <1>7, <2>1, <2>2 DEF RecvClose, CloseVisitor
  <1>8. ASSUME NEW refused \in BOOLEAN, VisitorSends(refused) PROVE TakenNext'
    <2>0. /\ sentV + 1 \in Nat /\ visitor = "open"
          /\ UNCHANGED <<appClosed, remoteClose, localReq, agent, inbox, edgePump, gotA>>
      BY <1>a, <1>8 DEF VisitorSends, TypeOK, VisitorTyped
    <2>1. CASE UNCHANGED toAgent  BY <1>0, <2>0, <2>1
    <2>2. CASE CloseVisitor("error")
      BY <1>a, <2>0, <2>2, TakenNextSend, FrameKinds, FrameFields DEF CloseVisitor
    <2>3. CASE up /\ buffer = <<>> /\ Send(<<Message(sentV + 1)>>)
      <3>1. ~appClosed /\ ~Closing /\ Running => sentV = Taken + Len(inbox) + Len(toAgent)
        <4>1. Len(buffer) = 0  BY <2>3
        <4>2. Running => agent = "open"  BY <1>b, <2>0 DEF Linked, Running
        <4> QED BY <1>a, <1>b, <2>0, <2>3, <4>1, <4>2
               DEF BufferedNext, TypeOK, WireTyped, StreamTyped, AppTyped, Taken, Written
      <3>2. LET f == Message(sentV + 1) IN f \in Frames /\ f.n = sentV + 1
        BY <2>0, FrameKinds, FrameFields
      <3> QED BY <1>a, <2>0, <2>3, <3>1, <3>2, TakenNextSend
    <2> QED BY <1>8, <2>1, <2>2, <2>3, SendsCases
  <1>9. CASE RecvReqHead
    <2>1. agent = "none" /\ agent' = "dialing"
      <3>1. 1 \in 1 .. Len(toAgent) /\ toAgent[1].type = "head" /\ agent' = "dialing"
        BY <1>a, <1>9, NextFrameFacts DEF RecvReqHead, TypeOK, WireTyped
      <3> QED BY <1>b, <3>1 DEF FramesUp
    <2>2. sentV = 0  BY <1>a, <1>b, <2>1 DEF Linked, Unopened, TypeOK, VisitorTyped
    <2>3. Len(inbox) = 0 /\ \A i \in 1 .. Len(toAgent) : toAgent[i].type # "msg"
      BY <1>a, <1>b, <2>2, NothingSent
    <2>4. \A i \in 1 .. Len(toAgent') : toAgent'[i].type # "msg"
      BY <1>a, <1>9, <2>3, NextFrameFacts DEF RecvReqHead
    <2>5. Len(inbox') = 0  BY <1>9, <2>3 DEF RecvReqHead
    <2> QED BY <2>4, <2>5 DEF TakenNext
  <1>10. CASE RecvFromEdge
    <2> SUFFICES ASSUME ~appClosed, ~Closing', Running
                 PROVE  /\ \A i \in 1 .. Len(inbox') : inbox'[i] = Taken + i
                        /\ \A i \in 1 .. Len(toAgent') :
                              toAgent'[i].type = "msg" => toAgent'[i].n = Taken + Len(inbox') + i
      BY <1>10 DEF RecvFromEdge, TakenNext, Taken, Written, Running
    <2>1. ~Closing /\ inbox' = Append(inbox, Head(toAgent).n)
      BY <1>10 DEF RecvFromEdge, Closing
    <2>2. /\ 1 \in 1 .. Len(toAgent) /\ toAgent[1].type = "msg" /\ Head(toAgent) = toAgent[1]
          /\ \A i \in 1 .. Len(toAgent') :
                i + 1 \in 1 .. Len(toAgent) /\ toAgent'[i] = toAgent[i + 1]
          /\ Taken \in Nat /\ inbox \in Seq(Nat) /\ Len(inbox) \in Nat
      BY <1>a, <1>10, NextFrameFacts
         DEF RecvFromEdge, TypeOK, WireTyped, StreamTyped, AppTyped, Taken, Written
    <2>3. /\ \A i \in 1 .. Len(inbox) : inbox[i] = Taken + i
          /\ \A i \in 1 .. Len(toAgent) :
                toAgent[i].type = "msg" => toAgent[i].n = Taken + Len(inbox) + i
      BY <1>a, <1>10, <2>1 DEF RecvFromEdge, TakenNext
    <2>4. Head(toAgent).n = Taken + Len(inbox) + 1  BY <2>2, <2>3
    <2>5. /\ Len(inbox') = Len(inbox) + 1
          /\ \A i \in 1 .. Len(inbox') : inbox'[i] = Taken + i
      <3>1. /\ Len(inbox') = Len(inbox) + 1 /\ inbox'[Len(inbox) + 1] = Head(toAgent).n
            /\ \A j \in 1 .. Len(inbox) : inbox'[j] = inbox[j]
        BY <2>1, <2>2
      <3>2. ASSUME NEW i \in 1 .. Len(inbox') PROVE inbox'[i] = Taken + i
        <4>1. CASE i \in 1 .. Len(inbox)  BY <2>3, <3>1, <4>1
        <4>2. CASE i = Len(inbox) + 1  BY <2>2, <2>4, <3>1, <4>2
        <4> QED BY <2>2, <3>1, <3>2, <4>1, <4>2
      <3> QED BY <3>1, <3>2
    <2>6. ASSUME NEW i \in 1 .. Len(toAgent'), toAgent'[i].type = "msg"
          PROVE  toAgent'[i].n = Taken + Len(inbox') + i
      <3>1. toAgent'[i].n = Taken + Len(inbox) + (i + 1)  BY <2>2, <2>3, <2>6
      <3> QED BY <2>2, <2>5, <3>1
    <2> QED BY <2>5, <2>6
  <1>11. CASE RecvEdgeClose
    BY <1>a, <1>11, TakenNextSkip DEF RecvEdgeClose, Closing
  <1>12. CASE RecvReset
    BY <1>a, <1>12, TakenNextSkip DEF RecvReset, Closing
  <1>13. CASE Dial
    BY <1>13, <1>a DEF Dial, TakenNext, Taken, Written, Running, Closing
  <1>14. CASE DialFails
    BY <1>14, <1>a DEF DialFails, TakenNext, Taken, Written, Running, Closing
  <1>15. CASE SessionOver
    BY <1>15, <1>a DEF SessionOver, Running, TakenNext, Taken, Written, Closing
  <1>16. CASE RunReturns
    BY <1>16, <1>a DEF RunReturns, TakenNext, Taken, Written, Running, Closing
  <1>17. CASE Take
    <2> SUFFICES ASSUME ~appClosed, ~Closing, Running
                 PROVE  /\ \A i \in 1 .. Len(inbox') : inbox'[i] = Taken' + i
                        /\ \A i \in 1 .. Len(toAgent) :
                              toAgent[i].type = "msg" => toAgent[i].n = Taken' + Len(inbox') + i
      BY <1>17 DEF Take, TakenNext, Closing, Running
    <2>1. /\ inbox \in Seq(Nat) /\ inbox # <<>> /\ inbox' = Tail(inbox)
          /\ Len(gotA) \in Nat /\ Taken = Len(gotA) /\ Taken' = Len(gotA) + 1
      BY <1>a, <1>17 DEF Take, Taken, Written, TypeOK, StreamTyped, AppTyped
    <2>2. /\ Len(inbox) \in Nat /\ Len(inbox') = Len(inbox) - 1
          /\ \A i \in 1 .. Len(inbox') : inbox'[i] = inbox[i + 1]
      BY <2>1
    <2>3. /\ \A i \in 1 .. Len(inbox) : inbox[i] = Taken + i
          /\ \A i \in 1 .. Len(toAgent) :
                toAgent[i].type = "msg" => toAgent[i].n = Taken + Len(inbox) + i
      BY <1>a DEF TakenNext
    <2> QED BY <2>1, <2>2, <2>3
  <1>18. CASE Drop
    BY <1>18, <1>a DEF Drop, TakenNext, Taken, Written, Running, Closing
  <1>19. CASE WriteDone
    <2>1. ~appClosed => Taken' = Taken
      BY <1>a, <1>b, <1>c, <1>19, DeliverFacts
         DEF WriteDone, Taken, Written, TypeOK, AppTyped
    <2> QED BY <1>a, <1>19, <2>1 DEF WriteDone, TakenNext, Closing, Running
  <1>20. CASE WriteFails
    BY <1>20, <1>a DEF WriteFails, Deliver, TakenNext, Taken, Written, Running,
       Closing
  <1>21. CASE HandleClose
    BY <1>21, <1>a DEF HandleClose, SendClose, TakenNext, Taken, Written, Running,
       Closing
  <1>22. CASE Wait
    BY <1>22, <1>a DEF Wait, TakenNext, Taken, Written, Running, Closing
  <1>23. CASE Woken
    BY <1>23, <1>a DEF Woken, TakenNext, Taken, Written, Running, Closing
  <1>24. CASE SeesLocalDone
    BY <1>24, <1>a DEF SeesLocalDone, TakenNext, Taken, Written, Running, Closing
  <1>25. CASE AppEnds
    BY <1>25, <1>a DEF AppEnds, AppLives, TakenNext, Taken, Written, Running,
       Closing
  <1>26. CASE AgentGone \/ RecvResHead \/ RecvMessage \/ RecvEdgeAck \/ Read \/
     Relay \/ ReadFails \/ LocalCloses \/ Cancelled \/ AppSends \/ UNCHANGED vars
    BY <1>26, <1>0 DEF AgentGone, RecvResHead, RecvMessage, RecvEdgeAck, Read,
       Relay, ReadFails, LocalCloses, Cancelled, AppSends, vars
  <1> QED BY <1>1, <1>2, <1>3, <1>4, <1>5, <1>6, <1>7, <1>8, <1>9, <1>10, <1>11,
     <1>12, <1>13, <1>14, <1>15, <1>16, <1>17, <1>18, <1>19, <1>20, <1>21, <1>22,
     <1>23, <1>24, <1>25, <1>26 DEF Next, Edge, Agent

LEMMA BufferedNextStep == RelayInv /\ [Next]_vars => BufferedNext'
  <1> SUFFICES ASSUME RelayInv, [Next]_vars PROVE BufferedNext'  OBVIOUS
  <1> USE DEF visitorVars, wireVars, pumpVars, inVars, appVars
  <1>a. TypeOK /\ BufferedNext  BY DEF RelayInv, Stages, Framed, Numbers
  <1>b. Linked /\ Undialed /\ Unopened /\ FramesUp /\ Queued /\ Bounded /\ TakenNext
    BY DEF RelayInv, Framed, Numbers, Stages
  <1>c. WrittenNext  BY DEF RelayInv, Numbers
  <1>0. UNCHANGED <<visitor, buffer, sentV, up, toAgent, agent, edgePump, inbox,
     remoteClose, localReq, appClosed, gotA>> => BufferedNext'
    BY <1>a DEF BufferedNext, Taken, Written, Closing
  <1>1. CASE Upgrade
    BY <1>1, <1>a, SendOne, FrameKinds DEF Upgrade, BufferedNext, Taken, Written,
       Closing, Running, TypeOK, VisitorTyped, WireTyped, StreamTyped, AppTyped,
       PumpTyped
  <1>2. CASE GiveUp
    BY <1>2, <1>a, SendOne, FrameKinds DEF GiveUp, BufferedNext, Taken, Written,
       Closing, Running, TypeOK, VisitorTyped, WireTyped, StreamTyped, AppTyped,
       PumpTyped
  <1>3. CASE VisitorCloses
    BY <1>3 DEF VisitorCloses, CloseVisitor, BufferedNext
  <1>4. CASE Hibernate
    <2>1. CASE visitor' = "closed"  BY <2>1 DEF BufferedNext
    <2>2. CASE visitor' = "open"
      <3>1. visitor = "open" /\ buffer' = <<>> /\ UNCHANGED toAgent /\ buffer = <<>>
        BY <1>b, <2>2, <1>4 DEF Hibernate, CloseVisitor, Linked
      <3>2. UNCHANGED <<visitor, buffer, toAgent>>  BY <2>2, <3>1
      <3>3. UNCHANGED <<up, inbox, agent, edgePump, remoteClose, localReq, appClosed, gotA, sentV>>
        BY <1>4 DEF Hibernate
      <3> QED BY <1>0, <3>2, <3>3
    <2>3. CASE visitor' \notin {"open", "closed"}  BY <2>3 DEF BufferedNext
    <2> QED BY <2>1, <2>2, <2>3
  <1>5. CASE LinkDown
    BY <1>5, <1>a DEF LinkDown, BufferedNext, Taken, Written, Closing, Running,
       TypeOK, VisitorTyped, WireTyped, StreamTyped, AppTyped, PumpTyped
  <1>6. CASE AgentGone
    BY <1>6, <1>a DEF AgentGone, BufferedNext, Taken, Written, Closing, Running,
       TypeOK, VisitorTyped, WireTyped, StreamTyped, AppTyped, PumpTyped
  <1>7. CASE RecvAck
    <2>0. PICK k \in 0 .. Len(buffer) : FlushSome(k)
      BY <1>a, <1>b, <1>7, RecvAckFlushes DEF Bounded
    <2> SUFFICES ASSUME ~appClosed, ~Closing, agent = "open", visitor = "open", up
                 PROVE  /\ \A i \in 1 .. Len(buffer') :
                              buffer'[i] = Taken + Len(inbox) + Len(toAgent') + i
                        /\ sentV = Taken + Len(inbox) + Len(toAgent') + Len(buffer')
      BY <1>7 DEF RecvAck, BufferedNext, Taken, Written, Closing
    <2>1. /\ \A i \in 1 .. Len(buffer) : buffer[i] = Taken + Len(inbox) + Len(toAgent) + i
          /\ sentV = Taken + Len(inbox) + Len(toAgent) + Len(buffer)
      BY <1>a DEF BufferedNext
    <2>2. /\ Taken \in Nat /\ Len(inbox) \in Nat /\ Len(toAgent) \in Nat /\ sentV \in Nat
          /\ Len(buffer) \in Nat
      BY <1>a DEF TypeOK, WireTyped, StreamTyped, AppTyped, VisitorTyped, Taken, Written
    <2>3. Len(toAgent') = Len(toAgent) + k  BY <1>a, <2>0, FlushFacts
    <2>4. /\ Len(buffer') = Len(buffer) - k
          /\ \A i \in 1 .. Len(buffer') : buffer'[i] = buffer[i + k]
      BY <2>0 DEF FlushSome
    <2>5. ASSUME NEW i \in 1 .. Len(buffer')
          PROVE  buffer'[i] = Taken + Len(inbox) + Len(toAgent') + i
      <3>1. i + k \in 1 .. Len(buffer)  BY <2>2, <2>4
      <3>2. buffer'[i] = Taken + Len(inbox) + Len(toAgent) + (i + k)  BY <2>1, <2>4, <3>1
      <3> QED BY <2>2, <2>3, <3>2
    <2>6. sentV = Taken + Len(inbox) + Len(toAgent') + Len(buffer')
      BY <2>1, <2>2, <2>3, <2>4
    <2> QED BY <2>5, <2>6
  <1>8. CASE RecvResHead
    <2> SUFFICES ASSUME agent = "open", visitor # "open", visitor' = "open"
                 PROVE  /\ \A i \in 1 .. Len(buffer) :
                              buffer[i] = Taken + Len(inbox) + Len(toAgent) + i
                        /\ sentV = Taken + Len(inbox) + Len(toAgent) + Len(buffer)
      BY <1>a, <1>8 DEF RecvResHead, BufferedNext, Taken, Written, Closing
    <2>1. visitor = "upgrading" /\ sentV = 0
      BY <1>b, <1>8 DEF RecvResHead, Unopened
    <2>2. /\ Len(inbox) = 0 /\ Len(buffer) = 0 /\ Len(gotA) = 0 /\ edgePump # "writing"
          /\ \A i \in 1 .. Len(toAgent) : toAgent[i].type # "msg"
      BY <1>a, <1>b, <2>1, NothingSent
    <2>3. Len(toAgent) = 0
      <3>1. \A i \in 1 .. Len(toAgent) : toAgent[i].type = "msg"
        BY <1>a, <1>b, <2>1, OpenWire
      <3>2. Len(toAgent) \in Nat  BY <1>a DEF TypeOK, WireTyped
      <3>3. Len(toAgent) > 0 => 1 \in 1 .. Len(toAgent)  BY <3>2
      <3> QED BY <2>2, <3>1, <3>2, <3>3
    <2> QED BY <2>1, <2>2, <2>3 DEF Taken, Written
  <1>9. CASE RecvClose
    <2>1. CASE visitor' = "open"
      <3>1. FALSE
        <4>1. visitor = "open" /\ visitor' = "closed"
          BY <2>1, <1>9 DEF RecvClose, CloseVisitor
        <4> QED BY <2>1, <4>1
      <3> QED BY <3>1
    <2> QED BY <2>1 DEF BufferedNext
  <1>10. ASSUME NEW refused \in BOOLEAN, VisitorSends(refused) PROVE BufferedNext'
    <2> SUFFICES ASSUME ~appClosed, ~Closing, agent = "open", visitor' = "open", up
                 PROVE  /\ \A i \in 1 .. Len(buffer') :
                              buffer'[i] = Taken + Len(inbox) + Len(toAgent') + i
                        /\ sentV' = Taken + Len(inbox) + Len(toAgent') + Len(buffer')
      BY <1>10 DEF VisitorSends, BufferedNext, Taken, Written, Closing
    <2>0. visitor = "open" /\ sentV' = sentV + 1  BY <1>10 DEF VisitorSends
    <2>1. /\ \A i \in 1 .. Len(buffer) : buffer[i] = Taken + Len(inbox) + Len(toAgent) + i
          /\ sentV = Taken + Len(inbox) + Len(toAgent) + Len(buffer)
      BY <1>a, <2>0 DEF BufferedNext
    <2>2. /\ Taken \in Nat /\ Len(inbox) \in Nat /\ Len(toAgent) \in Nat /\ sentV \in Nat
          /\ buffer \in Seq(Nat) /\ Len(buffer) \in Nat
      BY <1>a DEF TypeOK, WireTyped, StreamTyped, AppTyped, VisitorTyped, Taken, Written
    <2>3. CASE buffer = <<>> /\ Send(<<Message(sentV + 1)>>) /\ UNCHANGED buffer
      <3>1. Message(sentV + 1) \in Frames  BY <2>2, FrameKinds
      <3>2. Len(toAgent') = Len(toAgent) + 1  BY <1>a, <2>3, <3>1, SendOne
      <3>3. Len(buffer') = 0 /\ Len(buffer) = 0  BY <2>3
      <3> QED BY <2>0, <2>1, <2>2, <3>2, <3>3
    <2>4. CASE buffer' = Append(buffer, sentV + 1) /\ UNCHANGED toAgent
      <3>1. /\ Len(buffer') = Len(buffer) + 1 /\ buffer'[Len(buffer) + 1] = sentV + 1
            /\ \A j \in 1 .. Len(buffer) : buffer'[j] = buffer[j]
        BY <2>2, <2>4
      <3>2. ASSUME NEW i \in 1 .. Len(buffer')
            PROVE  buffer'[i] = Taken + Len(inbox) + Len(toAgent) + i
        <4>1. CASE i \in 1 .. Len(buffer)  BY <2>1, <3>1, <4>1
        <4>2. CASE i = Len(buffer) + 1  BY <2>1, <2>2, <3>1, <4>2
        <4> QED BY <2>2, <3>1, <3>2, <4>1, <4>2
      <3>3. sentV' = Taken + Len(inbox) + Len(toAgent) + Len(buffer')
        BY <2>0, <2>1, <2>2, <3>1
      <3> QED BY <2>4, <3>2, <3>3
    <2>5. ~CloseVisitor("error")  BY DEF CloseVisitor
    <2> QED BY <1>10, <2>3, <2>4, <2>5, SendsCases
  <1>11. CASE RecvReqHead
    BY <1>11 DEF RecvReqHead, BufferedNext
  <1>12. CASE RecvFromEdge
    <2> SUFFICES ASSUME ~appClosed, ~Closing', agent = "open", visitor = "open", up
                 PROVE  /\ \A i \in 1 .. Len(buffer) :
                              buffer[i] = Taken + Len(inbox') + Len(toAgent') + i
                        /\ sentV = Taken + Len(inbox') + Len(toAgent') + Len(buffer)
      BY <1>12 DEF RecvFromEdge, BufferedNext, Taken, Written
    <2>1. ~Closing /\ inbox' = Append(inbox, Head(toAgent).n)
      BY <1>12 DEF RecvFromEdge, Closing, Running
    <2>2. Len(inbox') = Len(inbox) + 1 /\ Len(inbox) \in Nat /\ Len(toAgent) \in Nat
      BY <1>a, <2>1 DEF TypeOK, StreamTyped, WireTyped
    <2>3. Len(toAgent') = Len(toAgent) - 1
      BY <1>a, <1>12, NextFrameFacts DEF RecvFromEdge
    <2>4. Taken \in Nat  BY <1>a DEF TypeOK, AppTyped, Taken, Written
    <2>5. Len(inbox') + Len(toAgent') = Len(inbox) + Len(toAgent)  BY <2>2, <2>3
    <2>6. Taken + Len(inbox') + Len(toAgent') = Taken + Len(inbox) + Len(toAgent)
      BY <2>2, <2>3, <2>4
    <2> QED BY <1>a, <2>1, <2>6 DEF BufferedNext
  <1>13. CASE RecvEdgeClose
    BY <1>a, <1>b, <1>13, TakenNextSkip DEF RecvEdgeClose, Closing
  <1>14. CASE RecvReset
    BY <1>a, <1>b, <1>14, TakenNextSkip DEF RecvReset, Closing
  <1>15. CASE Dial
    BY <1>b, <1>15 DEF Dial, BufferedNext, Linked
  <1>16. CASE DialFails
    BY <1>16, <1>a DEF DialFails, BufferedNext, Taken, Written, Closing, Running,
       TypeOK, VisitorTyped, WireTyped, StreamTyped, AppTyped, PumpTyped
  <1>17. CASE SessionOver
    BY <1>17, <1>a DEF SessionOver, Running, BufferedNext, Taken, Written, Closing,
       TypeOK, VisitorTyped, WireTyped, StreamTyped, AppTyped, PumpTyped
  <1>18. CASE RunReturns
    BY <1>18, <1>a DEF RunReturns, BufferedNext, Taken, Written, Closing, Running,
       TypeOK, VisitorTyped, WireTyped, StreamTyped, AppTyped, PumpTyped
  <1>19. CASE Take
    <2>1. /\ inbox \in Seq(Nat) /\ inbox # <<>> /\ inbox' = Tail(inbox)
          /\ Len(gotA) \in Nat /\ Taken = Len(gotA) /\ Taken' = Len(gotA) + 1
      BY <1>a, <1>19 DEF Take, Taken, Written, TypeOK, StreamTyped, AppTyped
    <2>2. Taken' + Len(inbox') = Taken + Len(inbox)  BY <2>1
    <2> QED BY <1>a, <2>2, <1>19 DEF Take, BufferedNext, Closing
  <1>20. CASE Drop
    BY <1>20, <1>a DEF Drop, BufferedNext, Taken, Written, Closing, Running, TypeOK,
       VisitorTyped, WireTyped, StreamTyped, AppTyped, PumpTyped
  <1>21. CASE WriteDone
    <2>1. ~appClosed => Taken' = Taken
      BY <1>a, <1>b, <1>c, <1>21, DeliverFacts
         DEF WriteDone, Taken, Written, TypeOK, AppTyped
    <2> QED BY <1>a, <1>21, <2>1 DEF WriteDone, BufferedNext, Closing
  <1>22. CASE WriteFails
    BY <1>22, <1>a DEF WriteFails, Deliver, BufferedNext, Taken, Written, Closing,
       Running, TypeOK, VisitorTyped, WireTyped, StreamTyped, AppTyped, PumpTyped
  <1>23. CASE HandleClose
    BY <1>23, <1>a DEF HandleClose, SendClose, BufferedNext, Taken, Written,
       Closing, Running, TypeOK, VisitorTyped, WireTyped, StreamTyped, AppTyped,
       PumpTyped
  <1>24. CASE Wait
    BY <1>24, <1>a DEF Wait, BufferedNext, Taken, Written, Closing, Running, TypeOK,
       VisitorTyped, WireTyped, StreamTyped, AppTyped, PumpTyped
  <1>25. CASE Woken
    BY <1>25, <1>a DEF Woken, BufferedNext, Taken, Written, Closing, Running,
       TypeOK, VisitorTyped, WireTyped, StreamTyped, AppTyped, PumpTyped
  <1>26. CASE SeesLocalDone
    BY <1>26, <1>a DEF SeesLocalDone, BufferedNext, Taken, Written, Closing,
       Running, TypeOK, VisitorTyped, WireTyped, StreamTyped, AppTyped, PumpTyped
  <1>27. CASE AppEnds
    BY <1>27, <1>a DEF AppEnds, AppLives, BufferedNext, Taken, Written, Closing,
       Running, TypeOK, VisitorTyped, WireTyped, StreamTyped, AppTyped, PumpTyped
  <1>28. CASE RecvMessage \/ RecvEdgeAck \/ Read \/ Relay \/ ReadFails \/
     LocalCloses \/ Cancelled \/ AppSends \/ UNCHANGED vars
    BY <1>28, <1>0 DEF RecvMessage, RecvEdgeAck, Read, Relay, ReadFails,
       LocalCloses, Cancelled, AppSends, vars
  <1> QED BY <1>1, <1>2, <1>3, <1>4, <1>5, <1>6, <1>7, <1>8, <1>9, <1>10, <1>11,
     <1>12, <1>13, <1>14, <1>15, <1>16, <1>17, <1>18, <1>19, <1>20, <1>21, <1>22,
     <1>23, <1>24, <1>25, <1>26, <1>27, <1>28 DEF Next, Edge, Agent

LEMMA EdgeCreditStep == RelayInv /\ [Next]_vars => EdgeCredit'
  <1> SUFFICES ASSUME RelayInv, [Next]_vars PROVE EdgeCredit'  OBVIOUS
  <1> USE DEF visitorVars, wireVars, pumpVars, inVars, appVars
  <1>a. TypeOK /\ EdgeCredit  BY DEF RelayInv, Stages, Framed, Numbers
  <1>b. Linked /\ Unopened /\ FramesUp /\ Queued /\ Bounded
    BY DEF RelayInv, Framed, Numbers, Stages
  <1>0. UNCHANGED <<visitor, outstanding, up, toAgent, acksToEdge, agent, unacked,
     remoteClose, localReq>> => EdgeCredit'
    BY <1>a DEF EdgeCredit, Closing
  <1>1. CASE Upgrade
    BY <1>1, <1>a, SendOne, FrameKinds DEF Upgrade, EdgeCredit, Closing, TypeOK,
       VisitorTyped, WireTyped, StreamTyped, PumpTyped
  <1>2. CASE GiveUp
    BY <1>2, <1>a, SendOne, FrameKinds DEF GiveUp, EdgeCredit, Closing, TypeOK,
       VisitorTyped, WireTyped, StreamTyped, PumpTyped
  <1>3. CASE VisitorCloses
    BY <1>3 DEF VisitorCloses, CloseVisitor, EdgeCredit
  <1>4. CASE Hibernate
    <2>1. visitor' = "closed" \/ UNCHANGED <<visitor, toAgent>>
      BY <1>4 DEF Hibernate, CloseVisitor
    <2> QED BY <1>a, <2>1, <1>4 DEF Hibernate, EdgeCredit, Closing
  <1>5. CASE LinkDown
    BY <1>5, <1>a DEF LinkDown, EdgeCredit, Closing, TypeOK, VisitorTyped,
       WireTyped, StreamTyped, PumpTyped
  <1>6. CASE AgentGone
    BY <1>6, <1>a DEF AgentGone, EdgeCredit, Closing, TypeOK, VisitorTyped,
       WireTyped, StreamTyped, PumpTyped
  <1>7. CASE RecvAck
    <2>0. PICK k \in 0 .. Len(buffer) : FlushSome(k)
      BY <1>a, <1>b, <1>7, RecvAckFlushes DEF Bounded
    <2> SUFFICES ASSUME visitor = "open", up, agent = "open", ~Closing
                 PROVE  outstanding' = Len(toAgent') + unacked + acksToEdge'
      BY <1>7 DEF RecvAck, EdgeCredit, Closing
    <2>1. /\ outstanding = Len(toAgent) + unacked + acksToEdge /\ acksToEdge > 0
          /\ Len(toAgent) \in Nat /\ unacked \in Nat /\ acksToEdge \in Nat
      BY <1>a, <1>7 DEF RecvAck, EdgeCredit, TypeOK, WireTyped, StreamTyped
    <2>2. outstanding' = outstanding - 1 + k  BY <2>0, <2>1 DEF FlushSome
    <2>3. Len(toAgent') = Len(toAgent) + k  BY <1>a, <2>0, FlushFacts
    <2>4. acksToEdge' = acksToEdge - 1  BY <1>7 DEF RecvAck
    <2> QED BY <2>1, <2>2, <2>3, <2>4
  <1>8. CASE RecvResHead
    <2> SUFFICES ASSUME agent = "open", visitor # "open", visitor' = "open"
                 PROVE  outstanding = Len(toAgent) + unacked + acksToEdge
      BY <1>a, <1>8 DEF RecvResHead, EdgeCredit, Closing
    <2>1. /\ visitor = "upgrading" /\ sentV = 0
          /\ outstanding = 0 /\ unacked = 0 /\ acksToEdge = 0
      BY <1>b, <1>8 DEF RecvResHead, Unopened
    <2>2. \A i \in 1 .. Len(toAgent) : toAgent[i].type = "msg" /\ toAgent[i].type # "msg"
      BY <1>a, <1>b, <2>1, NothingSent, OpenWire
    <2>3. Len(toAgent) \in Nat /\ (Len(toAgent) > 0 => 1 \in 1 .. Len(toAgent))
      BY <1>a DEF TypeOK, WireTyped
    <2> QED BY <2>1, <2>2, <2>3
  <1>9. CASE RecvClose
    <2>1. visitor' # "open"
      <3>1. CASE visitor = "open"  BY <1>9, <3>1 DEF RecvClose, CloseVisitor
      <3>2. CASE visitor # "open"  BY <1>9, <3>2 DEF RecvClose
      <3> QED BY <3>1, <3>2
    <2> QED BY <2>1 DEF EdgeCredit
  <1>10. ASSUME NEW refused \in BOOLEAN, VisitorSends(refused) PROVE EdgeCredit'
    <2> SUFFICES ASSUME visitor' = "open", up, agent = "open", ~Closing
                 PROVE  outstanding' = Len(toAgent') + unacked + acksToEdge
      BY <1>10 DEF VisitorSends, EdgeCredit, Closing
    <2>0. /\ outstanding = Len(toAgent) + unacked + acksToEdge
          /\ Len(toAgent) \in Nat /\ unacked \in Nat /\ acksToEdge \in Nat /\ sentV + 1 \in Nat
      BY <1>a, <1>10
         DEF VisitorSends, EdgeCredit, TypeOK, VisitorTyped, WireTyped, StreamTyped
    <2>1. CASE Send(<<Message(sentV + 1)>>) /\ outstanding' = outstanding + 1
      <3>1. Len(toAgent') = Len(toAgent) + 1  BY <1>a, <2>0, <2>1, SendOne, FrameKinds
      <3> QED BY <2>0, <2>1, <3>1
    <2>2. CASE UNCHANGED <<outstanding, toAgent>>  BY <2>0, <2>2
    <2>3. ~CloseVisitor("error")  BY DEF CloseVisitor
    <2> QED BY <1>10, <2>1, <2>2, <2>3, SendsCases
  <1>11. CASE RecvReqHead
    BY <1>11 DEF RecvReqHead, EdgeCredit
  <1>12. CASE RecvFromEdge
    <2>1. Len(toAgent') = Len(toAgent) - 1 /\ Len(toAgent) \in Nat
      BY <1>a, <1>12, NextFrameFacts DEF RecvFromEdge, TypeOK, WireTyped
    <2>2. agent = "open" /\ ~Closing' => ~Closing /\ unacked' = unacked + 1
      BY <1>12 DEF RecvFromEdge, Closing, Running
    <2>3. unacked \in Nat /\ acksToEdge \in Nat
      BY <1>a DEF TypeOK, StreamTyped, WireTyped
    <2> QED BY <1>a, <1>12, <2>1, <2>2, <2>3 DEF RecvFromEdge, EdgeCredit
  <1>13. CASE RecvEdgeClose
    BY <1>13 DEF RecvEdgeClose, EdgeCredit, Closing, Running
  <1>14. CASE RecvReset
    BY <1>14 DEF RecvReset, EdgeCredit, Closing, Running
  <1>15. CASE Dial
    BY <1>b, <1>15 DEF Dial, EdgeCredit, Linked
  <1>16. CASE DialFails
    BY <1>16, <1>a DEF DialFails, EdgeCredit, Closing, TypeOK, VisitorTyped,
       WireTyped, StreamTyped, PumpTyped
  <1>17. CASE SessionOver
    BY <1>17, <1>a DEF SessionOver, Running, EdgeCredit, Closing, TypeOK,
       VisitorTyped, WireTyped, StreamTyped, PumpTyped
  <1>18. CASE RunReturns
    BY <1>18, <1>a DEF RunReturns, EdgeCredit, Closing, TypeOK, VisitorTyped,
       WireTyped, StreamTyped, PumpTyped
  <1>19. CASE Drop
    BY <1>19, <1>a DEF Drop, EdgeCredit, Closing, TypeOK, VisitorTyped, WireTyped,
       StreamTyped, PumpTyped
  <1>20. CASE WriteDone
    BY <1>20, <1>a DEF WriteDone, Deliver, EdgeCredit, Closing, TypeOK,
       VisitorTyped, WireTyped, StreamTyped, PumpTyped
  <1>21. CASE WriteFails
    BY <1>21, <1>a DEF WriteFails, Deliver, EdgeCredit, Closing, TypeOK,
       VisitorTyped, WireTyped, StreamTyped, PumpTyped
  <1>22. CASE RecvMessage \/ RecvEdgeAck \/ Take \/ HandleClose \/ Wait \/ Woken \/
     SeesLocalDone \/ Read \/ Relay \/ ReadFails \/ LocalCloses \/ Cancelled \/
     AppSends \/ AppEnds \/ UNCHANGED vars
    BY <1>22, <1>0 DEF RecvMessage, RecvEdgeAck, Take, HandleClose, Wait, Woken,
       SeesLocalDone, Read, Relay, ReadFails, LocalCloses, Cancelled, AppSends,
       AppEnds, vars
  <1> QED BY <1>1, <1>2, <1>3, <1>4, <1>5, <1>6, <1>7, <1>8, <1>9, <1>10, <1>11,
     <1>12, <1>13, <1>14, <1>15, <1>16, <1>17, <1>18, <1>19, <1>20, <1>21, <1>22 DEF
     Next, Edge, Agent

LEMMA AgentCreditStep == RelayInv /\ [Next]_vars => AgentCredit'
  <1> SUFFICES ASSUME RelayInv, [Next]_vars PROVE AgentCredit'  OBVIOUS
  <1> USE DEF visitorVars, wireVars, pumpVars, inVars, appVars
  <1>a. TypeOK /\ AgentCredit  BY DEF RelayInv, Stages, Framed, Numbers
  <1>b. Linked /\ Undialed /\ Unopened /\ FramesDown /\ Severed
    BY DEF RelayInv, Framed, Numbers, Stages
  <1>d. data \in Seq(Frames) /\ data' \in Seq(Frames) /\ Messages(data) \in Nat /\ Messages(data') \in Nat
    <2>1. data \in Seq(Frames) /\ data' \in Seq(Frames)
      BY <1>a, NextTyped DEF RelayInv, TypeOK, WireTyped
    <2> QED BY <2>1, MessagesFinite
  <1>0. UNCHANGED <<visitor, up, acksToAgent, data, agent, msgOut>> => AgentCredit'
    BY <1>a DEF AgentCredit, Awaited
  <1>1. CASE Upgrade
    BY <1>b, <1>1 DEF Upgrade, AgentCredit, Linked
  <1>2. CASE GiveUp
    BY <1>2 DEF GiveUp, AgentCredit, Awaited
  <1>3. CASE VisitorCloses
    BY <1>3, <1>a DEF VisitorCloses, CloseVisitor, AgentCredit, Awaited, TypeOK,
       WireTyped, StreamTyped, PumpTyped
  <1>4. CASE Hibernate
    BY <1>4, <1>a DEF Hibernate, CloseVisitor, AgentCredit, Awaited, TypeOK,
       WireTyped, StreamTyped, PumpTyped
  <1>5. CASE LinkDown
    BY <1>5 DEF LinkDown, AgentCredit
  <1>6. CASE AgentGone
    BY <1>6, <1>a DEF AgentGone, AgentCredit, Awaited, TypeOK, WireTyped,
       StreamTyped, PumpTyped
  <1>7. CASE RecvResHead
    <2>1. PICK type \in {"head", "answer"} : NextData(type)  BY <1>7 DEF RecvResHead
    <2>2. Messages(data') = Messages(data)
      <3>1. data # <<>> /\ data[1].type = type  BY <1>a, <2>1, NextDataFacts
      <3>2. Messages(data) = Messages(Tail(data)) + 0  BY <1>d, <2>1, <3>1, MessagesTail
      <3> QED BY <1>d, <2>1, <3>2 DEF NextData
    <2>3. Awaited' => Awaited  BY <1>7 DEF RecvResHead, Awaited
    <2> QED BY <1>a, <2>2, <2>3, <1>7 DEF RecvResHead, AgentCredit
  <1>8. CASE RecvMessage
    <2>1. Messages(data) = Messages(data') + 1
      <3>1. data # <<>> /\ data[1].type = "msg" /\ data' = Tail(data)
        BY <1>a, <1>8, NextDataFacts DEF RecvMessage, NextData
      <3> QED BY <1>d, <3>1, MessagesTail
    <2>2. CASE visitor = "open"
      BY <1>a, <1>d, <2>1, <2>2, <1>8
         DEF RecvMessage, AgentCredit, Awaited, TypeOK, WireTyped
    <2>3. CASE visitor # "open"
      <3>1. visitor = "upgrading" /\ up /\ agent = "open" => data[1].type \in {"head", "answer"}
        BY <1>b DEF FramesDown
      <3>2. data[1].type = "msg"  BY <1>a, <1>8, NextDataFacts DEF RecvMessage
      <3>3. ~(visitor = "upgrading" /\ up /\ agent = "open")  BY <3>1, <3>2
      <3> QED BY <2>3, <3>3, <1>8 DEF RecvMessage, AgentCredit, Awaited
    <2> QED BY <2>2, <2>3
  <1>9. CASE RecvClose
    <2>1. Messages(data') = Messages(data)
      <3>1. data # <<>> /\ data[1].type = "close" /\ data' = Tail(data)
        BY <1>a, <1>9, NextDataFacts DEF RecvClose, NextData
      <3>2. Messages(data) = Messages(Tail(data)) + 0  BY <1>d, <3>1, MessagesTail
      <3> QED BY <1>d, <3>1, <3>2
    <2>2. Awaited' => Awaited  BY <1>9 DEF RecvClose, CloseVisitor, Awaited
    <2> QED BY <1>a, <2>1, <2>2, <1>9 DEF RecvClose, AgentCredit
  <1>10. ASSUME NEW refused \in BOOLEAN, VisitorSends(refused) PROVE AgentCredit'
    BY <1>10, <1>a DEF VisitorSends, CloseVisitor, AgentCredit, Awaited, TypeOK,
       WireTyped, StreamTyped, PumpTyped
  <1>11. CASE RecvReqHead
    BY <1>11 DEF RecvReqHead, AgentCredit
  <1>12. CASE RecvEdgeAck
    <2>1. acksToAgent \in Nat /\ msgOut \in Nat
      BY <1>a DEF TypeOK, WireTyped, StreamTyped
    <2> SUFFICES ASSUME Awaited, up, agent = "open"
                 PROVE  msgOut' = Messages(data) + acksToAgent'
      BY <1>12 DEF RecvEdgeAck, AgentCredit, Awaited
    <2>2. msgOut = Messages(data) + acksToAgent /\ acksToAgent > 0
      BY <1>a, <1>12 DEF AgentCredit, RecvEdgeAck
    <2>3. msgOut > 0  BY <1>d, <2>1, <2>2
    <2>4. msgOut' = msgOut - 1 /\ acksToAgent' = acksToAgent - 1
      BY <2>3, <1>12 DEF RecvEdgeAck, Running
    <2> QED BY <1>d, <2>1, <2>2, <2>4
  <1>13. CASE Dial
    <2>1. Messages(data') = 0
      <3>1. data = <<>> /\ data' = Append(data, Head101)
        BY <1>b, <1>13 DEF Dial, Undialed
      <3>2. Messages(data') = Messages(data) + 0
        BY <1>d, <3>1, MessagesAppend, FrameKinds, FrameFields
      <3> QED BY <3>1, <3>2, MessagesNone
    <2>2. Awaited => acksToAgent = 0
      BY <1>b, <1>13 DEF Dial, Linked, Unopened, Awaited
    <2> QED BY <1>b, <2>1, <2>2, <1>13 DEF Dial, AgentCredit, Undialed, Awaited
  <1>14. CASE DialFails
    BY <1>14 DEF DialFails, AgentCredit
  <1>15. CASE SessionOver
    BY <1>15, <1>a DEF SessionOver, Running, AgentCredit, Awaited, TypeOK,
       WireTyped, StreamTyped, PumpTyped
  <1>16. CASE RunReturns
    BY <1>16, <1>a DEF RunReturns, AgentCredit, Awaited, TypeOK, WireTyped,
       StreamTyped, PumpTyped
  <1>17. CASE HandleClose
    <2>1. CASE data' = data  BY <1>0, <2>1, <1>17 DEF HandleClose
    <2>2. CASE data' = Append(data, Close("error"))
      <3>1. Messages(data') = Messages(data)
        BY <1>a, <2>2, <1>d, MessagesAppend, FrameKinds, FrameFields DEF TypeOK, PumpTyped
      <3> QED BY <1>a, <1>17, <3>1 DEF HandleClose, AgentCredit, Awaited
    <2> QED BY <2>1, <2>2, <1>17 DEF HandleClose, SendClose
  <1>18. CASE Relay
    <2>1. CASE up
      <3>1. readA \in Nat /\ msgOut \in Nat /\ acksToAgent \in Nat
        BY <1>a DEF TypeOK, StreamTyped, WireTyped
      <3>2. Message(readA) \in Frames /\ Message(readA).type = "msg"
        BY <3>1, FrameKinds, FrameFields
      <3>3. data' = Append(data, Message(readA))  BY <2>1, <1>18 DEF Relay
      <3>4. Messages(data') = Messages(data) + 1  BY <1>d, <3>2, <3>3, MessagesAppend
      <3>5. msgOut' = msgOut + 1 /\ UNCHANGED <<visitor, up, agent, acksToAgent>>
        BY <1>18 DEF Relay
      <3>6. Awaited /\ agent = "open" => msgOut = Messages(data) + acksToAgent
        BY <1>a, <2>1 DEF AgentCredit
      <3>7. Awaited /\ agent = "open" => msgOut' = Messages(data') + acksToAgent'
        BY <1>d, <3>1, <3>4, <3>5, <3>6
      <3> QED BY <3>5, <3>7 DEF AgentCredit, Awaited
    <2>2. CASE ~up  BY <2>2, <1>18 DEF Relay, AgentCredit
    <2> QED BY <2>1, <2>2
  <1>19. CASE LocalCloses
    <2>1. CASE data' = data  BY <1>0, <2>1, <1>19 DEF LocalCloses
    <2>2. CASE data' = Append(data, Close(closeCode))
      <3>1. Messages(data') = Messages(data)
        BY <1>a, <2>2, <1>d, MessagesAppend, FrameKinds, FrameFields DEF TypeOK, PumpTyped
      <3> QED BY <1>a, <1>19, <3>1 DEF LocalCloses, AgentCredit, Awaited
    <2> QED BY <2>1, <2>2, <1>19 DEF LocalCloses, SendClose
  <1>20. CASE RecvAck \/ RecvFromEdge \/ RecvEdgeClose \/ RecvReset \/ Take \/ Drop
     \/ WriteDone \/ WriteFails \/ Wait \/ Woken \/ SeesLocalDone \/ Read \/
     ReadFails \/ Cancelled \/ AppSends \/ AppEnds \/ UNCHANGED vars
    BY <1>20, <1>0 DEF RecvAck, RecvFromEdge, RecvEdgeClose, RecvReset, Take, Drop,
       WriteDone, WriteFails, Wait, Woken, SeesLocalDone, Read, ReadFails,
       Cancelled, AppSends, AppEnds, vars
  <1> QED BY <1>1, <1>2, <1>3, <1>4, <1>5, <1>6, <1>7, <1>8, <1>9, <1>10, <1>11,
     <1>12, <1>13, <1>14, <1>15, <1>16, <1>17, <1>18, <1>19, <1>20 DEF Next, Edge,
     Agent

LEMMA RelayedNextStep == RelayInv /\ [Next]_vars => RelayedNext'
  <1> SUFFICES ASSUME RelayInv, [Next]_vars PROVE RelayedNext'  OBVIOUS
  <1> USE DEF visitorVars, wireVars, pumpVars, inVars, appVars
  <1>a. TypeOK /\ RelayedNext  BY DEF RelayInv, Stages, Framed, Numbers
  <1>b. TypeOK /\ Linked /\ Unopened /\ Undialed /\ Severed /\ FramesDown /\ RelayedNext
    BY DEF RelayInv, Framed, Numbers, Stages
  <1>0. UNCHANGED <<visitor, gotV, up, data, localPump, readA>> => RelayedNext'
    BY <1>a DEF RelayedNext, Relayed, Headed, NoClose, Awaited
  <1>1. CASE Upgrade
    <2>1. data' = <<>> /\ gotV' = <<>> /\ readA' = 0 /\ localPump' = "reading"
      BY <1>b, <1>1 DEF Upgrade, Linked, Unopened, Undialed
    <2>2. Len(data') = 0 /\ Len(gotV') = 0  BY <2>1
    <2>3. Headed' = 0 /\ Relayed' = 0  BY <2>1 DEF Headed, Relayed
    <2> QED BY <2>2, <2>3 DEF RelayedNext
  <1>2. CASE GiveUp
    <2>1. ~Awaited'  BY <1>2 DEF GiveUp, CloseVisitor, Awaited
    <2> QED BY <2>1 DEF RelayedNext
  <1>3. CASE VisitorCloses
    <2>1. ~Awaited'  BY <1>3 DEF VisitorCloses, CloseVisitor, Awaited
    <2> QED BY <2>1 DEF RelayedNext
  <1>4. CASE Hibernate
    <2>1. CASE visitor' = "closed"  BY <2>1 DEF RelayedNext, Awaited
    <2>2. CASE visitor' # "closed"
      <3>1. UNCHANGED visitor  BY <1>4, <2>2 DEF Hibernate, CloseVisitor
      <3> QED BY <1>0, <3>1, <1>4 DEF Hibernate
    <2> QED BY <2>1, <2>2
  <1>5. CASE LinkDown
    <2>1. Len(data') = 0 /\ ~up'  BY <1>5 DEF LinkDown
    <2> QED BY <2>1 DEF RelayedNext
  <1>6. CASE AgentGone
    <2>1. ~Awaited'  BY <1>6 DEF AgentGone, CloseVisitor, Awaited
    <2> QED BY <2>1 DEF RelayedNext
  <1>7. CASE RecvResHead
    <2>1. PICK type \in {"head", "answer"} : NextData(type)  BY <1>7 DEF RecvResHead
    <2>2. Awaited' => Awaited  BY <1>7 DEF RecvResHead, Awaited
    <2> QED BY <1>b, <2>1, <2>2, <1>7, RelayedNextTake DEF RecvResHead
  <1>8. CASE RecvMessage
    <2>1. NextData("msg") /\ UNCHANGED <<visitor, up, localPump, readA>>
      BY <1>8 DEF RecvMessage
    <2>2. visitor # "upgrading"  BY <1>b, <2>1, NextDataFacts, NotUpgrading
    <2>3. CASE visitor = "open"
      <3>1. gotV \in Seq(Nat) /\ gotV' = Append(gotV, Head(data).n)
        BY <1>b, <2>3, <1>8 DEF RecvMessage, TypeOK, VisitorTyped
      <3>2. Len(gotV') = Len(gotV) + 1  BY <3>1
      <3>3. Awaited' => Awaited  BY <2>1 DEF Awaited
      <3> QED BY <1>b, <2>1, <3>2, <3>3, RelayedNextTake
    <2>4. CASE visitor # "open"  BY <2>1, <2>2, <2>4 DEF RelayedNext, Awaited
    <2> QED BY <2>3, <2>4
  <1>9. CASE RecvClose
    <2>1. data # <<>> /\ data[1].type = "close"
      BY <1>a, <1>9, NextDataFacts DEF RecvClose
    <2>2. visitor # "upgrading"  BY <1>b, <2>1, NotUpgrading
    <2>3. ~Awaited'
      <3>1. CASE visitor = "open"  BY <1>9, <3>1 DEF RecvClose, CloseVisitor, Awaited
      <3>2. CASE visitor # "open"  BY <1>9, <2>2, <3>2 DEF RecvClose, Awaited
      <3> QED BY <3>1, <3>2
    <2> QED BY <2>3 DEF RelayedNext
  <1>10. ASSUME NEW refused \in BOOLEAN, VisitorSends(refused) PROVE RelayedNext'
    <2>1. CASE visitor' = "closed"  BY <2>1 DEF RelayedNext, Awaited
    <2>2. CASE visitor' # "closed"
      <3>1. UNCHANGED visitor  BY <1>10, <2>2 DEF VisitorSends, CloseVisitor
      <3> QED BY <1>0, <3>1, <1>10 DEF VisitorSends
    <2> QED BY <2>1, <2>2
  <1>11. CASE Dial
    <2>1. /\ data = <<>> /\ gotV = <<>> /\ readA = 0 /\ sentA = 0 /\ localPump = "reading"
          /\ UNCHANGED <<visitor, gotV, readA, sentA, localPump, up>> /\ data' = Append(data, Head101)
      BY <1>b, <1>11 DEF Dial, Linked, Unopened, Undialed, TypeOK, VisitorTyped
    <2>2. Len(gotV) = 0 /\ Len(data') = 1 /\ data' # <<>> /\ data'[1] = Head101  BY <2>1
    <2>3. data'[1].type \in {"head", "answer"}  BY <2>2, FrameFields
    <2>4. Headed' = 1  BY <2>2, <2>3 DEF Headed
    <2>5. Relayed' = 0  BY <2>1 DEF Relayed
    <2>6. \A i \in 1 .. Len(data') : i = 1 /\ data'[i].type \notin {"msg", "close"}
      BY <2>2, <2>3
    <2> QED BY <2>1, <2>2, <2>4, <2>5, <2>6, FrameFields DEF RelayedNext
  <1>12. CASE DialFails
    <2>1. /\ data = <<>> /\ gotV = <<>> /\ readA = 0 /\ sentA = 0 /\ localPump = "reading"
          /\ UNCHANGED <<visitor, gotV, readA, sentA, localPump, up>> /\ data' = Append(data, Answer)
      BY <1>b, <1>12 DEF DialFails, Linked, Unopened, Undialed, TypeOK, VisitorTyped
    <2>2. Len(gotV) = 0 /\ Len(data') = 1 /\ data' # <<>> /\ data'[1] = Answer  BY <2>1
    <2>3. data'[1].type \in {"head", "answer"}  BY <2>2, FrameFields
    <2>4. Headed' = 1  BY <2>2, <2>3 DEF Headed
    <2>5. Relayed' = 0  BY <2>1 DEF Relayed
    <2>6. \A i \in 1 .. Len(data') : i = 1 /\ data'[i].type \notin {"msg", "close"}
      BY <2>2, <2>3
    <2> QED BY <2>1, <2>2, <2>4, <2>5, <2>6, FrameFields DEF RelayedNext
  <1>13. CASE SessionOver
    BY <1>a, <1>13 DEF SessionOver, RelayedNext, Awaited, Headed, NoClose
  <1>14. CASE HandleClose
    <2>1. CASE data' = data  BY <1>0, <2>1, <1>14 DEF HandleClose
    <2>2. CASE up /\ data' = Append(data, Close("error"))
      <3>1. Close("error") \in Frames /\ Close("error").type = "close"
        BY <1>b, FrameKinds, FrameFields DEF TypeOK, PumpTyped
      <3> QED BY <1>a, <1>b, <2>2, <3>1, <1>14, RelayedNextAppend DEF HandleClose
    <2> QED BY <2>1, <2>2, <1>14 DEF HandleClose, SendClose
  <1>15. CASE Read
    <2>1. Relayed' = Relayed /\ localPump # "done"
      BY <1>b, <1>15 DEF Read, Relayed, TypeOK, StreamTyped
    <2>2. UNCHANGED <<visitor, data, gotV, up>>  BY <1>15 DEF Read
    <2> QED BY <1>a, <2>1, <2>2 DEF RelayedNext, Awaited, Headed, NoClose
  <1>16. CASE Relay
    <2>1. CASE up
      <3>1. /\ readA \in Nat /\ data' = Append(data, Message(readA))
            /\ UNCHANGED <<visitor, gotV, up>> /\ Relayed = readA - 1 /\ Relayed' = readA
            /\ localPump # "done"
        BY <1>b, <2>1, <1>16 DEF Relay, Relayed, TypeOK, StreamTyped
      <3>2. /\ Message(readA) \in Frames /\ Message(readA).type = "msg"
            /\ Message(readA).n = readA
        BY <3>1, FrameKinds, FrameFields
      <3>3. Headed \in Nat /\ Len(gotV) \in Nat /\ Len(data) \in Nat
        BY <1>b DEF TypeOK, VisitorTyped, WireTyped, Headed
      <3>4. Awaited /\ NoClose(data, Len(data)) =>
               /\ readA + Headed = Len(gotV) + Len(data) + 1
               /\ Relayed' + Headed = Len(gotV) + Len(data) + 1
        BY <1>b, <2>1, <3>1, <3>3 DEF RelayedNext
      <3> QED BY <1>b, <3>1, <3>2, <3>4, RelayedNextAppend
    <2>2. CASE ~up
      <3>1. data' = <<>> /\ Len(data') = 0 /\ ~up'
        BY <1>b, <2>2, <1>16 DEF Relay, Severed
      <3> QED BY <3>1 DEF RelayedNext
    <2> QED BY <2>1, <2>2
  <1>17. CASE ReadFails
    <2>1. Relayed' = Relayed /\ localPump # "done"
      BY <1>17 DEF ReadFails, Relayed
    <2>2. UNCHANGED <<visitor, data, gotV, up>>  BY <1>17 DEF ReadFails
    <2> QED BY <1>a, <2>1, <2>2 DEF RelayedNext, Awaited, Headed, NoClose
  <1>18. CASE LocalCloses
    <2>1. CASE data' = data
      BY <1>a, <2>1, <1>18 DEF LocalCloses, RelayedNext, Awaited, Headed, NoClose
    <2>2. CASE up /\ data' = Append(data, Close(closeCode))
      <3>1. Close(closeCode) \in Frames /\ Close(closeCode).type = "close"
        BY <1>b, FrameKinds, FrameFields DEF TypeOK, PumpTyped
      <3> QED BY <1>a, <1>b, <2>2, <3>1, <1>18, RelayedNextAppend DEF LocalCloses
    <2> QED BY <2>1, <2>2, <1>18 DEF LocalCloses, SendClose
  <1>19. CASE Cancelled
    BY <1>a, <1>19 DEF Cancelled, RelayedNext, Awaited, Headed, NoClose
  <1>20. CASE RecvAck \/ RecvReqHead \/ RecvFromEdge \/ RecvEdgeClose \/ RecvReset
     \/ RecvEdgeAck \/ RunReturns \/ Take \/ Drop \/ WriteDone \/ WriteFails \/ Wait
     \/ Woken \/ SeesLocalDone \/ AppSends \/ AppEnds \/ UNCHANGED vars
    BY <1>20, <1>0 DEF RecvAck, RecvReqHead, RecvFromEdge, RecvEdgeClose, RecvReset,
       RecvEdgeAck, RunReturns, Take, Drop, WriteDone, WriteFails, Wait, Woken,
       SeesLocalDone, AppSends, AppEnds, vars
  <1> QED BY <1>1, <1>2, <1>3, <1>4, <1>5, <1>6, <1>7, <1>8, <1>9, <1>10, <1>11,
     <1>12, <1>13, <1>14, <1>15, <1>16, <1>17, <1>18, <1>19, <1>20 DEF Next, Edge,
     Agent

LEMMA ClosedLastStep == RelayInv /\ [Next]_vars => ClosedLast'
  <1> SUFFICES ASSUME RelayInv, [Next]_vars PROVE ClosedLast'  OBVIOUS
  <1> USE DEF visitorVars, wireVars, pumpVars, inVars, appVars
  <1>a. TypeOK /\ ClosedLast  BY DEF RelayInv, Stages, Framed, Numbers
  <1>b. TypeOK /\ Linked /\ Unopened /\ Undialed /\ Severed /\ FramesDown /\ RelayedNext /\ ClosedOver
    BY DEF RelayInv, Framed, Numbers, Stages
  <1>0. UNCHANGED <<visitor, gotV, data, sentA>> => ClosedLast'
    BY <1>a DEF ClosedLast, Headed, NoClose, Awaited
  <1>1. CASE Upgrade
    <2>1. Len(data') = 0  BY <1>b, <1>1 DEF Upgrade, Linked, Undialed
    <2> QED BY <2>1 DEF ClosedLast
  <1>2. CASE GiveUp
    <2>1. ~Awaited'  BY <1>2 DEF GiveUp, CloseVisitor, Awaited
    <2> QED BY <2>1 DEF ClosedLast
  <1>3. CASE VisitorCloses
    <2>1. ~Awaited'  BY <1>3 DEF VisitorCloses, CloseVisitor, Awaited
    <2> QED BY <2>1 DEF ClosedLast
  <1>4. CASE Hibernate
    <2>1. CASE visitor' = "closed"  BY <2>1 DEF ClosedLast, Awaited
    <2>2. CASE visitor' # "closed"
      <3>1. UNCHANGED visitor  BY <1>4, <2>2 DEF Hibernate, CloseVisitor
      <3> QED BY <1>0, <3>1, <1>4 DEF Hibernate
    <2> QED BY <2>1, <2>2
  <1>5. CASE LinkDown
    <2>1. Len(data') = 0  BY <1>5 DEF LinkDown
    <2> QED BY <2>1 DEF ClosedLast
  <1>6. CASE AgentGone
    <2>1. ~Awaited'  BY <1>6 DEF AgentGone, CloseVisitor, Awaited
    <2> QED BY <2>1 DEF ClosedLast
  <1>7. CASE RecvResHead
    <2>1. PICK type \in {"head", "answer"} : NextData(type)  BY <1>7 DEF RecvResHead
    <2>2. Awaited' => Awaited  BY <1>7 DEF RecvResHead, Awaited
    <2> QED BY <1>a, <1>b, <2>1, <2>2, <1>7, ClosedLastTake DEF RecvResHead
  <1>8. CASE RecvMessage
    <2>1. NextData("msg") /\ UNCHANGED <<visitor, sentA>>
      BY <1>8 DEF RecvMessage
    <2>2. visitor # "upgrading"  BY <1>b, <2>1, NextDataFacts, NotUpgrading
    <2>3. CASE visitor = "open"
      <3>1. gotV \in Seq(Nat) /\ gotV' = Append(gotV, Head(data).n)
        BY <1>b, <2>3, <1>8 DEF RecvMessage, TypeOK, VisitorTyped
      <3>2. Len(gotV') = Len(gotV) + 1  BY <3>1
      <3>3. Awaited' => Awaited  BY <2>1 DEF Awaited
      <3> QED BY <1>a, <1>b, <2>1, <3>2, <3>3, ClosedLastTake
    <2>4. CASE visitor # "open"  BY <2>1, <2>2, <2>4 DEF ClosedLast, Awaited
    <2> QED BY <2>3, <2>4
  <1>9. CASE RecvClose
    <2>1. data # <<>> /\ data[1].type = "close"
      BY <1>a, <1>9, NextDataFacts DEF RecvClose
    <2>2. visitor # "upgrading"  BY <1>b, <2>1, NotUpgrading
    <2>3. ~Awaited'
      <3>1. CASE visitor = "open"  BY <1>9, <3>1 DEF RecvClose, CloseVisitor, Awaited
      <3>2. CASE visitor # "open"  BY <1>9, <2>2, <3>2 DEF RecvClose, Awaited
      <3> QED BY <3>1, <3>2
    <2> QED BY <2>3 DEF ClosedLast
  <1>10. ASSUME NEW refused \in BOOLEAN, VisitorSends(refused) PROVE ClosedLast'
    <2>1. CASE visitor' = "closed"  BY <2>1 DEF ClosedLast, Awaited
    <2>2. CASE visitor' # "closed"
      <3>1. UNCHANGED visitor  BY <1>10, <2>2 DEF VisitorSends, CloseVisitor
      <3> QED BY <1>0, <3>1, <1>10 DEF VisitorSends
    <2> QED BY <2>1, <2>2
  <1>11. CASE Dial
    <2>1. /\ data = <<>> /\ gotV = <<>> /\ readA = 0 /\ sentA = 0 /\ localPump = "reading"
          /\ UNCHANGED <<visitor, gotV, readA, sentA, localPump, up>> /\ data' = Append(data, Head101)
      BY <1>b, <1>11 DEF Dial, Linked, Unopened, Undialed, TypeOK, VisitorTyped
    <2>2. Len(gotV) = 0 /\ Len(data') = 1 /\ data' # <<>> /\ data'[1] = Head101  BY <2>1
    <2>3. data'[1].type \in {"head", "answer"}  BY <2>2, FrameFields
    <2>4. Headed' = 1  BY <2>2, <2>3 DEF Headed
    <2>5. Relayed' = 0  BY <2>1 DEF Relayed
    <2>6. \A i \in 1 .. Len(data') : i = 1 /\ data'[i].type \notin {"msg", "close"}
      BY <2>2, <2>3
    <2> QED BY <2>1, <2>2, <2>4, <2>5, <2>6, FrameFields DEF ClosedLast
  <1>12. CASE DialFails
    <2>1. /\ data = <<>> /\ gotV = <<>> /\ readA = 0 /\ sentA = 0 /\ localPump = "reading"
          /\ UNCHANGED <<visitor, gotV, readA, sentA, localPump, up>> /\ data' = Append(data, Answer)
      BY <1>b, <1>12 DEF DialFails, Linked, Unopened, Undialed, TypeOK, VisitorTyped
    <2>2. Len(gotV) = 0 /\ Len(data') = 1 /\ data' # <<>> /\ data'[1] = Answer  BY <2>1
    <2>3. data'[1].type \in {"head", "answer"}  BY <2>2, FrameFields
    <2>4. Headed' = 1  BY <2>2, <2>3 DEF Headed
    <2>5. Relayed' = 0  BY <2>1 DEF Relayed
    <2>6. \A i \in 1 .. Len(data') : i = 1 /\ data'[i].type \notin {"msg", "close"}
      BY <2>2, <2>3
    <2> QED BY <2>1, <2>2, <2>4, <2>5, <2>6, FrameFields DEF ClosedLast
  <1>13. CASE HandleClose
    <2>1. CASE data' = data  BY <1>0, <2>1, <1>13 DEF HandleClose
    <2>2. CASE up /\ data' = Append(data, Close("error"))
      <3>1. /\ Close("error") \in Frames /\ Close("error").type = "close"
            /\ Close("error") # Close("app")
        BY FrameKinds, FrameFields
      <3> QED BY <1>a, <1>b, <2>2, <3>1, <1>13, ClosedLastAppend DEF HandleClose
    <2> QED BY <2>1, <2>2, <1>13 DEF HandleClose, SendClose
  <1>14. CASE Relay
    <2>1. CASE data' = data  BY <1>0, <2>1, <1>14 DEF Relay
    <2>2. CASE data' = Append(data, Message(readA))
      <3>1. /\ Message(readA) \in Frames /\ Message(readA).type = "msg"
            /\ Message(readA) # Close("app")
        BY <1>b, FrameKinds, FrameFields DEF TypeOK, StreamTyped
      <3> QED BY <1>a, <1>b, <2>2, <3>1, <1>14, ClosedLastAppend DEF Relay
    <2> QED BY <2>1, <2>2, <1>14 DEF Relay
  <1>15. CASE LocalCloses
    <2>1. CASE data' = data  BY <1>0, <2>1, <1>15 DEF LocalCloses
    <2>2. CASE up /\ data' = Append(data, Close(closeCode))
      <3>1. Close(closeCode) \in Frames /\ Close(closeCode).type = "close"
        BY <1>b, FrameKinds, FrameFields DEF TypeOK, PumpTyped
      <3>2. localPump = "closing" /\ UNCHANGED <<visitor, gotV, sentA>>
        BY <1>15 DEF LocalCloses
      <3>3. Relayed = readA  BY <3>2 DEF Relayed
      <3>4. Close(closeCode) = Close("app") => readA = sentA
        BY <1>b, <3>2, FrameFields DEF ClosedOver
      <3>5. /\ Headed \in Nat /\ Len(gotV) \in Nat /\ Len(data) \in Nat
            /\ readA \in Nat /\ sentA \in Nat
        BY <1>b DEF TypeOK, VisitorTyped, WireTyped, StreamTyped, AppTyped, Headed
      <3>6. Awaited /\ NoClose(data, Len(data)) => readA + Headed = Len(gotV) + Len(data)
        BY <1>b, <2>2, <3>2, <3>3 DEF RelayedNext
      <3>7. Close(closeCode) = Close("app") /\ Awaited /\ NoClose(data, Len(data)) =>
               sentA + Headed + 1 = Len(gotV) + Len(data) + 1
        BY <3>4, <3>5, <3>6
      <3> QED BY <1>a, <1>b, <2>2, <3>1, <3>2, <3>7, ClosedLastAppend
    <2> QED BY <2>1, <2>2, <1>15 DEF LocalCloses, SendClose
  <1>16. CASE AppSends
    <2>1. \A i \in 1 .. Len(data') : data'[i] # Close("app")
      BY <1>b, <1>16 DEF AppSends, AppLives, ClosedOver
    <2> QED BY <2>1 DEF ClosedLast
  <1>17. CASE RecvAck \/ RecvReqHead \/ RecvFromEdge \/ RecvEdgeClose \/ RecvReset
     \/ RecvEdgeAck \/ SessionOver \/ RunReturns \/ Take \/ Drop \/ WriteDone \/
     WriteFails \/ Wait \/ Woken \/ SeesLocalDone \/ Read \/ ReadFails \/ Cancelled
     \/ AppEnds \/ UNCHANGED vars
    BY <1>17, <1>0 DEF RecvAck, RecvReqHead, RecvFromEdge, RecvEdgeClose, RecvReset,
       RecvEdgeAck, SessionOver, RunReturns, Take, Drop, WriteDone, WriteFails,
       Wait, Woken, SeesLocalDone, Read, ReadFails, Cancelled, AppEnds, vars
  <1> QED BY <1>1, <1>2, <1>3, <1>4, <1>5, <1>6, <1>7, <1>8, <1>9, <1>10, <1>11,
     <1>12, <1>13, <1>14, <1>15, <1>16, <1>17 DEF Next, Edge, Agent

LEMMA ClosedOverStep == RelayInv /\ [Next]_vars => ClosedOver'
  <1> SUFFICES ASSUME RelayInv, [Next]_vars PROVE ClosedOver'  OBVIOUS
  <1> USE DEF visitorVars, wireVars, pumpVars, inVars, appVars
  <1>a. TypeOK /\ ClosedOver  BY DEF RelayInv, Stages, Framed, Numbers
  <1>0. UNCHANGED <<ending, data, localPump, closeCode, readA, appClosed, sentA>> =>
     ClosedOver'
    BY <1>a DEF ClosedOver
  <1>1. CASE VisitorCloses
    <2>1. UNCHANGED ending \/ ending' # "app"
      BY <1>1 DEF VisitorCloses, CloseVisitor
    <2> QED BY <1>a, <2>1, <1>1 DEF VisitorCloses, ClosedOver
  <1>2. CASE Hibernate
    <2>1. UNCHANGED ending \/ ending' # "app"
      BY <1>2 DEF Hibernate, CloseVisitor
    <2> QED BY <1>a, <2>1, <1>2 DEF Hibernate, ClosedOver
  <1>3. CASE LinkDown
    <2>1. Len(data') = 0  BY <1>3 DEF LinkDown
    <2> QED BY <1>a, <2>1, <1>3 DEF LinkDown, ClosedOver
  <1>4. CASE AgentGone
    <2>1. UNCHANGED ending \/ ending' # "app"
      BY <1>4 DEF AgentGone, CloseVisitor
    <2> QED BY <1>a, <2>1, <1>4 DEF AgentGone, ClosedOver
  <1>5. CASE RecvResHead
    <2>1. \A i \in 1 .. Len(data') : i + 1 \in 1 .. Len(data) /\ data'[i] = data[i + 1]
      BY <1>a, <1>5, NextDataFacts DEF RecvResHead
    <2> QED BY <1>a, <2>1, <1>5 DEF RecvResHead, ClosedOver
  <1>6. CASE RecvMessage
    <2>1. \A i \in 1 .. Len(data') : i + 1 \in 1 .. Len(data) /\ data'[i] = data[i + 1]
      BY <1>a, <1>6, NextDataFacts DEF RecvMessage
    <2> QED BY <1>a, <2>1, <1>6 DEF RecvMessage, ClosedOver
  <1>7. CASE RecvClose
    <2>1. /\ data # <<>> /\ Head(data) = data[1] /\ data[1] \in Frames
          /\ data[1].type = "close" /\ 1 \in 1 .. Len(data)
          /\ \A i \in 1 .. Len(data') : i + 1 \in 1 .. Len(data) /\ data'[i] = data[i + 1]
      BY <1>a, <1>7, NextDataFacts DEF RecvClose, TypeOK, WireTyped
    <2>2. UNCHANGED ending \/ ending' = data[1].code
      BY <2>1, <1>7 DEF RecvClose, CloseVisitor
    <2>3. data[1].code = "app" => appClosed
      BY <1>a, <2>1, FrameKinds DEF ClosedOver
    <2> QED BY <1>a, <2>1, <2>2, <2>3, <1>7 DEF RecvClose, ClosedOver
  <1>8. ASSUME NEW refused \in BOOLEAN, VisitorSends(refused) PROVE ClosedOver'
    <2>1. UNCHANGED ending \/ ending' # "app"
      BY <1>8 DEF VisitorSends, CloseVisitor
    <2> QED BY <1>a, <2>1, <1>8 DEF VisitorSends, ClosedOver
  <1>9. CASE Dial
    <2>1. CASE data' = data  BY <1>a, <2>1, <1>9 DEF Dial, ClosedOver
    <2>2. CASE data' = Append(data, Head101)
      <3>1. Head101 \in Frames /\ Head101 # Close("app")
        BY <1>a, FrameKinds, FrameFields DEF TypeOK, StreamTyped
      <3>2. \A i \in 1 .. Len(data') : data'[i] = Close("app") =>
               i \in 1 .. Len(data) /\ data'[i] = data[i]
        BY <1>a, <2>2, <3>1, AppendFacts
      <3> QED BY <1>a, <3>2, <1>9 DEF Dial, ClosedOver
    <2> QED BY <2>1, <2>2, <1>9 DEF Dial, SendClose
  <1>10. CASE DialFails
    <2>1. CASE data' = data  BY <1>a, <2>1, <1>10 DEF DialFails, ClosedOver
    <2>2. CASE data' = Append(data, Answer)
      <3>1. Answer \in Frames /\ Answer # Close("app")
        BY <1>a, FrameKinds, FrameFields DEF TypeOK, StreamTyped
      <3>2. \A i \in 1 .. Len(data') : data'[i] = Close("app") =>
               i \in 1 .. Len(data) /\ data'[i] = data[i]
        BY <1>a, <2>2, <3>1, AppendFacts
      <3> QED BY <1>a, <3>2, <1>10 DEF DialFails, ClosedOver
    <2> QED BY <2>1, <2>2, <1>10 DEF DialFails, SendClose
  <1>11. CASE SessionOver
    BY <1>11, <1>a DEF SessionOver, Running, ClosedOver, TypeOK
  <1>12. CASE HandleClose
    <2>1. CASE data' = data  BY <1>a, <2>1, <1>12 DEF HandleClose, ClosedOver
    <2>2. CASE data' = Append(data, Close("error"))
      <3>1. Close("error") \in Frames /\ Close("error") # Close("app")
        BY <1>a, FrameKinds, FrameFields DEF TypeOK, StreamTyped
      <3>2. \A i \in 1 .. Len(data') : data'[i] = Close("app") =>
               i \in 1 .. Len(data) /\ data'[i] = data[i]
        BY <1>a, <2>2, <3>1, AppendFacts
      <3> QED BY <1>a, <3>2, <1>12 DEF HandleClose, ClosedOver
    <2> QED BY <2>1, <2>2, <1>12 DEF HandleClose, SendClose
  <1>13. CASE SeesLocalDone
    BY <1>13, <1>a DEF SeesLocalDone, ClosedOver, TypeOK
  <1>14. CASE Read
    BY <1>14, <1>a DEF Read, ClosedOver, TypeOK
  <1>15. CASE Relay
    <2>1. CASE data' = data  BY <1>a, <2>1, <1>15 DEF Relay, ClosedOver
    <2>2. CASE data' = Append(data, Message(readA))
      <3>1. Message(readA) \in Frames /\ Message(readA) # Close("app")
        BY <1>a, FrameKinds, FrameFields DEF TypeOK, StreamTyped
      <3>2. \A i \in 1 .. Len(data') : data'[i] = Close("app") =>
               i \in 1 .. Len(data) /\ data'[i] = data[i]
        BY <1>a, <2>2, <3>1, AppendFacts
      <3> QED BY <1>a, <3>2, <1>15 DEF Relay, ClosedOver
    <2> QED BY <2>1, <2>2, <1>15 DEF Relay, SendClose
  <1>16. CASE ReadFails
    BY <1>16, <1>a DEF ReadFails, ClosedOver, TypeOK
  <1>17. CASE LocalCloses
    <2>1. CASE data' = data  BY <1>a, <2>1, <1>17 DEF LocalCloses, ClosedOver
    <2>2. CASE data' = Append(data, Close(closeCode))
      <3>1. Close(closeCode) \in Frames
        BY <1>a, FrameKinds DEF TypeOK, PumpTyped
      <3>2. Close(closeCode) = Close("app") => appClosed
        BY <1>a, FrameFields, <1>17 DEF LocalCloses, ClosedOver
      <3>3. \A i \in 1 .. Len(data') :
               \/ i \in 1 .. Len(data) /\ data'[i] = data[i]
               \/ data'[i] = Close(closeCode)
        BY <1>a, <2>2, <3>1, AppendFacts
      <3> QED BY <1>a, <3>2, <3>3, <1>17 DEF LocalCloses, ClosedOver
    <2> QED BY <2>1, <2>2, <1>17 DEF LocalCloses, SendClose
  <1>18. CASE Cancelled
    BY <1>18, <1>a DEF Cancelled, ClosedOver, TypeOK
  <1>19. CASE AppSends
    BY <1>19, <1>a DEF AppSends, AppLives, ClosedOver, TypeOK
  <1>20. CASE AppEnds
    BY <1>20, <1>a DEF AppEnds, AppLives, ClosedOver, TypeOK
  <1>21. CASE Upgrade \/ GiveUp \/ RecvAck \/ RecvReqHead \/ RecvFromEdge \/
     RecvEdgeClose \/ RecvReset \/ RecvEdgeAck \/ RunReturns \/ Take \/ Drop \/
     WriteDone \/ WriteFails \/ Wait \/ Woken \/ UNCHANGED vars
    BY <1>21, <1>0 DEF Upgrade, GiveUp, RecvAck, RecvReqHead, RecvFromEdge,
       RecvEdgeClose, RecvReset, RecvEdgeAck, RunReturns, Take, Drop, WriteDone,
       WriteFails, Wait, Woken, vars
  <1> QED BY <1>1, <1>2, <1>3, <1>4, <1>5, <1>6, <1>7, <1>8, <1>9, <1>10, <1>11,
     <1>12, <1>13, <1>14, <1>15, <1>16, <1>17, <1>18, <1>19, <1>20, <1>21 DEF Next,
     Edge, Agent

-----------------------------------------------------------------------------
LEMMA RelayInvInit == Init => RelayInv
  <1> SUFFICES ASSUME Init PROVE RelayInv  OBVIOUS
  <1>1. TypeOK  BY InitTyped
  <1>2. /\ visitor = "none" /\ agent = "none" /\ up /\ edgePump = "loop"
        /\ localPump = "reading" /\ closeCode = "error" /\ ending = "none" /\ ~closeSent
        /\ sentV = 0 /\ sentA = 0 /\ readA = 0 /\ outstanding = 0 /\ unacked = 0 /\ msgOut = 0
        /\ acksToEdge = 0 /\ acksToAgent = 0 /\ ~appClosed
    BY DEF Init
  <1>3. /\ buffer = <<>> /\ gotV = <<>> /\ gotA = <<>> /\ inbox = <<>>
        /\ toAgent = <<>> /\ data = <<>>
    BY DEF Init
  <1>4. /\ Len(gotA) = 0 /\ Len(inbox) = 0 /\ Len(buffer) = 0
        /\ Len(toAgent) = 0 /\ Len(data) = 0
    BY <1>3
  <1>5. Stages
    <2>1. Bounded  BY <1>2, <1>4, CreditAssumption DEF Bounded, Written
    <2> QED BY <1>2, <1>3, <2>1 DEF Stages, Unopened, Undialed, Linked, Severed
  <1>6. Framed  BY <1>2, <1>3, <1>4 DEF Framed, FramesUp, FramesDown, Queued
  <1>7. Numbers
    <2>1. RelayedNext /\ ClosedLast  BY <1>2 DEF RelayedNext, ClosedLast, Awaited
    <2>2. ClosedOver  BY <1>2, <1>4 DEF ClosedOver
    <2> QED BY <1>2, <2>1, <2>2 DEF Numbers, WrittenNext, TakenNext, BufferedNext, Running
  <1>8. EdgeCredit /\ AgentCredit  BY <1>2 DEF EdgeCredit, AgentCredit
  <1> QED BY <1>1, <1>5, <1>6, <1>7, <1>8 DEF RelayInv

LEMMA RelayInvStep == RelayInv /\ [Next]_vars => RelayInv'
  <1> SUFFICES ASSUME RelayInv, [Next]_vars PROVE RelayInv'  OBVIOUS
  <1>1. TypeOK'  BY NextTyped DEF RelayInv
  <1>2. Stages'
    BY UnopenedStep, UndialedStep, LinkedStep, SeveredStep, BoundedStep DEF Stages
  <1>3. Framed'  BY FramesUpStep, FramesDownStep, QueuedStep DEF Framed
  <1>4. Numbers'
    BY WrittenNextStep, TakenNextStep, BufferedNextStep, RelayedNextStep, ClosedLastStep,
       ClosedOverStep DEF Numbers
  <1>5. EdgeCredit' /\ AgentCredit'  BY EdgeCreditStep, AgentCreditStep
  <1> QED BY <1>1, <1>2, <1>3, <1>4, <1>5 DEF RelayInv

LEMMA RelayInvariant == Spec => []RelayInv
  BY RelayInvInit, RelayInvStep, PTL DEF Spec

\* Every variable keeps to its type: an attachment, a goroutine's place, a
\* queue of frames of the protocol.
THEOREM TypeCorrect == Spec => []TypeOK
  <1>1. RelayInv => TypeOK  BY DEF RelayInv
  <1> QED BY <1>1, RelayInvariant, PTL

\* For any credit, and whatever is buffered, interrupted or lost: what either
\* side counts as outstanding is on the wire, at the receiver, or coming back.
THEOREM CreditIsConserved == Spec => []CreditConserved
  <1>1. ASSUME RelayInv PROVE CreditConserved
    <2>0. /\ TypeOK /\ FramesUp /\ EdgeCredit /\ AgentCredit
          /\ toAgent \in Seq(Frames)
      BY <1>1 DEF RelayInv, Framed, TypeOK, WireTyped
    <2>1. ASSUME Healthy, ~Closing
          PROVE  outstanding = Messages(toAgent) + unacked + acksToEdge
      <3>1. Messages(toAgent) = Len(toAgent)
        BY <2>0, <2>1, OpenWire, MessagesAll DEF Healthy
      <3> QED BY <2>0, <2>1, <3>1 DEF Healthy, EdgeCredit
    <2>2. ASSUME Healthy PROVE msgOut = Messages(data) + acksToAgent
      BY <2>0, <2>2 DEF Healthy, AgentCredit, Awaited
    <2> QED BY <2>1, <2>2 DEF CreditConserved
  <1> QED BY <1>1, RelayInvariant, PTL
-----------------------------------------------------------------------------
(* Both directions are pipes.                                              *)

\* What is outside the variables of a pipe is a stutter of it.
LEMMA UplinkStutter ==
    UNCHANGED <<sentV, gotA, appClosed>> => [Uplink!Next]_(Uplink!vars)
  BY DEF Uplink!vars

\* The application's socket closes, and never opens again.
LEMMA UplinkEnd ==
    ASSUME appClosed' = TRUE, UNCHANGED <<sentV, gotA>>
    PROVE  [Uplink!Next]_(Uplink!vars)
  BY DEF Uplink!Next, Uplink!End, Uplink!Ended

LEMMA UplinkStep == RelayInv /\ [Next]_vars => [Uplink!Next]_(Uplink!vars)
  <1> SUFFICES ASSUME RelayInv, [Next]_vars PROVE [Uplink!Next]_(Uplink!vars)  OBVIOUS
  <1> USE DEF visitorVars, wireVars, pumpVars, inVars, appVars
  <1>1. ASSUME NEW refused \in BOOLEAN, VisitorSends(refused)
        PROVE  [Uplink!Next]_(Uplink!vars)
    BY <1>1 DEF VisitorSends, Uplink!Next, Uplink!Send
  <1>2. CASE WriteDone \/ WriteFails
    <2>1. /\ edgePump = "writing" /\ UNCHANGED <<sentV, appClosed>>
          /\ Deliver \/ UNCHANGED gotA
      BY <1>2 DEF WriteDone, WriteFails
    <2>2. \/ gotA' = gotA
          \/ ~appClosed /\ gotA' = Append(gotA, Len(gotA) + 1) /\ Len(gotA) < sentV
      BY <2>1, DeliverFacts DEF RelayInv, Stages, Framed, Numbers
    <2>3. CASE gotA' = gotA  BY <2>1, <2>3, UplinkStutter
    <2>4. CASE ~appClosed /\ gotA' = Append(gotA, Len(gotA) + 1) /\ Len(gotA) < sentV
      BY <2>1, <2>4 DEF Uplink!Next, Uplink!Deliver, Uplink!Delivered
    <2> QED BY <2>2, <2>3, <2>4
  <1>3. CASE DialFails \/ HandleClose \/ SeesLocalDone \/ SessionOver \/ AppEnds
    BY <1>3, UplinkEnd DEF DialFails, HandleClose, SeesLocalDone, SessionOver, AppEnds
  <1>4. CASE \/ Upgrade \/ GiveUp \/ VisitorCloses \/ Hibernate \/ LinkDown \/ AgentGone
             \/ RecvAck \/ RecvResHead \/ RecvMessage \/ RecvClose
    BY <1>4, UplinkStutter
       DEF Upgrade, GiveUp, VisitorCloses, Hibernate, LinkDown, AgentGone, RecvAck,
           RecvResHead, RecvMessage, RecvClose
  <1>5. CASE \/ RecvReqHead \/ RecvFromEdge \/ RecvEdgeClose \/ RecvReset \/ RecvEdgeAck
             \/ Dial \/ RunReturns \/ Take \/ Drop \/ Wait \/ Woken
             \/ Read \/ Relay \/ ReadFails \/ LocalCloses \/ Cancelled \/ AppSends
    BY <1>5, UplinkStutter
      
          DEF RecvReqHead, RecvFromEdge, RecvEdgeClose, RecvReset, RecvEdgeAck, Dial,
              RunReturns,
           Take, Drop, Wait, Woken, Read, Relay, ReadFails, LocalCloses, Cancelled, AppSends
  <1>6. CASE UNCHANGED vars  BY <1>6, UplinkStutter DEF vars
  <1> QED BY <1>1, <1>2, <1>3, <1>4, <1>5, <1>6 DEF Next, Edge, Agent

\* Where the visitor's end is untouched, its closing is all that can happen.
LEMMA DownlinkStutter ==
    ASSUME UNCHANGED <<sentA, gotV, ending>>, (visitor' = "closed") = (visitor = "closed")
    PROVE  [Downlink!Next]_(Downlink!vars)
  BY DEF Downlink!vars

\* The visitor closes, other than by the application's close.
LEMMA DownlinkEnd ==
    ASSUME visitor' = "closed", UNCHANGED <<sentA, gotV>>, ending # "app", ending' # "app"
    PROVE  [Downlink!Next]_(Downlink!vars)
  BY DEF Downlink!Next, Downlink!End, Downlink!Ended

LEMMA DownlinkStep == RelayInv /\ [Next]_vars => [Downlink!Next]_(Downlink!vars)
  <1> SUFFICES ASSUME RelayInv, [Next]_vars PROVE [Downlink!Next]_(Downlink!vars)  OBVIOUS
  <1> USE DEF visitorVars, wireVars, pumpVars, inVars, appVars
  <1>a. /\ TypeOK /\ Linked /\ Undialed /\ Severed /\ FramesDown
        /\ RelayedNext /\ ClosedLast /\ ClosedOver
    BY DEF RelayInv, Stages, Framed, Numbers
  <1>b. visitor = "open" => ending # "app"  BY <1>a DEF Linked
  <1>c. ASSUME NEW type, NextData(type), type \in {"msg", "close"}, visitor = "open"
        PROVE  /\ Headed = 0 /\ 1 \in 1 .. Len(data) /\ Head(data) = data[1]
               /\ data[1].type = type /\ data[1] \in Frames
               /\ Len(gotV) \in Nat /\ sentA \in Nat
    BY <1>a, <1>c, NextDataFacts DEF Headed, TypeOK, WireTyped, VisitorTyped, AppTyped
  <1>1. CASE AppSends
    <2>1. ending # "app"  BY <1>1, <1>a DEF AppSends, AppLives, ClosedOver
    <2> QED BY <1>1, <2>1 DEF AppSends, Downlink!Next, Downlink!Send
  <1>2. CASE RecvMessage
    <2>1. CASE visitor = "open"
      <3>1. NextData("msg")  BY <1>2 DEF RecvMessage
      <3>2. /\ Headed = 0 /\ 1 \in 1 .. Len(data) /\ Head(data) = data[1]
            /\ data[1].type = "msg" /\ data[1] \in Frames
            /\ Len(gotV) \in Nat /\ sentA \in Nat
        BY <1>c, <2>1, <3>1
      <3>3. NoClose(data, 1)  BY <3>2 DEF NoClose
      <3>4. data[1].n + 0 = Len(gotV) + 1 /\ data[1].n \in Nat
        BY <1>a, <2>1, <3>2, <3>3, FrameKinds DEF RelayedNext, Awaited
      <3>5. data[1].n \in 1 .. sentA  BY <1>a, <3>2 DEF FramesDown
      <3>6. Head(data).n = Len(gotV) + 1 /\ Len(gotV) < sentA  BY <3>2, <3>4, <3>5
      <3> QED BY <1>2, <2>1, <3>6
             DEF RecvMessage, Downlink!Next, Downlink!Deliver, Downlink!Delivered
    <2>2. CASE visitor # "open"
      BY <1>2, <2>2, DownlinkStutter DEF RecvMessage
    <2> QED BY <2>1, <2>2
  <1>3. CASE RecvClose
    <2>1. CASE visitor = "open"
      <3>1. NextData("close")  BY <1>3 DEF RecvClose
      <3>2. /\ Headed = 0 /\ 1 \in 1 .. Len(data) /\ Head(data) = data[1]
            /\ data[1].type = "close" /\ data[1] \in Frames
            /\ Len(gotV) \in Nat /\ sentA \in Nat
        BY <1>c, <2>1, <3>1
      <3>3. visitor' = "closed" /\ ending' = data[1].code /\ UNCHANGED <<sentA, gotV>>
        BY <1>3, <2>1, <3>2 DEF RecvClose, CloseVisitor
      <3>4. CASE ending' = "app"
        <4>1. data[1] = Close("app")  BY <3>2, <3>3, <3>4, FrameKinds
        <4>2. NoClose(data, 1 - 1)  BY DEF NoClose
        <4>3. sentA + Headed + 1 = Len(gotV) + 1
          BY <1>a, <2>1, <3>2, <4>1, <4>2 DEF ClosedLast, Awaited
        <4>4. Len(gotV) = sentA  BY <3>2, <4>3
        <4> QED
          BY <1>b, <2>1, <3>3, <3>4, <4>4 DEF Downlink!Next, Downlink!End, Downlink!Ended
      <3>5. CASE ending' # "app"  BY <1>b, <2>1, <3>3, <3>5, DownlinkEnd
      <3> QED BY <3>4, <3>5
    <2>2. CASE visitor # "open"
      BY <1>3, <2>2, DownlinkStutter DEF RecvClose
    <2> QED BY <2>1, <2>2
  <1>4. ASSUME NEW how \in {"self", "error"}, CloseVisitor(how), visitor = "open",
               UNCHANGED <<sentA, gotV>>
        PROVE  [Downlink!Next]_(Downlink!vars)
    BY <1>4, <1>b, DownlinkEnd DEF CloseVisitor
  <1>5. ASSUME NEW refused \in BOOLEAN, VisitorSends(refused)
        PROVE  [Downlink!Next]_(Downlink!vars)
    <2>1. visitor = "open" /\ UNCHANGED <<sentA, gotV>>  BY <1>5 DEF VisitorSends
    <2>2. CloseVisitor("error") \/ UNCHANGED <<visitor, ending>>  BY <1>5 DEF VisitorSends
    <2> QED BY <1>4, <2>1, <2>2, DownlinkStutter
  <1>6. CASE VisitorCloses  BY <1>4, <1>6 DEF VisitorCloses
  <1>7. CASE Hibernate
    <2>1. \/ CloseVisitor("error") /\ visitor = "open"
          \/ UNCHANGED <<visitor, ending>>
      BY <1>7 DEF Hibernate
    <2>2. UNCHANGED <<sentA, gotV>>  BY <1>7 DEF Hibernate
    <2> QED BY <1>4, <2>1, <2>2, DownlinkStutter
  <1>8. CASE AgentGone
    <2>1. CASE visitor = "upgrading"
      BY <1>8, <2>1, DownlinkStutter DEF AgentGone
    <2>2. CASE visitor # "upgrading"
      BY <1>8, <1>b, <2>2, DownlinkEnd DEF AgentGone
    <2> QED BY <2>1, <2>2
  <1>9. CASE Upgrade \/ GiveUp \/ RecvResHead
    <2>1. UNCHANGED <<sentA, gotV, ending>>  BY <1>9 DEF Upgrade, GiveUp, RecvResHead
    <2>2. visitor' = visitor \/ (visitor # "closed" /\ visitor' # "closed")
      BY <1>9 DEF Upgrade, GiveUp, RecvResHead
    <2> QED BY <2>1, <2>2, DownlinkStutter
  <1>10. CASE \/ LinkDown \/ RecvAck
              \/ RecvReqHead \/ RecvFromEdge \/ RecvEdgeClose \/ RecvReset \/ RecvEdgeAck
              \/ Dial \/ DialFails \/ SessionOver \/ RunReturns
    BY <1>10, DownlinkStutter
       DEF LinkDown, RecvAck, RecvReqHead, RecvFromEdge, RecvEdgeClose, RecvReset,
           RecvEdgeAck, Dial, DialFails, SessionOver, RunReturns
  <1>11. CASE \/ Take \/ Drop \/ WriteDone \/ WriteFails \/ HandleClose \/ Wait \/ Woken
              \/ SeesLocalDone \/ Read \/ Relay \/ ReadFails \/ LocalCloses \/ Cancelled
              \/ AppEnds
    BY <1>11, DownlinkStutter
       DEF Take, Drop, WriteDone, WriteFails, HandleClose, Wait, Woken, SeesLocalDone,
           Read, Relay, ReadFails, LocalCloses, Cancelled, AppEnds
  <1>12. CASE UNCHANGED vars  BY <1>12, DownlinkStutter DEF vars
  <1> QED BY <1>1, <1>2, <1>3, <1>5, <1>6, <1>7, <1>8, <1>9, <1>10, <1>11, <1>12
         DEF Next, Edge, Agent

\* A relayed WebSocket is two pipes: either way messages arrive in order, each
\* once and without a gap, none after the end; and a visitor that sees the
\* application's own close has got all of its messages.
THEOREM RelayRefinesPipes == Spec => RelayIsTwoPipes
  <1>1. Init => Uplink!Init /\ Downlink!Init
    BY DEF Init, Uplink!Init, Downlink!Init
  <1> QED BY <1>1, RelayInvariant, UplinkStep, DownlinkStep, PTL
         DEF Spec, RelayIsTwoPipes, Uplink!Spec, Downlink!Spec
-----------------------------------------------------------------------------
(* Nothing is left behind: what keeps the relay moving.                    *)

\* A waiting pumpEdge has nothing to do, or a token in its wake channel.
Alert == edgePump = "waiting" /\ (inbox # <<>> \/ Closing) => wake

\* The edge only buffers when its credit is used up, and flushes all it can.
Backed == buffer # <<>> => outstanding = WS_MSG_CREDIT

\* What the agent has not acknowledged is in its inbox, or being written.
Owed == agent = "open" /\ ~Closing => unacked = Len(inbox) + Written

\* A visitor that is over has told the agent, or the agent's stream is over.
Said(frames, types) == \E i \in 1 .. Len(frames) : frames[i].type \in types

Informed ==
    VisitorOver /\ up =>
        agent = "ended" \/ Closing \/ Said(toAgent, {"close", "reset"})

\* While a visitor waits for the agent, no pump leaves without a word: the WS_CLOSE
\* that has been sent is still on its way, and pumpEdge, once a close is due, is
\* past its select, so that it cannot take localDone for it.
Telling ==
    Awaited /\ up =>
        /\ closeSent => Said(data, {"close"})
        /\ agent = "ended" => Said(data, {"close", "answer"})
        /\ agent = "open" /\ edgePump = "done" => closeSent
        /\ agent = "open" /\ localPump = "done" => closeSent \/ Closing
        /\ Closing => edgePump # "waiting"

\* A pumpEdge that has left, like a stream that is over, has closed the local
\* socket; no close is due before the stream is there.
Ended ==
    /\ edgePump = "done" \/ agent = "ended" => appClosed
    /\ agent = "none" => ~Closing

Lively == Alert /\ Backed /\ Owed /\ Informed /\ Telling /\ Ended

\* The goroutines of the agent have something to do: pumpEdge with what is in the
\* inbox, being written or to be closed, pumpLocal with what it reads or holds.
EdgePumpMoves ==
    \/ edgePump = "writing"
    \/ /\ inbox # <<>> \/ Closing
       /\ edgePump = "loop" \/ (edgePump = "waiting" /\ wake)

LocalPumpMoves ==
    \/ localPump = "closing"
    \/ localPump = "reading" /\ (broken \/ readA < sentA \/ appClosed)
    \/ localPump = "holding" /\ msgOut < WS_MSG_CREDIT

\* A message that is not there yet is on its way, or its credit is, or a goroutine
\* can take a step for it.
NoMessageStranded ==
    Healthy =>
        /\ ~Closing /\ ~appClosed /\ Len(gotA) < sentV =>
            toAgent # <<>> \/ acksToEdge > 0 \/ EdgePumpMoves
        /\ Len(gotV) < sentA =>
            data # <<>> \/ acksToAgent > 0 \/ EdgePumpMoves \/ LocalPumpMoves

\* Of an end that has closed the other end is told, or is about to be.
NoEndUntold ==
    /\ VisitorOver /\ up /\ ~AgentOver =>
        \/ Said(toAgent, {"close", "reset"})
        \/ agent = "dialing"
        \/ agent = "open" /\ (EdgePumpMoves \/ edgePump = "done")
    /\ appClosed /\ Awaited /\ up =>
        \/ data # <<>> \/ acksToAgent > 0
        \/ agent = "open" /\ (EdgePumpMoves \/ LocalPumpMoves)

LEMMA SaidAppend ==
    ASSUME NEW s \in Seq(Frames), NEW f \in Frames, NEW types, Said(s, types) \/ f.type \in types
    PROVE  Said(Append(s, f), types)
  <1>1. /\ Len(Append(s, f)) = Len(s) + 1 /\ Len(s) \in Nat
        /\ Append(s, f)[Len(s) + 1] = f
        /\ \A i \in 1 .. Len(s) : Append(s, f)[i] = s[i] /\ i \in 1 .. Len(s) + 1
    OBVIOUS
  <1>2. CASE Said(s, types)
    BY <1>1, <1>2 DEF Said
  <1>3. CASE f.type \in types
    <2>1. Len(s) + 1 \in 1 .. Len(Append(s, f))  BY <1>1
    <2> QED BY <1>1, <1>3, <2>1 DEF Said
  <1> QED BY <1>2, <1>3

LEMMA SaidNext ==
    ASSUME NEW s \in Seq(Frames), NEW t \in Seq(Frames), NEW types, Said(s, types),
           Len(s) > 0, s[1].type \notin types, Len(t) = Len(s) - 1,
           \A i \in 1 .. Len(t) : t[i] = s[i + 1]
    PROVE  Said(t, types)
  <1>1. PICK i \in 1 .. Len(s) : s[i].type \in types  BY DEF Said
  <1>2. i # 1 /\ i - 1 \in 1 .. Len(t) /\ (i - 1) + 1 = i  BY <1>1
  <1>3. t[i - 1] = s[i]  BY <1>2
  <1> QED BY <1>1, <1>2, <1>3 DEF Said

LEMMA SaidSend ==
    ASSUME TypeOK, NEW f \in Frames, Send(<<f>>), NEW types,
           Said(toAgent, types) \/ (up /\ f.type \in types)
    PROVE  Said(toAgent', types)
  <1>1. Len(toAgent) \in Nat  BY DEF TypeOK, WireTyped
  <1>2. CASE Said(toAgent, types)
    <2>1. PICK i \in 1 .. Len(toAgent) : toAgent[i].type \in types  BY <1>2 DEF Said
    <2>2. i \in 1 .. Len(toAgent') /\ toAgent'[i] = toAgent[i]  BY <1>1, SendOne
    <2> QED BY <2>1, <2>2 DEF Said
  <1>3. CASE up /\ f.type \in types
    <2>1. Len(toAgent) + 1 \in 1 .. Len(toAgent') /\ toAgent'[Len(toAgent) + 1] = f
      BY <1>1, <1>3, SendOne
    <2> QED BY <1>3, <2>1 DEF Said
  <1> QED BY <1>2, <1>3

LEMMA ClosesSaid ==
    ASSUME TypeOK, NEW how, CloseVisitor(how), up
    PROVE  Said(toAgent', {"close", "reset"})
  <1>1. Close("error") \in Frames /\ Close("error").type = "close"
    BY FrameKinds, FrameFields
  <1>2. Close("error").type \in {"close", "reset"}  BY <1>1
  <1>3. Send(<<Close("error")>>)  BY DEF CloseVisitor
  <1> QED BY <1>1, <1>2, <1>3, SaidSend

\* A message from the edge finds a stream that dialed, with room for it.
LEMMA MessageComes ==
    ASSUME RelayInv, RecvFromEdge
    PROVE  /\ visitor \in {"open", "closed"} /\ agent \in {"open", "ended"}
           /\ visitor = "open" /\ up /\ agent = "open" /\ ~Closing => unacked < WS_MSG_TOLERANCE
  <1>a. TypeOK /\ Unopened /\ Linked /\ FramesUp /\ EdgeCredit /\ Bounded
    BY DEF RelayInv, Stages, Framed
  <1>1. 1 \in 1 .. Len(toAgent) /\ toAgent[1].type = "msg"
    BY <1>a, NextFrameFacts DEF RecvFromEdge, TypeOK, WireTyped
  <1>2. sentV # 0  BY <1>a, <1>1 DEF FramesUp
  <1>3. visitor \in {"open", "closed"}
    BY <1>a, <1>2 DEF Unopened, TypeOK, VisitorTyped
  <1>4. agent \in {"open", "ended"}  BY <1>a, <1>3 DEF Linked
  <1>5. ASSUME visitor = "open", up, agent = "open", ~Closing PROVE unacked < WS_MSG_TOLERANCE
    <2>1. outstanding = Len(toAgent) + unacked + acksToEdge /\ outstanding <= WS_MSG_CREDIT
      BY <1>a, <1>5 DEF EdgeCredit, Bounded
    <2>2. Len(toAgent) \in Nat /\ unacked \in Nat /\ acksToEdge \in Nat /\ Len(toAgent) > 0
      BY <1>a, <1>1 DEF TypeOK, WireTyped, StreamTyped
    <2> QED BY <2>1, <2>2, CreditAssumption
  <1> QED BY <1>3, <1>4, <1>5

LEMMA AlertStep == RelayInv /\ Lively /\ [Next]_vars => Alert'
  <1> SUFFICES ASSUME RelayInv, Lively, [Next]_vars PROVE Alert'  OBVIOUS
  <1> USE DEF visitorVars, wireVars, pumpVars, inVars, appVars
  <1>a. Alert /\ Linked  BY DEF RelayInv, Stages, Lively
  <1>0. UNCHANGED <<edgePump, inbox, wake, remoteClose, localReq>> => Alert'
    BY <1>a DEF Alert, Closing
  <1>1. CASE RecvFromEdge \/ RecvEdgeClose \/ RecvReset
    BY <1>a, <1>1
       DEF RecvFromEdge, RecvEdgeClose, RecvReset, Alert, Closing, Linked, Running
  <1>2. CASE \/ Take \/ Drop \/ WriteDone \/ WriteFails \/ HandleClose \/ Wait \/ Woken
             \/ SeesLocalDone \/ SessionOver
    BY <1>2
       DEF Take, Drop, WriteDone, WriteFails, HandleClose, Wait, Woken, SeesLocalDone,
           SessionOver, Alert, Closing
  <1>3. CASE ReadFails \/ LocalCloses
    BY <1>a, <1>3 DEF ReadFails, LocalCloses, Alert, Closing
  <1>4. CASE \/ Upgrade \/ GiveUp \/ VisitorCloses \/ Hibernate \/ LinkDown \/ AgentGone
             \/ (\E refused \in BOOLEAN : VisitorSends(refused))
             \/ RecvAck \/ RecvResHead \/ RecvMessage \/ RecvClose
             \/ RecvReqHead \/ RecvEdgeAck \/ Dial \/ DialFails \/ RunReturns
             \/ Read \/ Relay \/ Cancelled \/ AppSends \/ AppEnds \/ UNCHANGED vars
    BY <1>0, <1>4
       DEF Upgrade, GiveUp, VisitorCloses, Hibernate, LinkDown, AgentGone, VisitorSends,
           RecvAck, RecvResHead, RecvMessage, RecvClose, RecvReqHead, RecvEdgeAck, Dial,
           DialFails, RunReturns, Read, Relay, Cancelled, AppSends, AppEnds, vars
  <1> QED BY <1>1, <1>2, <1>3, <1>4 DEF Next, Edge, Agent

LEMMA BackedStep == RelayInv /\ Lively /\ [Next]_vars => Backed'
  <1> SUFFICES ASSUME RelayInv, Lively, [Next]_vars PROVE Backed'  OBVIOUS
  <1> USE DEF visitorVars, wireVars, pumpVars, inVars, appVars
  <1>a. Backed /\ TypeOK /\ Bounded  BY DEF RelayInv, Stages, Lively
  <1>0. UNCHANGED <<buffer, outstanding>> => Backed'  BY <1>a DEF Backed
  <1>b. ASSUME NEW how, CloseVisitor(how) PROVE Backed'
    BY <1>b DEF CloseVisitor, Backed
  <1>1. ASSUME NEW refused \in BOOLEAN, VisitorSends(refused) PROVE Backed'
    BY <1>1, <1>a, <1>b DEF VisitorSends, Backed
  <1>2. CASE VisitorCloses  BY <1>2, <1>b DEF VisitorCloses
  <1>3. CASE Hibernate
    <2>1. CloseVisitor("error") \/ buffer' = <<>>  BY <1>3 DEF Hibernate
    <2> QED BY <1>b, <2>1 DEF Backed
  <1>4. CASE RecvClose
    BY <1>4, <1>0, <1>b DEF RecvClose
  <1>5. CASE AgentGone
    BY <1>5, <1>0 DEF AgentGone, Backed
  <1>6. CASE RecvAck
    <2> DEFINE left == IF outstanding = 0 THEN 0 ELSE outstanding - 1
               k == Least(Len(buffer), WS_MSG_CREDIT - left)
    <2>1. /\ outstanding' = left + k
          /\ buffer' = SubSeq(buffer, k + 1, Len(buffer))
      BY <1>6 DEF RecvAck
    <2>2. left \in Nat /\ WS_MSG_CREDIT - left \in Nat /\ Len(buffer) \in Nat
      BY <1>a, CreditAssumption DEF TypeOK, VisitorTyped, Bounded
    <2>3. CASE k = Len(buffer)
      <3>1. buffer \in Seq(Nat)  BY <1>a DEF TypeOK, VisitorTyped
      <3>2. buffer' = <<>>  BY <2>1, <2>2, <2>3, <3>1
      <3> QED BY <3>2 DEF Backed
    <2>4. CASE k = WS_MSG_CREDIT - left
      <3>1. outstanding' = WS_MSG_CREDIT
        BY <2>1, <2>2, <2>4, CreditAssumption
      <3> QED BY <3>1 DEF Backed
    <2> QED BY <2>3, <2>4 DEF Least
  <1>7. CASE \/ Upgrade \/ GiveUp \/ LinkDown \/ RecvResHead \/ RecvMessage \/ Agent
             \/ AppSends \/ AppEnds \/ UNCHANGED vars
    <2>1. UNCHANGED visitorVars \/ UNCHANGED <<buffer, outstanding>>
      BY <1>7
         DEF Agent, Upgrade, GiveUp, LinkDown, RecvResHead, RecvMessage, RecvReqHead,
             RecvFromEdge, RecvEdgeClose, RecvReset, RecvEdgeAck, Dial, DialFails,
             SessionOver, RunReturns, Take, Drop, WriteDone, WriteFails, HandleClose, Wait,
             Woken, SeesLocalDone, Read, Relay, ReadFails, LocalCloses, Cancelled,
             AppSends, AppEnds, vars
    <2> QED BY <1>0, <2>1
  <1> QED BY <1>1, <1>2, <1>3, <1>4, <1>5, <1>6, <1>7 DEF Next, Edge

LEMMA OwedStep == RelayInv /\ Lively /\ [Next]_vars => Owed'
  <1> SUFFICES ASSUME RelayInv, Lively, [Next]_vars PROVE Owed'  OBVIOUS
  <1> USE DEF visitorVars, wireVars, pumpVars, inVars, appVars
  <1>a. Owed /\ TypeOK /\ Undialed /\ Unopened /\ Linked
    BY DEF RelayInv, Stages, Lively
  <1>b. inbox \in Seq(Nat) /\ Len(inbox) \in Nat /\ unacked \in Nat
    BY <1>a DEF TypeOK, StreamTyped
  <1>0. UNCHANGED <<edgePump, inbox, unacked, agent, remoteClose, localReq>> => Owed'
    BY <1>a DEF Owed, Closing, Written
  <1>1. CASE RecvFromEdge
    <2>0. toAgent # <<>> /\ Head(toAgent) = toAgent[1] /\ toAgent[1] \in Frames
      BY <1>a, <1>1, NextFrameFacts DEF RecvFromEdge
    <2>1. \A n : Len(Append(inbox, n)) = Len(inbox) + 1  BY <1>b
    <2>2. CASE Running /\ unacked < WS_MSG_TOLERANCE
      <3>1. unacked' = unacked + 1 /\ Len(inbox') = Len(inbox) + 1
            /\ UNCHANGED <<edgePump, agent, remoteClose, localReq>>
        BY <1>1, <1>b, <2>1, <2>2, CreditAssumption DEF RecvFromEdge
      <3> QED BY <1>a, <1>b, <3>1 DEF Owed, Closing, Written
    <2>3. CASE Running /\ ~(unacked < WS_MSG_TOLERANCE)
      <3>1. localReq'  BY <1>1, <1>b, <2>3, CreditAssumption DEF RecvFromEdge
      <3> QED BY <3>1 DEF Owed, Closing
    <2>4. CASE ~Running
      BY <1>1, <2>4 DEF RecvFromEdge, Owed, Running
    <2> QED BY <2>2, <2>3, <2>4
  <1>2. CASE RecvEdgeClose \/ RecvReset
    BY <1>a, <1>2 DEF RecvEdgeClose, RecvReset, Owed, Closing, Written, Running
  <1>3. CASE Dial
    <2>1. visitor \in {"none", "upgrading", "refused"}
      BY <1>a, <1>3 DEF Dial, Linked, TypeOK, VisitorTyped
    <2>2. unacked = 0 /\ inbox = <<>> /\ edgePump = "loop"
      BY <1>a, <1>3, <2>1 DEF Dial, Unopened, Undialed
    <2> QED BY <1>3, <2>2 DEF Dial, Owed, Written
  <1>4. CASE Take
    <2>1. Len(inbox') = Len(inbox) - 1  BY <1>4, <1>b DEF Take
    <2> QED BY <1>a, <1>b, <1>4, <2>1 DEF Take, Owed, Closing, Written
  <1>5. CASE Drop \/ WriteFails  BY <1>5 DEF Drop, WriteFails, Owed, Closing
  <1>6. CASE WriteDone
    BY <1>a, <1>b, <1>6 DEF WriteDone, Owed, Closing, Written
  <1>7. CASE HandleClose  BY <1>7 DEF HandleClose, Owed, Closing
  <1>8. CASE Wait \/ Woken \/ SeesLocalDone
    BY <1>a, <1>8 DEF Wait, Woken, SeesLocalDone, Owed, Closing, Written
  <1>9. CASE RecvReqHead \/ DialFails \/ RunReturns \/ SessionOver
    BY <1>9 DEF RecvReqHead, DialFails, RunReturns, SessionOver, Owed
  <1>10. CASE \/ Upgrade \/ GiveUp \/ VisitorCloses \/ Hibernate \/ LinkDown \/ AgentGone
              \/ (\E refused \in BOOLEAN : VisitorSends(refused))
              \/ RecvAck \/ RecvResHead \/ RecvMessage \/ RecvClose \/ RecvEdgeAck
              \/ Read \/ Relay \/ ReadFails \/ LocalCloses \/ Cancelled
              \/ AppSends \/ AppEnds \/ UNCHANGED vars
    BY <1>0, <1>10
       DEF Upgrade, GiveUp, VisitorCloses, Hibernate, LinkDown, AgentGone, VisitorSends,
           RecvAck, RecvResHead, RecvMessage, RecvClose, RecvEdgeAck, Read, Relay,
           ReadFails, LocalCloses, Cancelled, AppSends, AppEnds, vars
  <1> QED BY <1>1, <1>2, <1>3, <1>4, <1>5, <1>6, <1>7, <1>8, <1>9, <1>10
         DEF Next, Edge, Agent

LEMMA EndedStep == RelayInv /\ Lively /\ [Next]_vars => Ended'
  <1> SUFFICES ASSUME RelayInv, Lively, [Next]_vars PROVE Ended'  OBVIOUS
  <1> USE DEF visitorVars, wireVars, pumpVars, inVars, appVars
  <1>a. Ended /\ Linked  BY DEF RelayInv, Stages, Lively
  <1>0. UNCHANGED <<edgePump, agent, appClosed, remoteClose, localReq>> => Ended'
    BY <1>a DEF Ended, Closing
  <1>1. CASE RecvFromEdge \/ RecvEdgeClose \/ RecvReset
    <2>1. remoteClose \in BOOLEAN /\ localReq \in BOOLEAN
      BY DEF RelayInv, TypeOK, StreamTyped
    <2>2. UNCHANGED <<edgePump, agent, appClosed>>
      BY <1>1 DEF RecvFromEdge, RecvEdgeClose, RecvReset
    <2>3. agent = "none" => UNCHANGED <<remoteClose, localReq>>
      BY <1>1, <2>1 DEF RecvFromEdge, RecvEdgeClose, RecvReset, Running
    <2> QED BY <1>a, <2>2, <2>3 DEF Ended, Closing
  <1>2. CASE RecvReqHead \/ Dial \/ DialFails \/ RunReturns \/ SessionOver
    BY <1>a, <1>2 DEF RecvReqHead, Dial, DialFails, RunReturns, SessionOver, Ended, Running
  <1>3. CASE Take \/ Drop \/ WriteDone \/ WriteFails \/ HandleClose
    BY <1>a, <1>3
       DEF Take, Drop, WriteDone, WriteFails, HandleClose, SendClose, Ended, Linked, Closing
  <1>4. CASE Wait \/ Woken \/ SeesLocalDone \/ AppEnds
    BY <1>a, <1>4 DEF Wait, Woken, SeesLocalDone, AppEnds, AppLives, Ended, Closing
  <1>5. CASE \/ Upgrade \/ GiveUp \/ VisitorCloses \/ Hibernate \/ LinkDown \/ AgentGone
             \/ (\E refused \in BOOLEAN : VisitorSends(refused))
             \/ RecvAck \/ RecvResHead \/ RecvMessage \/ RecvClose \/ RecvEdgeAck
             \/ Read \/ Relay \/ ReadFails \/ LocalCloses \/ Cancelled
             \/ AppSends \/ UNCHANGED vars
    BY <1>0, <1>5
       DEF Upgrade, GiveUp, VisitorCloses, Hibernate, LinkDown, AgentGone, VisitorSends,
           RecvAck, RecvResHead, RecvMessage, RecvClose, RecvEdgeAck, Read, Relay,
           ReadFails, LocalCloses, Cancelled, AppSends, vars
  <1> QED BY <1>1, <1>2, <1>3, <1>4, <1>5 DEF Next, Edge, Agent

\* What leaves the visitor and the wire alone, and ends or closes at most.
LEMMA InformedStays ==
    ASSUME Informed, UNCHANGED <<visitor, up, toAgent>>, agent = "ended" => agent' = "ended",
           Closing => Closing'
    PROVE  Informed'
  BY DEF Informed, VisitorOver

LEMMA InformedStep == RelayInv /\ Lively /\ [Next]_vars => Informed'
  <1> SUFFICES ASSUME RelayInv, Lively, [Next]_vars PROVE Informed'  OBVIOUS
  <1> USE DEF visitorVars, wireVars, pumpVars, inVars, appVars
  <1>a. TypeOK /\ Informed /\ FramesUp /\ FramesDown /\ Bounded
    BY DEF RelayInv, Stages, Framed, Lively
  <1>b. toAgent \in Seq(Frames) /\ remoteClose \in BOOLEAN /\ localReq \in BOOLEAN
    BY <1>a DEF TypeOK, WireTyped, StreamTyped
  <1>c. ASSUME NEW how, CloseVisitor(how), UNCHANGED up PROVE Informed'
    BY <1>a, <1>c, ClosesSaid DEF Informed
  <1>d. ASSUME NEW type, NextFrame(type), type \notin {"close", "reset"},
               Said(toAgent, {"close", "reset"})
        PROVE  Said(toAgent', {"close", "reset"})
    BY <1>a, <1>b, <1>d, NextFrameFacts, SaidNext
  <1>1. CASE Upgrade  BY <1>1 DEF Upgrade, Informed, VisitorOver
  <1>2. CASE GiveUp
    <2>1. Reset \in Frames /\ Reset.type \in {"close", "reset"}  BY FrameKinds, FrameFields
    <2> QED BY <1>a, <1>2, <2>1, SaidSend DEF GiveUp, Informed
  <1>3. CASE VisitorCloses  BY <1>3, <1>c DEF VisitorCloses
  <1>4. CASE Hibernate
    <2>1. CASE CloseVisitor("error")  BY <1>4, <1>c, <2>1 DEF Hibernate
    <2>2. CASE UNCHANGED <<visitor, toAgent>>
      BY <1>4, <1>a, <2>2, InformedStays DEF Hibernate, Closing
    <2> QED BY <1>4, <2>1, <2>2 DEF Hibernate
  <1>5. ASSUME NEW refused \in BOOLEAN, VisitorSends(refused) PROVE Informed'
    <2>1. visitor = "open" /\ UNCHANGED up  BY <1>5 DEF VisitorSends
    <2> QED BY <1>5, <1>c, <2>1, SendsCases DEF Informed, VisitorOver
  <1>6. CASE LinkDown  BY <1>6 DEF LinkDown, Informed
  <1>7. CASE AgentGone  BY <1>7 DEF AgentGone, Informed
  <1>8. CASE RecvAck
    <2>1. PICK k \in 0 .. Len(buffer) : FlushSome(k)
      BY <1>a, <1>8, RecvAckFlushes DEF Bounded
    <2>2. Len(toAgent) \in Nat /\ k \in Nat  BY <1>a DEF TypeOK, WireTyped, VisitorTyped
    <2>3. up => /\ Len(toAgent') = Len(toAgent) + k
                /\ \A i \in 1 .. Len(toAgent) : toAgent'[i] = toAgent[i]
      BY <1>a, <2>1, FlushFacts
    <2>4. up /\ Said(toAgent, {"close", "reset"}) => Said(toAgent', {"close", "reset"})
      BY <2>2, <2>3 DEF Said
    <2> QED BY <1>8, <1>a, <2>4 DEF RecvAck, Informed, VisitorOver, Closing
  <1>9. CASE RecvResHead
    <2>1. UNCHANGED <<up, toAgent, agent, remoteClose, localReq>>  BY <1>9 DEF RecvResHead
    <2>2. CASE UNCHANGED visitor  BY <1>a, <2>1, <2>2, InformedStays DEF Closing
    <2>3. CASE visitor' = "open"  BY <2>3 DEF Informed, VisitorOver
    <2>4. CASE visitor = "upgrading" /\ NextData("answer")
      <3>1. 1 \in 1 .. Len(data) /\ data[1].type = "answer"
        BY <1>a, <2>4, NextDataFacts DEF TypeOK, WireTyped
      <3>2. agent = "ended"  BY <1>a, <3>1 DEF FramesDown
      <3> QED BY <2>1, <3>2 DEF Informed
    <2> QED BY <1>9, <2>2, <2>3, <2>4 DEF RecvResHead
  <1>10. CASE RecvClose
    <2>1. CASE visitor = "open"  BY <1>10, <1>c, <2>1 DEF RecvClose
    <2>2. CASE visitor # "open"
      BY <1>10, <1>a, <2>2, InformedStays DEF RecvClose, Closing
    <2> QED BY <2>1, <2>2
  <1>11. CASE RecvReqHead
    <2>1. 1 \in 1 .. Len(toAgent) /\ toAgent[1].type = "head"
      BY <1>a, <1>11, NextFrameFacts DEF RecvReqHead, TypeOK, WireTyped
    <2>2. agent = "none"  BY <1>a, <2>1 DEF FramesUp
    <2> QED BY <1>11, <1>a, <1>d, <2>2 DEF RecvReqHead, Informed, VisitorOver, Closing
  <1>12. CASE RecvFromEdge
    <2>1. Closing => Closing'  BY <1>12 DEF RecvFromEdge, Closing
    <2> QED BY <1>12, <1>a, <1>d, <2>1 DEF RecvFromEdge, Informed, VisitorOver
  <1>13. CASE RecvEdgeClose \/ RecvReset
    <2>1. toAgent # <<>> /\ toAgent[1].type \in {"close", "reset"}
      BY <1>a, <1>13, NextFrameFacts DEF RecvEdgeClose, RecvReset
    <2>2. agent # "none"  BY <1>a, <2>1 DEF FramesUp
    <2>3. agent = "ended" \/ Running  BY <1>a, <2>2 DEF TypeOK, PumpTyped, Running
    <2>4. UNCHANGED agent /\ (Running => Closing')
      BY <1>13 DEF RecvEdgeClose, RecvReset, Closing
    <2> QED BY <2>3, <2>4 DEF Informed
  <1>14. CASE \/ Dial \/ DialFails \/ SessionOver \/ RunReturns \/ Take \/ Drop \/ WriteDone
              \/ WriteFails \/ HandleClose \/ Wait \/ Woken \/ SeesLocalDone
    <2>1. UNCHANGED <<visitor, up, toAgent>>
      BY <1>14
         DEF Dial, DialFails, SessionOver, RunReturns, Take, Drop, WriteDone, WriteFails,
             HandleClose, Wait, Woken, SeesLocalDone
    <2>2. agent = "ended" => agent' = "ended"
      BY <1>14
         DEF Dial, DialFails, SessionOver, RunReturns, Take, Drop, WriteDone, WriteFails,
             HandleClose, Wait, Woken, SeesLocalDone
    <2>3. Closing => Closing'
      BY <1>14
         DEF Dial, DialFails, SessionOver, RunReturns, Take, Drop, WriteDone, WriteFails,
             HandleClose, Wait, Woken, SeesLocalDone, Closing
    <2> QED BY <1>a, <2>1, <2>2, <2>3, InformedStays
  <1>15. CASE \/ RecvMessage \/ RecvEdgeAck \/ Read \/ Relay \/ ReadFails \/ LocalCloses
              \/ Cancelled \/ AppSends \/ AppEnds \/ UNCHANGED vars
    <2>1. UNCHANGED <<visitor, up, toAgent, agent, remoteClose, localReq>>
      BY <1>15
         DEF RecvMessage, RecvEdgeAck, Read, Relay, ReadFails, LocalCloses, Cancelled,
             AppSends, AppEnds, vars
    <2> QED BY <1>a, <2>1, InformedStays DEF Closing
  <1> QED BY <1>1, <1>2, <1>3, <1>4, <1>5, <1>6, <1>7, <1>8, <1>9, <1>10, <1>11, <1>12,
             <1>13, <1>14, <1>15 DEF Next, Edge, Agent

\* Said is about the frames; what takes none of them and ends nothing keeps Telling.
LEMMA TellingStays ==
    ASSUME Telling, Awaited' /\ up' => Awaited /\ up,
           UNCHANGED <<data, agent, edgePump, localPump, closeSent, remoteClose, localReq>>
    PROVE  Telling'
  BY DEF Telling, Closing

\* A frame that says nothing of an end is taken.
LEMMA TellingTakes ==
    ASSUME TypeOK, Telling, NEW type, NextData(type), type \notin {"close", "answer"},
           Awaited' => Awaited,
           UNCHANGED <<up, agent, edgePump, localPump, closeSent, remoteClose, localReq>>
    PROVE  Telling'
  <1>1. data \in Seq(Frames)  BY DEF TypeOK, WireTyped
  <1>2. \A types \in {{"close"}, {"close", "answer"}} :
           type \notin types /\ Said(data, types) => Said(data', types)
    BY <1>1, NextDataFacts, SaidNext
  <1> QED BY <1>2 DEF Telling, Closing

LEMMA TellingStep == RelayInv /\ Lively /\ [Next]_vars => Telling'
  <1> SUFFICES ASSUME RelayInv, Lively, [Next]_vars PROVE Telling'  OBVIOUS
  <1> USE DEF visitorVars, wireVars, pumpVars, inVars, appVars
  <1>a. TypeOK /\ Telling /\ FramesUp /\ FramesDown /\ Undialed /\ Linked /\ Severed
    BY DEF RelayInv, Stages, Framed, Lively
  <1>b. data \in Seq(Frames) /\ closeSent \in BOOLEAN
    BY <1>a DEF TypeOK, WireTyped, PumpTyped
  <1>1. CASE Upgrade
    <2>1. agent = "none" /\ ~closeSent /\ edgePump = "loop"
      BY <1>a, <1>1 DEF Upgrade, Linked, Undialed
    <2> QED BY <1>1, <2>1 DEF Upgrade, Telling
  <1>2. CASE GiveUp \/ VisitorCloses
    BY <1>2 DEF GiveUp, VisitorCloses, CloseVisitor, Telling, Awaited
  <1>3. CASE Hibernate
    <2>1. Awaited' => Awaited  BY <1>3 DEF Hibernate, CloseVisitor, Awaited
    <2> QED BY <1>a, <1>3, <2>1, TellingStays DEF Hibernate
  <1>4. ASSUME NEW refused \in BOOLEAN, VisitorSends(refused) PROVE Telling'
    <2>1. Awaited  BY <1>4 DEF VisitorSends, Awaited
    <2> QED BY <1>a, <1>4, <2>1, TellingStays DEF VisitorSends
  <1>5. CASE LinkDown \/ AgentGone  BY <1>5 DEF LinkDown, AgentGone, Telling
  <1>6. CASE RecvAck \/ RecvEdgeAck
    BY <1>a, <1>6, TellingStays DEF RecvAck, RecvEdgeAck, Awaited
  <1>7. CASE RecvResHead
    <2>1. PICK type \in {"head", "answer"} :
                NextData(type)
             /\ visitor' = IF visitor # "upgrading" THEN visitor
                           ELSE IF type = "head" THEN "open" ELSE "refused"
      BY <1>7 DEF RecvResHead
    <2>2. 1 \in 1 .. Len(data) /\ data[1].type \in {"head", "answer"}
      BY <1>a, <2>1, NextDataFacts DEF TypeOK, WireTyped
    <2>3. visitor \in {"upgrading", "refused"}  BY <1>a, <2>2 DEF FramesDown
    <2>4. CASE type = "head"
      BY <1>a, <1>7, <2>1, <2>3, <2>4, TellingTakes DEF RecvResHead, Awaited
    <2>5. CASE type = "answer"
      <3>1. visitor' = "refused"  BY <2>1, <2>3, <2>5
      <3> QED BY <3>1 DEF Telling, Awaited
    <2> QED BY <2>4, <2>5
  <1>8. CASE RecvMessage
    BY <1>a, <1>8, TellingTakes DEF RecvMessage, Awaited
  <1>9. CASE RecvClose
    <2>1. data # <<>> /\ data[1].type = "close"
      BY <1>a, <1>9, NextDataFacts DEF RecvClose
    <2>2. visitor # "upgrading"  BY <1>a, <2>1, NotUpgrading
    <2>3. ~Awaited'  BY <1>9, <2>2 DEF RecvClose, CloseVisitor, Awaited
    <2> QED BY <2>3 DEF Telling
  <1>10. CASE RecvReqHead
    <2>1. 1 \in 1 .. Len(toAgent) /\ toAgent[1].type = "head"
      BY <1>a, <1>10, NextFrameFacts DEF RecvReqHead, TypeOK, WireTyped
    <2>2. agent = "none"  BY <1>a, <2>1 DEF FramesUp
    <2>3. ~closeSent /\ edgePump = "loop"  BY <1>a, <2>2 DEF Undialed
    <2> QED BY <1>10, <2>3 DEF RecvReqHead, Telling
  <1>11. CASE RecvFromEdge
    <2>1. UNCHANGED <<visitor, up, data, agent, edgePump, localPump, closeSent, remoteClose>>
      BY <1>11 DEF RecvFromEdge
    <2>2. CASE UNCHANGED localReq  BY <1>a, <2>1, <2>2, TellingStays DEF Awaited
    <2>3. CASE Running /\ unacked >= WS_MSG_TOLERANCE
      <3>1. agent = "open" /\ visitor # "upgrading"
        BY <1>11, <2>3, MessageComes DEF Running
      <3>2. visitor = "open" /\ up => Closing
        <4>1. unacked \in Nat /\ WS_MSG_TOLERANCE \in Nat
          BY <1>a, CreditAssumption DEF TypeOK, StreamTyped
        <4> QED BY <1>11, <2>3, <3>1, <4>1, MessageComes
      <3>3. Awaited /\ up => Closing  BY <3>1, <3>2 DEF Awaited
      <3>4. Closing => Closing'  BY <1>11 DEF RecvFromEdge, Closing
      <3> QED BY <1>a, <2>1, <3>3, <3>4 DEF Telling, Awaited
    <2> QED BY <1>11, <2>2, <2>3 DEF RecvFromEdge
  <1>12. CASE RecvEdgeClose \/ RecvReset
    <2>1. 1 \in 1 .. Len(toAgent) /\ toAgent[1].type \in {"close", "reset"}
      BY <1>a, <1>12, NextFrameFacts DEF RecvEdgeClose, RecvReset, TypeOK, WireTyped
    <2>2. visitor \in {"closed", "refused"}  BY <1>a, <2>1 DEF FramesUp
    <2> QED BY <1>12, <2>2 DEF RecvEdgeClose, RecvReset, Telling, Awaited
  <1>13. CASE Dial
    BY <1>a, <1>13 DEF Dial, Telling, Undialed
  <1>14. CASE DialFails
    <2>1. Answer \in Frames /\ Answer.type \in {"close", "answer"}  BY FrameKinds, FrameFields
    <2>2. Said(data', {"close", "answer"})  BY <1>b, <1>14, <2>1, SaidAppend DEF DialFails
    <2>3. ~closeSent /\ edgePump = "loop"  BY <1>a, <1>14 DEF DialFails, Undialed
    <2> QED BY <1>14, <2>2, <2>3 DEF DialFails, Telling
  <1>15. CASE SessionOver  BY <1>15 DEF SessionOver, Telling
  <1>16. CASE RunReturns
    <2>1. Said(data, {"close"}) => Said(data, {"close", "answer"})  BY DEF Said
    <2> QED BY <1>a, <1>16, <2>1 DEF RunReturns, Telling, Awaited, Closing
  <1>17. CASE Take \/ Drop \/ WriteDone \/ WriteFails
    <2>1. edgePump' \in {"loop", "writing"}
          /\ UNCHANGED <<visitor, up, data, agent, localPump, closeSent>>
      BY <1>17 DEF Take, Drop, WriteDone, WriteFails
    <2>2. Closing => Closing'
      BY <1>17 DEF Take, Drop, WriteDone, WriteFails, Closing
    <2> QED BY <1>a, <2>1, <2>2 DEF Telling, Awaited
  <1>18. CASE Wait \/ Woken
    BY <1>a, <1>18 DEF Wait, Woken, Telling, Awaited, Closing
  <1>19. CASE SeesLocalDone
    BY <1>a, <1>19 DEF SeesLocalDone, Telling, Awaited, Closing, Linked
  <1>c. ASSUME NEW code \in {"app", "error"}, SendClose(code), UNCHANGED <<visitor, up>>
        PROVE  /\ closeSent'
               /\ Awaited /\ up => Said(data', {"close"}) /\ Said(data', {"close", "answer"})
    <2>1. Close(code) \in Frames /\ Close(code).type = "close"
      BY <1>c, FrameKinds, FrameFields
    <2>2. CASE up /\ ~closeSent
      <3>1. data' = Append(data, Close(code)) /\ closeSent'  BY <1>c, <2>2 DEF SendClose
      <3> QED BY <1>b, <2>1, <3>1, SaidAppend
    <2>3. CASE ~up \/ closeSent
      <3>1. data' = data /\ closeSent'  BY <1>c, <2>3 DEF SendClose
      <3>2. Awaited /\ up => Said(data, {"close"})  BY <1>a, <2>3 DEF Telling
      <3> QED BY <3>1, <3>2 DEF Said
    <2> QED BY <1>b, <2>2, <2>3
  <1>20. CASE HandleClose
    <2>1. closeSent' /\ (Awaited /\ up => Said(data', {"close"}))
      BY <1>20, <1>c DEF HandleClose
    <2> QED BY <1>20, <2>1 DEF HandleClose, Telling, Awaited
  <1>21. CASE LocalCloses
    <2>1. /\ closeSent'
          /\ Awaited /\ up => Said(data', {"close"}) /\ Said(data', {"close", "answer"})
      BY <1>a, <1>21, <1>c DEF LocalCloses, TypeOK, PumpTyped
    <2> QED BY <1>a, <1>21, <2>1 DEF LocalCloses, Telling, Awaited, Closing
  <1>22. CASE Read  BY <1>a, <1>22 DEF Read, Telling, Awaited, Closing
  <1>23. CASE Relay
    <2>1. readA \in Nat  BY <1>a DEF TypeOK, StreamTyped
    <2>2. Message(readA) \in Frames  BY <2>1, FrameKinds
    <2>3. \A types \in {{"close"}, {"close", "answer"}} :
             Said(data, types) => Said(data', types)
      BY <1>b, <1>23, <2>2, SaidAppend DEF Relay
    <2> QED BY <1>a, <1>23, <2>3 DEF Relay, Telling, Awaited, Closing
  <1>24. CASE ReadFails
    BY <1>a, <1>24 DEF ReadFails, Telling, Awaited, Closing
  <1>25. CASE Cancelled
    BY <1>a, <1>25 DEF Cancelled, Telling, Awaited, Closing
  <1>26. CASE AppSends \/ AppEnds \/ UNCHANGED vars
    BY <1>a, <1>26, TellingStays DEF AppSends, AppEnds, vars, Awaited
  <1> QED BY <1>1, <1>2, <1>3, <1>4, <1>5, <1>6, <1>7, <1>8, <1>9, <1>10, <1>11, <1>12,
             <1>13, <1>14, <1>15, <1>16, <1>17, <1>18, <1>19, <1>20, <1>21, <1>22, <1>23,
             <1>24, <1>25, <1>26 DEF Next, Edge, Agent

LEMMA LivelyInit == Init => Lively
  <1> SUFFICES ASSUME Init PROVE Lively  OBVIOUS
  <1>1. /\ edgePump = "loop" /\ buffer = <<>> /\ agent = "none" /\ visitor = "none"
        /\ ~remoteClose /\ ~localReq
    BY DEF Init
  <1> QED BY <1>1 DEF Lively, Alert, Backed, Owed, Informed, Telling, Ended, VisitorOver,
                      Awaited, Closing

LEMMA LivelyInvariant == Spec => [](RelayInv /\ Lively)
  <1>1. RelayInv /\ Lively /\ [Next]_vars => (RelayInv /\ Lively)'
    <2> SUFFICES ASSUME RelayInv, Lively, [Next]_vars PROVE RelayInv' /\ Lively'
      OBVIOUS
    <2>1. RelayInv'  BY RelayInvStep
    <2>2. Alert' /\ Backed' /\ Owed'  BY AlertStep, BackedStep, OwedStep
    <2>3. Informed' /\ Telling' /\ Ended'  BY InformedStep, TellingStep, EndedStep
    <2> QED BY <2>1, <2>2, <2>3 DEF Lively
  <1> QED BY <1>1, RelayInvInit, LivelyInit, PTL DEF Spec

\* A pumpEdge that has work does it, or has a token to wake it.
LEMMA PumpWorks ==
    ASSUME RelayInv, Lively, agent = "open", edgePump # "done", inbox # <<>> \/ Closing
    PROVE  EdgePumpMoves
  <1>1. edgePump \in {"loop", "waiting", "writing"}
    BY DEF RelayInv, TypeOK, PumpTyped
  <1> QED BY <1>1 DEF Lively, Alert, EdgePumpMoves

\* While the visitor waits, a pumpLocal that has stopped leaves its work to pumpEdge.
LEMMA PumpsDone ==
    ASSUME RelayInv, Lively, Awaited, up, agent = "open", data = <<>>, localPump = "done"
    PROVE  EdgePumpMoves
  <1>1. ~Said(data, {"close"})  BY DEF Said
  <1>2. ~closeSent  BY <1>1 DEF Lively, Telling
  <1>3. Closing /\ edgePump # "done"  BY <1>2 DEF Lively, Telling
  <1> QED BY <1>3, PumpWorks

\* With nothing from the agent under way pumpLocal has all of its credit.
LEMMA CreditIsBack ==
    ASSUME RelayInv, Awaited, up, agent = "open", data = <<>>, acksToAgent = 0
    PROVE  msgOut < WS_MSG_CREDIT
  <1>1. msgOut = Messages(data) + acksToAgent  BY DEF RelayInv, AgentCredit
  <1> QED BY <1>1, MessagesNone, CreditAssumption

\* For any credit, tolerance and number of messages: a message that is not there yet
\* always has somebody to move it.  A frame or an ACK is under way, or a goroutine of
\* the agent can take its next step: the edge's buffer never waits for an ACK that
\* nobody owes, pumpEdge never sleeps on a full inbox, pumpLocal never on its credit.
\* This is the safety half of MessagesArrive.
THEOREM NothingIsStranded == Spec => []NoMessageStranded
  <1>1. ASSUME RelayInv, Lively, Healthy, ~Closing, ~appClosed, Len(gotA) < sentV,
               toAgent = <<>>, ~(acksToEdge > 0)
        PROVE  EdgePumpMoves
    <2>0. /\ visitor = "open" /\ up /\ agent = "open" /\ edgePump # "done"
          /\ Len(gotA) \in Nat /\ sentV \in Nat /\ unacked \in Nat /\ acksToEdge = 0
          /\ inbox \in Seq(Nat) /\ buffer \in Seq(Nat) /\ Len(toAgent) = 0
      BY <1>1
         DEF Healthy, Lively, Ended, RelayInv, TypeOK, VisitorTyped, WireTyped, StreamTyped,
             AppTyped
    <2>1. sentV = Taken + Len(inbox) + Len(toAgent) + Len(buffer)
      BY <1>1, <2>0 DEF RelayInv, Numbers, BufferedNext
    <2>2. CASE edgePump = "writing"  BY <2>2 DEF EdgePumpMoves
    <2>3. CASE inbox # <<>>  BY <1>1, <2>0, <2>3, PumpWorks
    <2>4. CASE edgePump # "writing" /\ inbox = <<>>
      <3>1. Written = 0 /\ Len(inbox) = 0  BY <2>4 DEF Written
      <3>2. Len(buffer) # 0  BY <1>1, <2>0, <2>1, <3>1 DEF Taken
      <3>3. buffer # <<>>  BY <3>2
      <3>4. outstanding = WS_MSG_CREDIT  BY <1>1, <3>3 DEF Lively, Backed
      <3>5. unacked = 0  BY <1>1, <2>0, <3>1 DEF Lively, Owed
      <3>6. outstanding = Len(toAgent) + unacked + acksToEdge
        BY <1>1, <2>0 DEF RelayInv, EdgeCredit
      <3> QED BY <2>0, <3>4, <3>5, <3>6, CreditAssumption
    <2> QED BY <2>2, <2>3, <2>4
  <1>2. ASSUME RelayInv, Lively, Healthy, Len(gotV) < sentA, data = <<>>, ~(acksToAgent > 0)
        PROVE  EdgePumpMoves \/ LocalPumpMoves
    <2>0. /\ Awaited /\ up /\ agent = "open" /\ acksToAgent = 0 /\ Len(data) = 0
          /\ localPump \in {"reading", "holding", "closing", "done"} /\ Len(gotV) \in Nat
          /\ readA \in Nat /\ sentA \in Nat
      BY <1>2
         DEF Healthy, Awaited, RelayInv, TypeOK, VisitorTyped, WireTyped, PumpTyped,
             StreamTyped, AppTyped
    <2>1. CASE localPump = "done"  BY <1>2, <2>0, <2>1, PumpsDone
    <2>2. CASE localPump = "holding"
      BY <1>2, <2>0, <2>2, CreditIsBack DEF LocalPumpMoves
    <2>3. CASE localPump = "closing"  BY <2>3 DEF LocalPumpMoves
    <2>4. CASE localPump = "reading"
      <3>1. NoClose(data, Len(data)) /\ Headed = 0 /\ Relayed = readA
        BY <1>2, <2>0, <2>4 DEF NoClose, Headed, Relayed
      <3>2. Relayed + Headed = Len(gotV) + Len(data)
        BY <1>2, <2>0, <2>4, <3>1 DEF RelayInv, Numbers, RelayedNext
      <3>3. readA < sentA  BY <1>2, <2>0, <3>1, <3>2
      <3> QED BY <2>4, <3>3 DEF LocalPumpMoves
    <2> QED BY <2>0, <2>1, <2>2, <2>3, <2>4
  <1>3. RelayInv /\ Lively => NoMessageStranded
    BY <1>1, <1>2 DEF NoMessageStranded
  <1> QED BY <1>3, LivelyInvariant, PTL

\* Whichever end closes, the other is told, or is about to be: to an agent whose
\* visitor is over a close or a reset is on its way, or a close is due and pumpEdge
\* is awake for it; and a visitor whose application has closed has frames coming, or
\* a pump that can still send one, although localDone and wake may both be ready.
\* This is the safety half of EndsMeet.
THEOREM EndsAreTold == Spec => []NoEndUntold
  <1>1. ASSUME RelayInv, Lively, VisitorOver, up, ~AgentOver,
               ~Said(toAgent, {"close", "reset"}), agent # "dialing"
        PROVE  agent = "open" /\ (EdgePumpMoves \/ edgePump = "done")
    <2>1. agent # "ended"  BY <1>1 DEF Lively, Ended, AgentOver
    <2>2. Closing  BY <1>1, <2>1 DEF Lively, Informed
    <2>3. agent # "none"  BY <1>1, <2>2 DEF Lively, Ended
    <2>4. agent = "open"  BY <1>1, <2>1, <2>3 DEF RelayInv, TypeOK, PumpTyped
    <2> QED BY <1>1, <2>2, <2>4, PumpWorks
  <1>2. ASSUME RelayInv, Lively, appClosed, Awaited, up, data = <<>>, ~(acksToAgent > 0)
        PROVE  agent = "open" /\ (EdgePumpMoves \/ LocalPumpMoves)
    <2>1. ~Said(data, {"close", "answer"})  BY <1>2 DEF Said
    <2>2. agent # "ended"  BY <1>2, <2>1 DEF Lively, Telling
    <2>3. agent = "open"
      BY <1>2, <2>2 DEF RelayInv, Stages, Undialed, TypeOK, PumpTyped
    <2>4. acksToAgent = 0 /\ localPump \in {"reading", "holding", "closing", "done"}
      BY <1>2 DEF RelayInv, TypeOK, WireTyped, PumpTyped
    <2>5. localPump = "holding" => msgOut < WS_MSG_CREDIT
      BY <1>2, <2>3, <2>4, CreditIsBack
    <2>6. localPump = "done" => EdgePumpMoves  BY <1>2, <2>3, PumpsDone
    <2> QED BY <1>2, <2>3, <2>4, <2>5, <2>6 DEF LocalPumpMoves
  <1>3. RelayInv /\ Lively => NoEndUntold
    BY <1>1, <1>2 DEF NoEndUntold
  <1> QED BY <1>3, LivelyInvariant, PTL
=============================================================================
