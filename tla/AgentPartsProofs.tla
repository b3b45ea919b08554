-------------------------- MODULE AgentPartsProofs --------------------------
(***************************************************************************)
(* Proofs about the parts of the agent that MCParts checks side by side:   *)
(* the session, the reconnect loop, the self-update, the credential store, *)
(* the service manager and the request inspector.  Each has an inductive   *)
(* invariant of its own.                                                   *)
(***************************************************************************)
EXTENDS AgentSession, AgentRunner, Updater, Credentials, ServiceManager, Inspector,
        SumProofs, SequenceTheorems, TLAPS

---------------------------------------------------------------------------
(* The agent's session.                                                    *)

Shapes ==
  /\ ctrl \in Seq(CtrlFrames) /\ data \in Seq(DataFrames)
  /\ stream \in [Ids -> {"none", "running", "over"}] /\ left \in [Ids -> 0 .. FRAMES]
  /\ \A id \in Ids : stream[id] = "running" => left[id] # 0
  /\ \A id \in Ids : stream[id] = "none" => left[id] = FRAMES
  /\ maxSeen \in Nat /\ \A id \in Ids : id > maxSeen => stream[id] = "none"
  /\ finished \subseteq Ids /\ owed \subseteq Ids

\* The RES_END of a stream is still in the queue, ahead of a close.
Queued(id) == \E i \in DOMAIN data : data[i] = <<id, 0>>
Ahead(id) == \E i \in DOMAIN data : data[i] = <<id, 0>> /\ \A j \in 1 .. i : data[j] # Close
NoClose == \A i \in DOMAIN data : data[i] # Close
Writing == ~Over /\ writer \in {"top", "select"}

\* Until the close has been written nothing that was owed is lost behind it.
Orderly ==
  /\ main \in {"serve", "drain", "close"} => NoClose /\ cause # "done"
  /\ Writing => \A id \in finished : id \in wrote \/ Queued(id)
  /\ main = "flush" /\ Writing => \A id \in owed : id \in wrote \/ Ahead(id)
  /\ main = "flush" /\ cause = "done" => owed \subseteq wrote

Joined == main = "returned" => reader = "gone" /\ \A id \in Ids : stream[id] # "running"

SessionInv == Shapes /\ Orderly /\ Joined

LEMMA AppendShape ==
  ASSUME NEW S, NEW s \in Seq(S), NEW x \in S
  PROVE  /\ Append(s, x) \in Seq(S) /\ DOMAIN Append(s, x) = 1 .. Len(s) + 1
         /\ \A i \in DOMAIN s : i \in DOMAIN Append(s, x) /\ Append(s, x)[i] = s[i]
         /\ Append(s, x)[Len(s) + 1] = x
         /\ \A i \in DOMAIN Append(s, x) : i \in DOMAIN s \/ i = Len(s) + 1
         /\ Len(s) \in Nat /\ DOMAIN s = 1 .. Len(s)
  OBVIOUS

LEMMA TailShape ==
  ASSUME NEW S, NEW s \in Seq(S), s # <<>>
  PROVE  /\ Tail(s) \in Seq(S) /\ Head(s) \in S /\ Head(s) = s[1]
         /\ DOMAIN Tail(s) = 1 .. Len(s) - 1
         /\ \A i \in DOMAIN Tail(s) : i + 1 \in DOMAIN s /\ Tail(s)[i] = s[i + 1]
         /\ \A i \in DOMAIN s : i = 1 \/ (i - 1 \in DOMAIN Tail(s) /\ Tail(s)[i - 1] = s[i])
         /\ Len(s) \in Nat \ {0} /\ DOMAIN s = 1 .. Len(s)
  OBVIOUS

LEMMA CtrlIsNotClose == \A f \in CtrlFrames : f # Close /\ \A id : f # <<id, 0>>
  BY DEF CtrlFrames, Close

\* What the three parts of the queue's order say after a frame is appended.
LEMMA QueueGrows ==
  ASSUME Shapes, NEW f \in DataFrames, data' = Append(data, f)
  PROVE  /\ data' \in Seq(DataFrames)
         /\ \A id : Queued(id) => Queued(id)'
         /\ \A id : f = <<id, 0>> => Queued(id)'
         /\ \A id : Ahead(id) => Ahead(id)'
         /\ \A id : NoClose /\ Queued(id) => Ahead(id)'
         /\ f # Close /\ NoClose => NoClose'
  <1>1. /\ data \in Seq(DataFrames) /\ data' \in Seq(DataFrames)
        /\ DOMAIN data = 1 .. Len(data) /\ Len(data) \in Nat
        /\ DOMAIN data' = 1 .. Len(data) + 1
        /\ \A i \in DOMAIN data : i \in DOMAIN data' /\ data'[i] = data[i]
        /\ data'[Len(data) + 1] = f
    BY AppendShape DEF Shapes
  <1>2. \A i \in DOMAIN data : 1 .. i \subseteq DOMAIN data  BY <1>1
  <1>3. Len(data) + 1 \in DOMAIN data'  BY <1>1
  <1>4. \A i \in DOMAIN data' : i \in DOMAIN data \/ i = Len(data) + 1  BY <1>1
  <1>5. ASSUME NEW id, Ahead(id) PROVE Ahead(id)'
    <2>1. PICK i \in DOMAIN data : data[i] = <<id, 0>> /\ \A j \in 1 .. i : data[j] # Close
      BY <1>5 DEF Ahead
    <2>2. i \in DOMAIN data' /\ data'[i] = <<id, 0>> /\ \A j \in 1 .. i : data'[j] # Close
      BY <1>1, <1>2, <2>1
    <2> QED BY <2>2 DEF Ahead
  <1>6. ASSUME NEW id, NoClose, Queued(id) PROVE Ahead(id)
    BY <1>2, <1>6 DEF NoClose, Queued, Ahead
  <1>7. ASSUME NEW id, Queued(id) PROVE Queued(id)'
    BY <1>1, <1>7 DEF Queued
  <1>8. ASSUME NEW id, f = <<id, 0>> PROVE Queued(id)'
    BY <1>1, <1>3, <1>8 DEF Queued
  <1>9. f # Close /\ NoClose => NoClose'
    BY <1>1, <1>4 DEF NoClose
  <1> QED BY <1>1, <1>5, <1>6, <1>7, <1>8, <1>9

\* What they say after the writer has taken the first frame.
LEMMA QueueShrinks ==
  ASSUME Shapes, data # <<>>, data' = Tail(data)
  PROVE  /\ data' \in Seq(DataFrames) /\ Head(data) \in DataFrames
         /\ \A id : Queued(id) => Queued(id)' \/ Head(data) = <<id, 0>>
         /\ \A id : Ahead(id) => Ahead(id)' \/ Head(data) = <<id, 0>>
         /\ \A id : Ahead(id) => Head(data) # Close
         /\ NoClose => NoClose' /\ Head(data) # Close
  <1>1. /\ data' \in Seq(DataFrames) /\ Head(data) \in DataFrames /\ Head(data) = data[1]
        /\ DOMAIN data' = 1 .. Len(data) - 1 /\ DOMAIN data = 1 .. Len(data)
        /\ Len(data) \in Nat \ {0}
        /\ \A i \in DOMAIN data' : i + 1 \in DOMAIN data /\ data'[i] = data[i + 1]
        /\ \A i \in DOMAIN data : i = 1 \/ (i - 1 \in DOMAIN data' /\ data'[i - 1] = data[i])
    BY TailShape DEF Shapes
  <1>2. ASSUME NEW id, Queued(id) PROVE Queued(id)' \/ Head(data) = <<id, 0>>
    <2>1. PICK i \in DOMAIN data : data[i] = <<id, 0>>  BY <1>2 DEF Queued
    <2> QED BY <1>1, <2>1 DEF Queued
  <1>3. ASSUME NEW id, Ahead(id)
        PROVE  /\ Ahead(id)' \/ Head(data) = <<id, 0>>
               /\ Head(data) # Close
    <2>1. PICK i \in DOMAIN data : data[i] = <<id, 0>> /\ \A j \in 1 .. i : data[j] # Close
      BY <1>3 DEF Ahead
    <2>2. CASE i = 1  BY <1>1, <2>1, <2>2
    <2>3. CASE i # 1
      <3>1. i - 1 \in DOMAIN data' /\ data'[i - 1] = <<id, 0>>  BY <1>1, <2>1, <2>3
      <3>2. ASSUME NEW j \in 1 .. i - 1 PROVE data'[j] # Close
        <4>1. j \in DOMAIN data' /\ j + 1 \in 1 .. i  BY <1>1, <2>1
        <4> QED BY <1>1, <2>1, <4>1
      <3>3. 1 \in 1 .. i  BY <1>1, <2>1
      <3> QED BY <1>1, <2>1, <3>1, <3>2, <3>3 DEF Ahead
    <2> QED BY <2>2, <2>3
  <1>4. NoClose => NoClose' /\ Head(data) # Close
    <2>1. 1 \in DOMAIN data  BY <1>1
    <2> QED BY <1>1, <2>1 DEF NoClose
  <1> QED BY <1>1, <1>2, <1>3, <1>4

LEMMA OrderIsKept ==
  ASSUME Orderly, UNCHANGED <<data, finished, owed, wrote>>, Writing' => Writing,
         main' \in {"join", "returned"} \/ cause' = cause \/ cause' # "done",
         main' \in {"serve", "drain", "close"} => main \in {"serve", "drain", "close"},
         main' = "flush" => main = "flush"
  PROVE  Orderly'
  <1>1. NoClose' <=> NoClose  BY DEF NoClose
  <1>2. \A id : (Queued(id)' <=> Queued(id)) /\ (Ahead(id)' <=> Ahead(id))
    BY DEF Queued, Ahead
  <1>3. main' \in {"serve", "drain", "close"} => NoClose' /\ cause' # "done"
    BY <1>1 DEF Orderly
  <1>4. Writing' => \A id \in finished' : id \in wrote' \/ Queued(id)'
    BY <1>2 DEF Orderly
  <1>5. main' = "flush" /\ Writing' => \A id \in owed' : id \in wrote' \/ Ahead(id)'
    BY <1>2 DEF Orderly
  <1>6. main' = "flush" /\ cause' = "done" => owed' \subseteq wrote'
    BY DEF Orderly
  <1> QED BY <1>3, <1>4, <1>5, <1>6 DEF Orderly

LEMMA WriterKeepsOrder ==
  ASSUME SessionInv, WriterTop \/ WriterSelect
  PROVE  SessionInv'
  <1> USE DEF edgeVars, queueVars, writerVars, readerVars, beatVars, streamVars, endVars,
              mainVars
  <1>a. Shapes /\ Orderly /\ Joined  BY DEF SessionInv
  <1>b. UNCHANGED <<stream, left, maxSeen, finished, owed, main, reader>> /\ writer \in {"top", "select"}
    BY DEF WriterTop, WriterSelect
  <1>c. Joined'  BY <1>a, <1>b DEF Joined
  <1>1. CASE TakeCtrl
    <2>1. Head(ctrl) \in CtrlFrames /\ ctrl' \in Seq(CtrlFrames)
      BY <1>a, <1>1, TailShape DEF TakeCtrl, Shapes
    <2>2. Head(ctrl) # Close /\ \A id : Head(ctrl) # <<id, 0>>
      BY <2>1, CtrlIsNotClose
    <2>3. UNCHANGED data /\ (WriteOk(Head(ctrl)) \/ WriteFails \/ WriteBlocks)
      BY <1>1, <2>2 DEF TakeCtrl, Write
    <2>4. wrote' = wrote /\ (Writing' => Writing)
      BY <1>b, <2>2, <2>3
         DEF WriteOk, WriteFails, WriteBlocks, Writing, Over, Fail, FirstCause
    <2>5. cause' = cause \/ cause' # "done"
      BY <2>3 DEF WriteOk, WriteFails, WriteBlocks, Fail, FirstCause, Over
    <2>6. Orderly'  BY <1>a, <1>b, <2>3, <2>4, <2>5, OrderIsKept
    <2>7. Shapes'  BY <1>a, <1>b, <2>1, <2>3 DEF Shapes
    <2> QED BY <1>c, <2>6, <2>7 DEF SessionInv
  <1>2. CASE TakeData
    <2>1. data # <<>> /\ data' = Tail(data) /\ UNCHANGED ctrl /\ Write(Head(data))
      BY <1>2 DEF TakeData
    <2>2. /\ data' \in Seq(DataFrames) /\ Head(data) \in DataFrames
          /\ \A id : Queued(id) => Queued(id)' \/ Head(data) = <<id, 0>>
          /\ \A id : Ahead(id) => Ahead(id)' \/ Head(data) = <<id, 0>>
          /\ \A id : Ahead(id) => Head(data) # Close
          /\ NoClose => NoClose' /\ Head(data) # Close
      BY <1>a, <2>1, QueueShrinks
    <2>3. Shapes'  BY <1>a, <1>b, <2>1, <2>2 DEF Shapes
    <2>4. CASE Head(data) = Close
      <3>1. /\ writer' = "gone" /\ wrote' = wrote /\ cause' = FirstCause("done")
            /\ main \notin {"serve", "drain", "close"}
        BY <1>a, <2>1, <2>2, <2>4 DEF Write, WriteClose, CloseWith, Orderly
      <3>2. main = "flush" => cause = "done" \/ Over \/ owed \subseteq wrote
        BY <1>a, <1>b, <2>2, <2>4 DEF Orderly, Writing
      <3>3. main = "flush" /\ cause' = "done" => owed' \subseteq wrote'
        BY <1>a, <1>b, <3>1, <3>2 DEF Orderly, FirstCause, Over
      <3>4. ~Writing'  BY <3>1 DEF Writing
      <3>5. Orderly'  BY <1>b, <3>1, <3>3, <3>4 DEF Orderly
      <3> QED BY <1>c, <2>3, <3>5 DEF SessionInv
    <2>5. CASE Head(data) # Close
      <3>1. WriteOk(Head(data)) \/ WriteFails \/ WriteBlocks  BY <2>1, <2>5 DEF Write
      <3>2. cause' = cause \/ cause' # "done"
        BY <3>1 DEF WriteOk, WriteFails, WriteBlocks, Fail, FirstCause, Over
      <3>3. wrote \subseteq wrote'  BY <3>1 DEF WriteOk, WriteFails, WriteBlocks
      <3>4. Writing' => WriteOk(Head(data)) /\ Writing
        BY <1>b, <3>1
           DEF WriteOk, WriteFails, WriteBlocks, Writing, Over, Fail, FirstCause
      <3>5. WriteOk(Head(data)) => \A id \in Ids : Head(data) = <<id, 0>> => id \in wrote'
        BY DEF WriteOk
      <3>6. main' \in {"serve", "drain", "close"} => NoClose' /\ cause' # "done"
        BY <1>a, <1>b, <2>2, <3>2 DEF Orderly
      <3>7. Writing' => \A id \in finished' : id \in wrote' \/ Queued(id)'
        BY <1>a, <1>b, <2>2, <3>3, <3>4, <3>5 DEF Orderly, Shapes
      <3>8. main' = "flush" /\ Writing' => \A id \in owed' : id \in wrote' \/ Ahead(id)'
        BY <1>a, <1>b, <2>2, <3>3, <3>4, <3>5 DEF Orderly, Shapes
      <3>9. main' = "flush" /\ cause' = "done" => owed' \subseteq wrote'
        BY <1>a, <1>b, <3>2, <3>3 DEF Orderly
      <3>10. Orderly'  BY <3>6, <3>7, <3>8, <3>9 DEF Orderly
      <3> QED BY <1>c, <2>3, <3>10 DEF SessionInv
    <2> QED BY <2>4, <2>5
  <1>3. CASE UNCHANGED <<wire, queueVars, wrote, endVars>>
    <2>1. Shapes'  BY <1>a, <1>b, <1>3 DEF Shapes
    <2>2. Writing' => Writing  BY <1>b, <1>3 DEF Writing, Over
    <2>3. Orderly'  BY <1>a, <1>b, <1>3, <2>2, OrderIsKept
    <2> QED BY <1>c, <2>1, <2>3 DEF SessionInv
  <1> QED BY <1>1, <1>2, <1>3 DEF WriterTop, WriterSelect

LEMMA StreamsKeepOrder ==
  ASSUME SessionInv, NEW id \in Ids, StreamSends(id) \/ StreamFails(id) \/ StreamCancelled(id)
  PROVE  SessionInv'
  <1> USE DEF edgeVars, queueVars, writerVars, readerVars, beatVars, streamVars, endVars,
              mainVars
  <1>a. Shapes /\ Orderly /\ Joined  BY DEF SessionInv
  <1>s. ctrl \in Seq(CtrlFrames)  BY <1>a DEF Shapes
  <1>b. UNCHANGED <<owed, main, reader, maxSeen, writer, wrote, cause>> /\ stream[id] = "running"
    BY DEF StreamSends, StreamFails, StreamCancelled
  <1>c. Joined'  BY <1>a, <1>b DEF Joined
  <1>d. Writing' <=> Writing  BY <1>b DEF Writing, Over
  <1>1. CASE StreamSends(id)
    <2> DEFINE f == <<id, left[id] - 1>>
    <2>1. f \in DataFrames /\ f # Close /\ data' = Append(data, f) /\ left[id] \in 1 .. FRAMES
      <3>1. left[id] \in 0 .. FRAMES /\ left[id] # 0 /\ FRAMES \in Nat /\ MAX_STREAMS \in Nat
        BY <1>a, <1>b, SessionAssumption DEF Shapes
      <3>2. left[id] - 1 \in 0 .. FRAMES - 1 /\ left[id] \in 1 .. FRAMES  BY <3>1
      <3>3. id # 0  BY <3>1 DEF Ids
      <3> QED BY <1>1, <3>2, <3>3 DEF StreamSends, DataFrames, Close
    <2>2. /\ data' \in Seq(DataFrames)
          /\ \A i : Queued(i) => Queued(i)'
          /\ \A i : f = <<i, 0>> => Queued(i)'
          /\ \A i : Ahead(i) => Ahead(i)'
          /\ NoClose => NoClose'
      BY <1>a, <2>1, QueueGrows
    <2>3. finished' = IF left[id] = 1 THEN finished \cup {id} ELSE finished
      BY <1>1 DEF StreamSends
    <2>4. left[id] = 1 => Queued(id)'  BY <2>2
    <2> HIDE DEF f
    <2>5. Shapes'
      <3>1. ctrl' = ctrl /\ finished' \subseteq Ids /\ owed' \subseteq Ids
        BY <1>a, <1>b, <1>1, <2>3 DEF StreamSends, Shapes
      <3>2. left' = [left EXCEPT ![id] = @ - 1] /\ left' \in [Ids -> 0 .. FRAMES]
        BY <1>a, <1>1, <2>1, SessionAssumption DEF StreamSends, Shapes
      <3>3. /\ stream' = [stream EXCEPT ![id] = IF left[id] = 1 THEN "over" ELSE @]
            /\ stream' \in [Ids -> {"none", "running", "over"}]
        BY <1>a, <1>1 DEF StreamSends, Shapes
      <3>4. \A i \in Ids : stream'[i] = "running" => left'[i] # 0
        BY <1>a, <2>1, <3>2, <3>3 DEF Shapes
      <3>5. \A i \in Ids : stream'[i] = "none" => stream[i] = "none" /\ left'[i] = left[i]
        BY <1>a, <1>b, <3>2, <3>3 DEF Shapes
      <3>6. \A i \in Ids : stream[i] = "none" => stream'[i] = "none"
        BY <1>a, <1>b, <3>3 DEF Shapes
      <3>7. maxSeen' = maxSeen  BY <1>b
      <3> QED BY <1>a, <1>s, <2>2, <3>1, <3>2, <3>3, <3>4, <3>5, <3>6, <3>7 DEF Shapes
    <2>6. Orderly'
      <3>1. main' \in {"serve", "drain", "close"} => NoClose' /\ cause' # "done"
        BY <1>a, <1>b, <2>2 DEF Orderly
      <3>2. Writing' => \A i \in finished' : i \in wrote' \/ Queued(i)'
        BY <1>a, <1>b, <1>d, <2>2, <2>3, <2>4 DEF Orderly
      <3>3. main' = "flush" /\ Writing' => \A i \in owed' : i \in wrote' \/ Ahead(i)'
        BY <1>a, <1>b, <1>d, <2>2 DEF Orderly
      <3>4. main' = "flush" /\ cause' = "done" => owed' \subseteq wrote'
        BY <1>a, <1>b DEF Orderly
      <3> QED BY <3>1, <3>2, <3>3, <3>4 DEF Orderly
    <2> QED BY <1>c, <2>5, <2>6 DEF SessionInv
  <1>2. CASE StreamFails(id) \/ StreamCancelled(id)
    <2>1. UNCHANGED <<data, left, finished>> /\ stream' = [stream EXCEPT ![id] = "over"]
      BY <1>2 DEF StreamFails, StreamCancelled
    <2>2. <<"reset">> \in CtrlFrames  BY DEF CtrlFrames
    <2>3. ctrl' \in Seq(CtrlFrames)
      <3>1. ctrl' = ctrl \/ ctrl' = Append(ctrl, <<"reset">>)
        BY <1>2 DEF StreamFails, StreamCancelled, SendCtrl
      <3> QED BY <1>s, <2>2, <3>1, AppendShape
    <2>4. Shapes'  BY <1>a, <1>b, <2>1, <2>3 DEF Shapes
    <2>5. Orderly'  BY <1>a, <1>b, <1>d, <2>1, OrderIsKept
    <2> QED BY <1>c, <2>4, <2>5 DEF SessionInv
  <1> QED BY <1>1, <1>2

LEMMA MainKeepsOrder ==
  ASSUME SessionInv,
         \/ ServeEnds \/ StartDrain \/ DrainWaited \/ QueueClose \/ DrainOver \/ DrainTimeout
         \/ JoinAll
  PROVE  SessionInv'
  <1> USE DEF edgeVars, queueVars, writerVars, readerVars, beatVars, streamVars, endVars,
              mainVars
  <1>a. Shapes /\ Orderly /\ Joined  BY DEF SessionInv
  <1>s. ctrl \in Seq(CtrlFrames)  BY <1>a DEF Shapes
  <1>b. UNCHANGED <<stream, left, maxSeen, finished, reader, writer, wrote>>
    BY
       DEF ServeEnds, StartDrain, DrainWaited, QueueClose, DrainOver, DrainTimeout,
           JoinAll
  <1>c. Joined'
    BY <1>a, <1>b DEF Joined, ServeEnds, StartDrain, DrainWaited, QueueClose, DrainOver,
       DrainTimeout, JoinAll
  <1>1. CASE QueueClose
    <2>1. /\ main = "close" /\ main' = "flush" /\ UNCHANGED <<ctrl, cause>>
          /\ data' = Append(data, Close) /\ owed' = finished
      BY <1>1 DEF QueueClose
    <2>2. Close \in DataFrames  BY DEF DataFrames
    <2>3. /\ data' \in Seq(DataFrames)
          /\ \A i : Queued(i) => Queued(i)'
          /\ \A i : NoClose /\ Queued(i) => Ahead(i)'
      BY <1>a, <2>1, <2>2, QueueGrows
    <2>4. Shapes'  BY <1>a, <1>b, <2>1, <2>3 DEF Shapes
    <2>5. Writing' <=> Writing  BY <1>b, <2>1 DEF Writing, Over
    <2>6. NoClose /\ cause # "done"  BY <1>a, <2>1 DEF Orderly
    <2>7. Writing' => \A id \in finished' : id \in wrote' \/ Queued(id)'
      BY <1>a, <1>b, <2>3, <2>5 DEF Orderly
    <2>8. Writing' => \A id \in owed' : id \in wrote' \/ Ahead(id)'
      BY <1>a, <1>b, <2>1, <2>3, <2>5, <2>6 DEF Orderly
    <2>9. Orderly'  BY <2>1, <2>6, <2>7, <2>8 DEF Orderly
    <2> QED BY <1>c, <2>4, <2>9 DEF SessionInv
  <1>2. CASE ServeEnds \/ StartDrain \/ DrainWaited \/ DrainOver \/ DrainTimeout \/ JoinAll
    <2>1. UNCHANGED <<data, owed>>
      BY <1>2 DEF ServeEnds, StartDrain, DrainWaited, DrainOver, DrainTimeout, JoinAll
    <2>2. <<"DRAIN">> \in CtrlFrames  BY DEF CtrlFrames
    <2>3. ctrl' \in Seq(CtrlFrames)
      <3>1. ctrl' = ctrl \/ ctrl' = Append(ctrl, <<"DRAIN">>)
        BY <1>2
          
              DEF SendCtrl, ServeEnds, StartDrain, DrainWaited, DrainOver, DrainTimeout,
                  JoinAll
      <3> QED BY <1>s, <2>2, <3>1, AppendShape
    <2>4. Shapes'  BY <1>a, <1>b, <2>1, <2>3 DEF Shapes
    <2>5. Writing' => Writing
      BY <1>b, <1>2
        
            DEF Writing, Over, CloseWith, FirstCause, ServeEnds, StartDrain, DrainWaited,
                DrainOver,
             DrainTimeout, JoinAll
    <2>6. /\ main' \in {"join", "returned"} \/ cause' = cause
          /\ main' \in {"serve", "drain", "close"} => main \in {"serve", "drain", "close"}
          /\ main' # "flush"
      BY <1>2 DEF ServeEnds, StartDrain, DrainWaited, DrainOver, DrainTimeout, JoinAll
    <2>7. Orderly'  BY <1>a, <1>b, <2>1, <2>5, <2>6, OrderIsKept
    <2> QED BY <1>c, <2>4, <2>7 DEF SessionInv
  <1> QED BY <1>1, <1>2

LEMMA OthersKeepOrder ==
  ASSUME SessionInv,
         \/ \E msg \in Inbound \ {"pong"} : EdgeSends(msg)
         \/ PathBreaks \/ UserCancels \/ SocketCloses \/ WriteTimeout
         \/ Read \/ ReaderReplies \/ ReadFails
         \/ BeatOver \/ QueuePing \/ AwaitAlive \/ AwaitTimeout \/ AwaitProbe \/ Tick
  PROVE  SessionInv'
  <1> USE DEF edgeVars, queueVars, writerVars, readerVars, beatVars, streamVars, endVars,
              mainVars
  <1>a. Shapes /\ Orderly /\ Joined  BY DEF SessionInv
  <1>s. ctrl \in Seq(CtrlFrames)  BY <1>a DEF Shapes
  <1>1. CASE Read
    <2>1. UNCHANGED <<ctrl, data, left, finished, owed, wrote, writer, main>> /\ reader = "read"
      BY <1>1 DEF Read
    <2>2. cause' = cause \/ (cause' # "done" /\ cause' # "none")
      BY <1>1 DEF Read, CloseWith, FirstCause, Over
    <2>3. Orderly'
      <3>1. Writing' => Writing  BY <2>1, <2>2 DEF Writing, Over
      <3> QED BY <1>a, <2>1, <2>2, <3>1, OrderIsKept
    <2>4. main # "returned"  BY <1>a, <2>1 DEF Joined
    <2>5. Shapes'
      <3>1. CASE UNCHANGED <<maxSeen, stream>>  BY <1>a, <2>1, <3>1 DEF Shapes
      <3>2. CASE OpenStream
        <4>1. stream' = [stream EXCEPT ![maxSeen + 1] = "running"] /\ maxSeen' = maxSeen + 1
          BY <3>2 DEF OpenStream
        <4>s. stream \in [Ids -> {"none", "running", "over"}] /\ maxSeen \in Nat
          BY <1>a DEF Shapes
        <4>2. stream' \in [Ids -> {"none", "running", "over"}] /\ maxSeen' \in Nat
          <5>1. maxSeen' \in Nat  BY <4>s, <4>1
          <5>2. stream' \in [Ids -> {"none", "running", "over"}]
            BY <4>s, <4>1, Zenon
          <5> QED BY <5>1, <5>2
        <4>3. \A id \in Ids : stream'[id] = IF id = maxSeen + 1 THEN "running" ELSE stream[id]
          BY <4>s, <4>1
        <4>4. maxSeen + 1 > maxSeen /\ \A id \in Ids : id > maxSeen + 1 => id > maxSeen /\ id # maxSeen + 1
          BY <1>a, SessionAssumption DEF Shapes, Ids
        <4>5. \A id \in Ids : stream'[id] = "running" => left'[id] # 0
          BY <1>a, <2>1, <4>3, <4>4, SessionAssumption DEF Shapes
        <4> QED BY <1>a, <2>1, <4>1, <4>2, <4>3, <4>4, <4>5 DEF Shapes
      <3> QED BY <1>1, <3>1, <3>2 DEF Read
    <2> QED BY <2>1, <2>3, <2>4, <2>5 DEF SessionInv, Joined
  <1>2. CASE \/ \E msg \in Inbound \ {"pong"} : EdgeSends(msg)
             \/ PathBreaks \/ UserCancels \/ SocketCloses \/ WriteTimeout
             \/ ReaderReplies \/ ReadFails
             \/ BeatOver \/ QueuePing \/ AwaitAlive \/ AwaitTimeout \/ AwaitProbe \/ Tick
    <2>1. UNCHANGED <<data, stream, left, maxSeen, finished, owed, wrote, main>>
      BY <1>2
         DEF EdgeSends, PathBreaks, UserCancels, SocketCloses, WriteTimeout,
             ReaderReplies,
                  ReadFails, BeatOver, QueuePing, AwaitAlive, AwaitTimeout, AwaitProbe, Tick
    <2>2. reader = "gone" => reader' = "gone"
      BY <1>2
         DEF EdgeSends, PathBreaks, UserCancels, SocketCloses, WriteTimeout,
             ReaderReplies,
                  ReadFails, BeatOver, QueuePing, AwaitAlive, AwaitTimeout, AwaitProbe, Tick
    <2>3. (writer' = writer \/ writer' = "gone") /\ (cause' = cause \/ cause' \notin {"none", "done"})
      BY <1>2
         DEF EdgeSends, PathBreaks, UserCancels, SocketCloses, WriteTimeout,
             ReaderReplies,
                  ReadFails, BeatOver, QueuePing, AwaitAlive, AwaitTimeout, AwaitProbe, Tick,
                  Fail, FirstCause, Over
    <2>4. Orderly'
      <3>1. Writing' => Writing  BY <2>3 DEF Writing, Over
      <3> QED BY <1>a, <2>1, <2>3, <3>1, OrderIsKept
    <2>5. Joined'  BY <1>a, <2>1, <2>2 DEF Joined
    <2>6. ctrl' = ctrl \/ \E f \in CtrlFrames : ctrl' = Append(ctrl, f)
      BY <1>2
         DEF EdgeSends, PathBreaks, UserCancels, SocketCloses, WriteTimeout,
             ReaderReplies,
                  ReadFails, BeatOver, QueuePing, AwaitAlive, AwaitTimeout, AwaitProbe, Tick,
                  SendCtrl, CtrlFrames
    <2>7. ctrl' \in Seq(CtrlFrames)  BY <1>s, <2>6, AppendShape
    <2>8. Shapes'  BY <1>a, <2>1, <2>7 DEF Shapes
    <2> QED BY <2>4, <2>5, <2>8 DEF SessionInv
  <1> QED BY <1>1, <1>2

\* The reader's signal is there for as long as the heartbeat may need it.
Signalled == heard => alive /\ heartbeat = "await"

LEMMA SignalIsKept == Signalled /\ [SessionNext]_sessionVars => Signalled'
  <1> SUFFICES ASSUME Signalled, [SessionNext]_sessionVars PROVE Signalled'
    OBVIOUS
  <1> USE DEF edgeVars, queueVars, writerVars, readerVars, beatVars, streamVars, endVars,
              mainVars, Signalled
  <1>1. CASE UNCHANGED <<heard, alive, heartbeat>>  BY <1>1
  <1>2. CASE \/ Read \/ BeatOver \/ QueuePing \/ AwaitAlive \/ AwaitTimeout \/ AwaitProbe \/ Tick
    BY <1>2
       DEF Read, Signal, BeatOver, QueuePing, AwaitAlive, AwaitTimeout, AwaitProbe, Tick
  <1>3. ASSUME NEW msg \in Inbound, EdgeSends(msg) PROVE Signalled'
    BY <1>1, <1>3 DEF EdgeSends
  <1>4. ASSUME NEW id \in Ids, StreamSends(id) \/ StreamFails(id) \/ StreamCancelled(id)
        PROVE  Signalled'
    BY <1>1, <1>4 DEF StreamSends, StreamFails, StreamCancelled
  <1>5. CASE PathBreaks \/ UserCancels \/ SocketCloses \/ WriterTop \/ WriterSelect \/ WriteTimeout
             \/ ReaderReplies \/ ReadFails \/ UNCHANGED sessionVars
    BY <1>1, <1>5
       DEF PathBreaks, UserCancels, SocketCloses, WriterTop, WriterSelect, WriteTimeout,
                      ReaderReplies, ReadFails, sessionVars
  <1>6. CASE ServeEnds \/ StartDrain \/ DrainWaited \/ QueueClose \/ DrainOver \/ DrainTimeout
             \/ JoinAll
    BY <1>1, <1>6
       DEF ServeEnds, StartDrain, DrainWaited, QueueClose, DrainOver, DrainTimeout,
                      JoinAll
  <1> QED BY <1>2, <1>3, <1>4, <1>5, <1>6 DEF SessionNext

\* Only a heartbeat whose wait found no signal ends the session for its sake.
LEMMA OnlyTimeoutAlarms ==
  ASSUME SessionNext, cause # "heartbeat", cause' = "heartbeat"
  PROVE  AwaitTimeout
  <1> USE DEF edgeVars, queueVars, writerVars, readerVars, beatVars, streamVars, endVars,
              mainVars, Fail, CloseWith, FirstCause, Over
  <1>1. ASSUME NEW msg \in Inbound, EdgeSends(msg) PROVE FALSE  BY <1>1 DEF EdgeSends
  <1>2. ASSUME NEW id \in Ids, StreamSends(id) \/ StreamFails(id) \/ StreamCancelled(id)
        PROVE  FALSE
    BY <1>2 DEF StreamSends, StreamFails, StreamCancelled
  <1>3. CASE WriterTop \/ WriterSelect
    BY <1>3
       DEF WriterTop, WriterSelect, TakeCtrl, TakeData, Write, WriteClose, WriteOk,
           WriteFails,
                WriteBlocks
  <1>4. CASE PathBreaks \/ UserCancels \/ SocketCloses \/ WriteTimeout \/ ReaderReplies \/ ReadFails
    BY <1>4
       DEF PathBreaks, UserCancels, SocketCloses, WriteTimeout, ReaderReplies, ReadFails
  <1>5. CASE Read \/ BeatOver \/ QueuePing \/ AwaitAlive \/ AwaitProbe \/ Tick
    BY <1>5 DEF Read, BeatOver, QueuePing, AwaitAlive, AwaitProbe, Tick
  <1>6. CASE ServeEnds \/ StartDrain \/ DrainWaited \/ QueueClose \/ DrainOver \/ DrainTimeout
             \/ JoinAll
    BY <1>6
       DEF ServeEnds, StartDrain, DrainWaited, QueueClose, DrainOver, DrainTimeout,
           JoinAll
  <1> QED BY <1>1, <1>2, <1>3, <1>4, <1>5, <1>6 DEF SessionNext

LEMMA SessionInvHolds ==
  /\ SessionInit => SessionInv
  /\ SessionInv /\ [SessionNext]_sessionVars => SessionInv'
  <1>1. SessionInit => SessionInv
    BY SessionAssumption
       DEF SessionInit, SessionInv, Shapes, Orderly, Joined, NoClose, Writing
  <1>2. SessionInv /\ [SessionNext]_sessionVars => SessionInv'
    <2>1. SessionInv /\ UNCHANGED sessionVars => SessionInv'
      <3> SUFFICES ASSUME SessionInv, UNCHANGED sessionVars PROVE SessionInv'
        OBVIOUS
      <3> USE DEF sessionVars, edgeVars, queueVars, writerVars, readerVars, beatVars,
                  streamVars, endVars, mainVars
      <3>1. Shapes' /\ Joined'  BY DEF SessionInv, Shapes, Joined
      <3>2. Writing' => Writing  BY DEF Writing, Over
      <3>3. Orderly'  BY <3>2, OrderIsKept DEF SessionInv
      <3> QED BY <3>1, <3>3 DEF SessionInv
    <2> QED
      BY <2>1, WriterKeepsOrder, StreamsKeepOrder, MainKeepsOrder, OthersKeepOrder
         DEF SessionNext
  <1> QED BY <1>1, <1>2

\* For queues of any capacity and any number of streams: a graceful end writes
\* every response that was complete when the close was queued, and run returns
\* only when no stream runs any more.
THEOREM SessionEndsInOrder == SessionSpec => []EndsInOrder
  <1>1. SessionInv => EndsInOrder
    BY DEF SessionInv, Orderly, Joined, EndsInOrder
  <1> QED BY <1>1, SessionInvHolds, PTL DEF SessionSpec

LEMMA AlarmStep ==
  /\ SessionInit => Signalled
  /\ Signalled /\ [SessionNext]_sessionVars
       => [cause # "heartbeat" /\ cause' = "heartbeat" => ~heard]_sessionVars
  <1>1. SessionInit => Signalled  BY DEF SessionInit, Signalled
  <1>2. Signalled /\ AwaitTimeout => ~heard  BY DEF Signalled, AwaitTimeout
  <1> QED BY <1>1, <1>2, OnlyTimeoutAlarms

\* The heartbeat never ends a session that has read anything since its ping.
THEOREM NoAlarmIsFalse == SessionSpec => NoFalseAlarm
  BY AlarmStep, SignalIsKept, PTL DEF SessionSpec, NoFalseAlarm

LEMMA AppendFits ==
  ASSUME NEW S, NEW q \in Seq(S), NEW e \in S, NEW cap \in Nat, Len(q) < cap
  PROVE  Append(q, e) \in Seq(S) /\ Len(Append(q, e)) <= cap
  OBVIOUS

LEMMA TailFits ==
  ASSUME NEW S, NEW q \in Seq(S), q # <<>>, NEW cap \in Nat, Len(q) <= cap
  PROVE  Tail(q) \in Seq(S) /\ Len(Tail(q)) <= cap /\ Head(q) \in S
  OBVIOUS

\* At most one "head" is under way, and then there is an id left for it.
HeadAwaited ==
  /\ \A i, j \in DOMAIN wire : wire[i] = "head" /\ wire[j] = "head" => i = j
  /\ \A i \in DOMAIN wire : wire[i] = "head" => maxSeen < MAX_STREAMS

LEMMA WireTyped ==
  ASSUME wire \in Seq(Inbound), Len(wire) <= MAX_WIRE, HeadAwaited,
         maxSeen \in 0 .. MAX_STREAMS, NEW msg \in Inbound, Len(wire) < MAX_WIRE,
         wire' = Append(wire, msg), UNCHANGED maxSeen,
         msg = "head" => maxSeen < MAX_STREAMS /\ \A i \in DOMAIN wire : wire[i] # "head"
  PROVE  wire' \in Seq(Inbound) /\ Len(wire') <= MAX_WIRE /\ HeadAwaited'
  <1>1. wire \in Seq(Inbound) /\ MAX_WIRE \in Nat
    BY SessionAssumption
  <1>2. wire' \in Seq(Inbound) /\ Len(wire') <= MAX_WIRE
    BY <1>1, AppendFits
  <1>3. /\ DOMAIN wire' = DOMAIN wire \cup {Len(wire) + 1}
        /\ \A i \in DOMAIN wire : wire'[i] = wire[i]
        /\ wire'[Len(wire) + 1] = msg
    BY <1>1
  <1> QED BY <1>2, <1>3 DEF HeadAwaited

LEMMA WireTaken ==
  ASSUME wire \in Seq(Inbound), Len(wire) <= MAX_WIRE, HeadAwaited,
         maxSeen \in 0 .. MAX_STREAMS, wire # <<>>, wire' = Tail(wire),
         IF Head(wire) = "head" THEN maxSeen' = maxSeen + 1 ELSE UNCHANGED maxSeen
  PROVE  /\ wire' \in Seq(Inbound) /\ Len(wire') <= MAX_WIRE /\ Head(wire) \in Inbound
         /\ Head(wire) = "head" => maxSeen + 1 \in Ids
         /\ HeadAwaited'
  <1>1. wire \in Seq(Inbound) /\ MAX_WIRE \in Nat /\ Len(wire) <= MAX_WIRE
        /\ maxSeen \in 0 .. MAX_STREAMS /\ MAX_STREAMS \in Nat
    BY SessionAssumption
  <1>2. wire' \in Seq(Inbound) /\ Len(wire') <= MAX_WIRE /\ Head(wire) \in Inbound
    BY <1>1, TailFits
  <1>3. /\ \A i \in DOMAIN wire' : i + 1 \in DOMAIN wire /\ wire'[i] = wire[i + 1] /\ i + 1 # 1 /\ i \in Nat
        /\ Head(wire) = wire[1] /\ 1 \in DOMAIN wire
    BY <1>1
  <1>4. Head(wire) = "head" => maxSeen + 1 \in Ids /\ \A i \in DOMAIN wire' : wire'[i] # "head"
    BY <1>1, <1>3 DEF HeadAwaited, Ids
  <1>5. HeadAwaited'
    <2>1. CASE Head(wire) = "head"
      BY <1>4, <2>1 DEF HeadAwaited
    <2>2. CASE Head(wire) # "head"
      <3>1. ASSUME NEW i \in DOMAIN wire', NEW j \in DOMAIN wire', wire'[i] = "head", wire'[j] = "head"
            PROVE  i = j
        <4>1. i + 1 = j + 1
          BY <1>3, <3>1 DEF HeadAwaited
        <4> QED BY <1>3, <4>1
      <3>2. \A i \in DOMAIN wire' : wire'[i] = "head" => maxSeen' < MAX_STREAMS
        BY <1>3, <2>2 DEF HeadAwaited
      <3> QED BY <3>1, <3>2 DEF HeadAwaited
    <2> QED BY <2>1, <2>2
  <1> QED BY <1>2, <1>4, <1>5

\* The fields no action computes anything with keep their types.
PlainTyped ==
  /\ path \in {"up", "stalled", "down"} /\ sent \in 0 .. MAX_SENT
  /\ writer \in {"top", "select", "blocked", "gone"} /\ reader \in {"read", "reply", "gone"}
  /\ heartbeat \in {"ping", "await", "tick", "gone"}
  /\ short \in BOOLEAN /\ alive \in BOOLEAN /\ heard \in BOOLEAN /\ cancelled \in BOOLEAN
  /\ main \in {"serve", "drain", "close", "flush", "join", "returned"}
  /\ cause \in {"none", "done", "heartbeat", "protocol", "conn"}
  /\ socket \in {"open", "closing", "closed"} /\ wrote \subseteq Ids

\* A loop leaves only when the session is over, and an over session's socket
\* is closed or about to be.
LoopsStay ==
  IF Over THEN socket # "open"
  ELSE /\ writer # "gone" /\ reader # "gone" /\ heartbeat # "gone" /\ socket = "open"
       /\ main \notin {"join", "returned"}

LEMMA PlainStays ==
  ASSUME PlainTyped, SessionNext
  PROVE  PlainTyped' /\ (LoopsStay => LoopsStay')
  <1> USE DEF edgeVars, queueVars, writerVars, readerVars, beatVars, streamVars, endVars,
              mainVars, PlainTyped, LoopsStay, Over, Fail, CloseWith, FirstCause
  <1>1. ASSUME NEW msg \in Inbound, EdgeSends(msg) PROVE PlainTyped' /\ (LoopsStay => LoopsStay')
    BY <1>1, SessionAssumption DEF EdgeSends
  <1>2. ASSUME NEW id \in Ids, StreamSends(id) \/ StreamFails(id) \/ StreamCancelled(id)
        PROVE  PlainTyped' /\ (LoopsStay => LoopsStay')
    BY <1>2 DEF StreamSends, StreamFails, StreamCancelled
  <1>3. CASE WriterTop \/ WriterSelect
    <2>1. ASSUME NEW f, Write(f), writer \in {"top", "select"},
                 UNCHANGED <<path, sent, readerVars, beatVars, streamVars, mainVars>>
          PROVE  PlainTyped' /\ (LoopsStay => LoopsStay')
      <3>1. CASE WriteOk(f)  BY <2>1, <3>1 DEF WriteOk
      <3>2. CASE WriteFails  BY <2>1, <3>2 DEF WriteFails
      <3>3. CASE WriteBlocks  BY <2>1, <3>3 DEF WriteBlocks
      <3>4. CASE WriteClose  BY <2>1, <3>4 DEF WriteClose
      <3> QED BY <2>1, <3>1, <3>2, <3>3, <3>4 DEF Write
    <2>2. CASE TakeCtrl \/ TakeData
      BY <1>3, <2>1, <2>2 DEF TakeCtrl, TakeData, WriterTop, WriterSelect
    <2>3. CASE /\ UNCHANGED <<wire, queueVars, wrote, endVars>>
               /\ writer' = "select" \/ (Over /\ writer' = "gone")
      BY <1>3, <2>3 DEF WriterTop, WriterSelect
    <2> QED BY <1>3, <2>2, <2>3 DEF WriterTop, WriterSelect
  <1>4. CASE PathBreaks \/ UserCancels \/ SocketCloses \/ WriteTimeout \/ ReaderReplies \/ ReadFails
    <2>1. CASE PathBreaks \/ UserCancels \/ SocketCloses
      <3>1. CASE PathBreaks  BY <3>1 DEF PathBreaks
      <3>2. CASE UserCancels  BY <3>2 DEF UserCancels
      <3>3. CASE SocketCloses  BY <3>3 DEF SocketCloses
      <3> QED BY <2>1, <3>1, <3>2, <3>3
    <2>2. CASE WriteTimeout  BY <2>2 DEF WriteTimeout
    <2>3. CASE ReaderReplies  BY <2>3 DEF ReaderReplies
    <2>4. CASE ReadFails  BY <2>4 DEF ReadFails
    <2> QED BY <1>4, <2>1, <2>2, <2>3, <2>4
  <1>5. CASE Read
    <2>1. /\ reader' = IF Head(wire) = "reply" THEN "reply"
                       ELSE IF Head(wire) = "violation" THEN "gone" ELSE "read"
          /\ (Head(wire) = "violation" /\ CloseWith("protocol"))
               \/ (Head(wire) # "violation" /\ UNCHANGED endVars)
      BY <1>5 DEF Read
    <2>2. UNCHANGED <<path, sent, writer, wrote, heartbeat, short, main, cancelled, owed>>
          /\ alive' = TRUE /\ heard' \in BOOLEAN
      BY <1>5 DEF Read, Signal
    <2> QED BY <2>1, <2>2
  <1>6. CASE BeatOver \/ QueuePing \/ AwaitAlive \/ AwaitTimeout \/ AwaitProbe \/ Tick
    BY <1>6 DEF BeatOver, QueuePing, AwaitAlive, AwaitTimeout, AwaitProbe, Tick
  <1>7. CASE ServeEnds \/ StartDrain \/ DrainWaited \/ QueueClose \/ DrainOver \/ DrainTimeout
             \/ JoinAll
    BY <1>7
       DEF ServeEnds, StartDrain, DrainWaited, QueueClose, DrainOver, DrainTimeout,
           JoinAll
  <1> QED BY <1>1, <1>2, <1>3, <1>4, <1>5, <1>6, <1>7 DEF SessionNext

CtrlTyped == ctrl \in Seq(CtrlFrames) /\ Len(ctrl) <= CTRL_CAP
DataTyped == data \in Seq(DataFrames) /\ Len(data) <= DATA_CAP
WireIsTyped == wire \in Seq(Inbound) /\ Len(wire) <= MAX_WIRE
StreamsTyped ==
  /\ maxSeen \in 0 .. MAX_STREAMS
  /\ stream \in [Ids -> {"none", "running", "over"}] /\ left \in [Ids -> 0 .. FRAMES]
  /\ finished \subseteq Ids /\ owed \subseteq Ids

SessionFields == PlainTyped /\ CtrlTyped /\ DataTyped /\ WireIsTyped /\ StreamsTyped

LEMMA FieldsAreAll == SessionFields <=> SessionTypeOK
  BY DEF SessionFields, PlainTyped, CtrlTyped, DataTyped, WireIsTyped, StreamsTyped,
         SessionTypeOK

LEMMA CtrlStays ==
  ASSUME CtrlTyped, SessionNext
  PROVE  CtrlTyped'
  <1> USE DEF edgeVars, queueVars
  <1>0. CTRL_CAP \in Nat  BY SessionAssumption
  <1>1. CASE UNCHANGED ctrl  BY <1>1 DEF CtrlTyped
  <1>2. CASE ctrl # <<>> /\ ctrl' = Tail(ctrl)  BY <1>0, <1>2, TailFits DEF CtrlTyped
  <1>3. ASSUME NEW f \in CtrlFrames, Len(ctrl) < CTRL_CAP, ctrl' = Append(ctrl, f)
        PROVE  CtrlTyped'
    BY <1>0, <1>3, AppendFits DEF CtrlTyped
  <1>4. ASSUME NEW f \in CtrlFrames, SendCtrl(f) PROVE CtrlTyped'
    BY <1>1, <1>3, <1>4 DEF SendCtrl
  <1>5. /\ <<"ping">> \in CtrlFrames /\ <<"reply">> \in CtrlFrames
        /\ <<"reset">> \in CtrlFrames /\ <<"DRAIN">> \in CtrlFrames
    BY DEF CtrlFrames
  <1>6. ASSUME NEW msg \in Inbound, EdgeSends(msg) PROVE CtrlTyped'
    BY <1>1, <1>6 DEF EdgeSends
  <1>7. ASSUME NEW id \in Ids, StreamSends(id) \/ StreamFails(id) \/ StreamCancelled(id)
        PROVE  CtrlTyped'
    BY <1>1, <1>4, <1>5, <1>7 DEF StreamSends, StreamFails, StreamCancelled
  <1>8. CASE WriterTop \/ WriterSelect
    BY <1>1, <1>2, <1>8 DEF WriterTop, WriterSelect, TakeCtrl, TakeData
  <1>9. CASE PathBreaks \/ UserCancels \/ SocketCloses \/ WriteTimeout \/ ReadFails \/ Read
             \/ BeatOver \/ AwaitAlive \/ AwaitTimeout \/ Tick
             \/ ServeEnds \/ DrainWaited \/ QueueClose \/ DrainOver \/ DrainTimeout \/ JoinAll
    <2> USE <1>1 DEF PathBreaks, UserCancels, SocketCloses, WriteTimeout, ReadFails
    <2>1. CASE PathBreaks \/ UserCancels \/ SocketCloses \/ WriteTimeout \/ ReadFails  BY <2>1
    <2>2. CASE Read \/ BeatOver \/ AwaitAlive \/ AwaitTimeout \/ Tick
      BY <2>2 DEF Read, BeatOver, AwaitAlive, AwaitTimeout, Tick
    <2>3. CASE ServeEnds \/ DrainWaited \/ QueueClose \/ DrainOver \/ DrainTimeout \/ JoinAll
      BY <2>3 DEF ServeEnds, DrainWaited, QueueClose, DrainOver, DrainTimeout, JoinAll
    <2> QED BY <1>9, <2>1, <2>2, <2>3
  <1>10. CASE ReaderReplies \/ StartDrain
    BY <1>4, <1>5, <1>10 DEF ReaderReplies, StartDrain
  <1>11. CASE QueuePing \/ AwaitProbe
    BY <1>1, <1>3, <1>5, <1>11 DEF QueuePing, AwaitProbe
  <1> QED BY <1>6, <1>7, <1>8, <1>9, <1>10, <1>11 DEF SessionNext

LEMMA DataStays ==
  ASSUME DataTyped, Shapes, SessionNext
  PROVE  DataTyped'
  <1> USE DEF edgeVars, queueVars
  <1>0. DATA_CAP \in Nat /\ FRAMES \in Nat  BY SessionAssumption
  <1>1. CASE UNCHANGED data  BY <1>1 DEF DataTyped
  <1>2. CASE data # <<>> /\ data' = Tail(data)  BY <1>0, <1>2, TailFits DEF DataTyped
  <1>3. ASSUME NEW f \in DataFrames, Len(data) < DATA_CAP, data' = Append(data, f)
        PROVE  DataTyped'
    BY <1>0, <1>3, AppendFits DEF DataTyped
  <1>4. ASSUME NEW msg \in Inbound, EdgeSends(msg) PROVE DataTyped'
    BY <1>1, <1>4 DEF EdgeSends
  <1>5. ASSUME NEW id \in Ids, StreamSends(id) PROVE DataTyped'
    <2>1. stream[id] = "running" /\ left[id] \in 0 .. FRAMES /\ left[id] # 0
      BY <1>5 DEF Shapes, StreamSends
    <2>2. <<id, left[id] - 1>> \in DataFrames  BY <1>0, <2>1 DEF DataFrames
    <2> QED BY <1>3, <1>5, <2>2 DEF StreamSends
  <1>6. ASSUME NEW id \in Ids, StreamFails(id) \/ StreamCancelled(id) PROVE DataTyped'
    BY <1>1, <1>6 DEF StreamFails, StreamCancelled
  <1>7. CASE WriterTop \/ WriterSelect
    BY <1>1, <1>2, <1>7 DEF WriterTop, WriterSelect, TakeCtrl, TakeData
  <1>8. CASE QueueClose
    <2>1. Close \in DataFrames  BY DEF DataFrames
    <2> QED BY <1>3, <1>8, <2>1 DEF QueueClose
  <1>9. CASE PathBreaks \/ UserCancels \/ SocketCloses \/ WriteTimeout \/ ReadFails \/ Read
             \/ ReaderReplies
    BY <1>1, <1>9
       DEF PathBreaks, UserCancels, SocketCloses, WriteTimeout, ReadFails, Read,
           ReaderReplies
  <1>10. CASE BeatOver \/ QueuePing \/ AwaitAlive \/ AwaitTimeout \/ AwaitProbe \/ Tick
    BY <1>1, <1>10 DEF BeatOver, QueuePing, AwaitAlive, AwaitTimeout, AwaitProbe, Tick
  <1>11. CASE ServeEnds \/ StartDrain \/ DrainWaited \/ DrainOver \/ DrainTimeout \/ JoinAll
    BY <1>1, <1>11 DEF ServeEnds, StartDrain, DrainWaited, DrainOver, DrainTimeout, JoinAll
  <1> QED BY <1>4, <1>5, <1>6, <1>7, <1>8, <1>9, <1>10, <1>11 DEF SessionNext

LEMMA WireStays ==
  ASSUME WireIsTyped, HeadAwaited, maxSeen \in 0 .. MAX_STREAMS, SessionNext
  PROVE  WireIsTyped' /\ HeadAwaited' /\ maxSeen' \in 0 .. MAX_STREAMS
  <1> USE DEF edgeVars, queueVars, writerVars, readerVars, beatVars, streamVars, endVars,
              mainVars
  <1>0. MAX_STREAMS \in Nat  BY SessionAssumption
  <1>1. CASE UNCHANGED <<wire, maxSeen>>  BY <1>1 DEF WireIsTyped, HeadAwaited
  <1>2. ASSUME NEW msg \in Inbound, EdgeSends(msg)
        PROVE  WireIsTyped' /\ HeadAwaited' /\ maxSeen' \in 0 .. MAX_STREAMS
    BY <1>2, WireTyped DEF EdgeSends, WireIsTyped
  <1>3. ASSUME NEW id \in Ids, StreamSends(id) \/ StreamFails(id) \/ StreamCancelled(id)
        PROVE  WireIsTyped' /\ HeadAwaited' /\ maxSeen' \in 0 .. MAX_STREAMS
    BY <1>1, <1>3 DEF StreamSends, StreamFails, StreamCancelled
  <1>4. CASE WriterTop \/ WriterSelect
    <2>1. UNCHANGED maxSeen  BY <1>4 DEF WriterTop, WriterSelect
    <2>2. UNCHANGED wire \/ (Len(wire) < MAX_WIRE /\ wire' = Append(wire, "pong"))
      BY <1>4
         DEF WriterTop, WriterSelect, TakeCtrl, TakeData, Write, WriteOk, WriteFails,
             WriteBlocks, WriteClose, Answer
    <2>3. CASE Len(wire) < MAX_WIRE /\ wire' = Append(wire, "pong")
      <3>1. "pong" \in Inbound  BY DEF Inbound
      <3> QED BY <2>1, <2>3, <3>1, WireTyped DEF WireIsTyped
    <2> QED BY <1>1, <2>1, <2>2, <2>3
  <1>5. CASE Read
    <2>1. /\ wire # <<>> /\ wire' = Tail(wire)
          /\ IF Head(wire) = "head" THEN maxSeen' = maxSeen + 1 ELSE UNCHANGED maxSeen
      BY <1>5 DEF Read, OpenStream
    <2>2. /\ WireIsTyped' /\ HeadAwaited'
          /\ Head(wire) = "head" => maxSeen + 1 \in Ids
      <3>1. wire \in Seq(Inbound) /\ Len(wire) <= MAX_WIRE  BY DEF WireIsTyped
      <3>2. /\ wire' \in Seq(Inbound) /\ Len(wire') <= MAX_WIRE /\ HeadAwaited'
            /\ Head(wire) = "head" => maxSeen + 1 \in Ids
        BY <2>1, <3>1, WireTaken
      <3> QED BY <3>2 DEF WireIsTyped
    <2> QED BY <1>0, <2>1, <2>2 DEF Ids
  <1>6. CASE PathBreaks \/ UserCancels \/ SocketCloses \/ WriteTimeout \/ ReadFails
             \/ ReaderReplies
    BY <1>1, <1>6
       DEF PathBreaks, UserCancels, SocketCloses, WriteTimeout, ReadFails,
           ReaderReplies
  <1>7. CASE BeatOver \/ QueuePing \/ AwaitAlive \/ AwaitTimeout \/ AwaitProbe \/ Tick
    BY <1>1, <1>7 DEF BeatOver, QueuePing, AwaitAlive, AwaitTimeout, AwaitProbe, Tick
  <1>8. CASE ServeEnds \/ StartDrain \/ DrainWaited \/ QueueClose \/ DrainOver \/ DrainTimeout
             \/ JoinAll
    BY <1>1, <1>8
       DEF ServeEnds, StartDrain, DrainWaited, QueueClose, DrainOver, DrainTimeout,
           JoinAll
  <1> QED BY <1>2, <1>3, <1>4, <1>5, <1>6, <1>7, <1>8 DEF SessionNext

\* What keeps the types inductive: the order's shapes and the awaited head.
SessionTyped == SessionInv /\ SessionFields /\ HeadAwaited /\ LoopsStay

LEMMA SessionStaysTyped ==
  /\ SessionInit => SessionTyped
  /\ SessionTyped /\ [SessionNext]_sessionVars => SessionTyped'
  <1>1. SessionInit => SessionTyped
    <2> SUFFICES ASSUME SessionInit PROVE SessionTyped
      OBVIOUS
    <2>1. PlainTyped
      <3>1. sent \in 0 .. MAX_SENT  BY SessionAssumption DEF SessionInit
      <3> QED BY <3>1 DEF SessionInit, PlainTyped
    <2>4. LoopsStay  BY DEF SessionInit, LoopsStay, Over
    <2>2. CtrlTyped /\ DataTyped /\ WireIsTyped /\ HeadAwaited
      BY SessionAssumption DEF SessionInit, CtrlTyped, DataTyped, WireIsTyped, HeadAwaited
    <2>3. StreamsTyped  BY SessionAssumption DEF SessionInit, StreamsTyped
    <2> QED BY <2>1, <2>2, <2>3, <2>4, SessionInvHolds DEF SessionTyped, SessionFields
  <1>2. SessionTyped /\ UNCHANGED sessionVars => SessionTyped'
    <2> SUFFICES ASSUME SessionTyped, UNCHANGED sessionVars PROVE SessionTyped'
      OBVIOUS
    <2> USE DEF sessionVars, edgeVars, queueVars, writerVars, readerVars, beatVars,
                streamVars, endVars, mainVars
    <2>1. PlainTyped' /\ LoopsStay'
      BY DEF SessionTyped, SessionFields, PlainTyped, LoopsStay, Over
    <2>2. CtrlTyped' /\ DataTyped' /\ WireIsTyped' /\ HeadAwaited'
      BY DEF SessionTyped, SessionFields, CtrlTyped, DataTyped, WireIsTyped, HeadAwaited
    <2>3. StreamsTyped'  BY DEF SessionTyped, SessionFields, StreamsTyped
    <2> QED BY <2>1, <2>2, <2>3, SessionInvHolds DEF SessionTyped, SessionFields
  <1>3. SessionTyped /\ SessionNext => SessionTyped'
    <2> SUFFICES ASSUME SessionTyped, SessionNext PROVE SessionTyped'
      OBVIOUS
    <2>1. SessionInv'  BY SessionInvHolds DEF SessionTyped
    <2>2. Shapes /\ PlainTyped /\ CtrlTyped /\ DataTyped /\ WireIsTyped /\ HeadAwaited
          /\ LoopsStay /\ maxSeen \in 0 .. MAX_STREAMS
      BY DEF SessionTyped, SessionFields, StreamsTyped, SessionInv
    <2>3. PlainTyped' /\ LoopsStay'  BY <2>2, PlainStays
    <2>4. CtrlTyped' /\ DataTyped'  BY <2>2, CtrlStays, DataStays
    <2>5. WireIsTyped' /\ HeadAwaited' /\ maxSeen' \in 0 .. MAX_STREAMS
      BY <2>2, WireStays
    <2>6. StreamsTyped'  BY <2>1, <2>5 DEF SessionInv, Shapes, StreamsTyped
    <2> QED BY <2>1, <2>3, <2>4, <2>5, <2>6 DEF SessionTyped, SessionFields
  <1> QED BY <1>1, <1>2, <1>3

\* The session's variables keep their types, its queues the capacities of their
\* channels; the writer, the reader and the heartbeat leave only once the session
\* is over, run joins only then, and an over session's socket is no longer open, so
\* that nothing is left blocked on it (the safety half of SessionEnds).
THEOREM LoopsLeaveTogether == SessionSpec => [](SessionTypeOK /\ LoopsStay)
  <1>1. SessionTyped => SessionTypeOK /\ LoopsStay  BY FieldsAreAll DEF SessionTyped
  <1> QED BY <1>1, SessionStaysTyped, PTL DEF SessionSpec

\* The writer has a frame to write, or a write that its timeout ends.
WriterMoves == writer = "blocked" \/ (writer \in {"top", "select"} /\ ctrl # <<>>)

\* Once the session is over, what run still waits for: itself, the reader, whose Read
\* fails when the close is through, and streams whose context is cancelled.
RunMoves ==
  \/ main \in {"serve", "drain", "close", "flush"}
  \/ socket = "closing"
  \/ reader = "reply" \/ (reader = "read" /\ socket = "closed")
  \/ \E id \in Ids : stream[id] = "running"
  \/ main = "join" /\ reader = "gone" /\ \A id \in Ids : stream[id] # "running"

\* A session that has to end is held up by nobody.
EndNotHeld ==
  /\ Over /\ main # "returned" => RunMoves
  /\ ~Over /\ cancelled /\ main = "serve" => Len(ctrl) < CTRL_CAP \/ WriterMoves
  /\ ~Over /\ path # "up" =>
       \/ heartbeat \in {"await", "tick"}
       \/ heartbeat = "ping" /\ Len(ctrl) < CTRL_CAP
       \/ WriterMoves

\* Nobody holds up a session that has to end: once it is over run, the reader, a
\* stream or the close can take its next step until run has returned; before that a
\* cancel that waits for room in the control queue, or a heartbeat that does on a
\* broken path, has a writer that makes room or fails (session.go run, sendCtrl).
THEOREM NobodyHoldsTheEnd == SessionSpec => []EndNotHeld
  <1>1. ASSUME SessionTyped PROVE EndNotHeld
    <2>1. /\ LoopsStay /\ CTRL_CAP \in Nat /\ CTRL_CAP > 0 /\ ctrl \in Seq(CtrlFrames)
          /\ reader \in {"read", "reply", "gone"}
          /\ writer \in {"top", "select", "blocked", "gone"}
          /\ heartbeat \in {"ping", "await", "tick", "gone"}
          /\ socket \in {"open", "closing", "closed"}
          /\ main \in {"serve", "drain", "close", "flush", "join", "returned"}
      BY <1>1, FieldsAreAll, SessionAssumption DEF SessionTyped, SessionTypeOK
    <2>2. Over /\ main # "returned" => RunMoves
      BY <2>1 DEF LoopsStay, RunMoves
    <2>3. ~(Len(ctrl) < CTRL_CAP) => ctrl # <<>>  BY <2>1
    <2>4. ~Over /\ ~(Len(ctrl) < CTRL_CAP) => WriterMoves
      BY <2>1, <2>3 DEF LoopsStay, WriterMoves
    <2>5. ~Over => heartbeat # "gone"  BY <2>1 DEF LoopsStay
    <2> QED BY <2>1, <2>2, <2>4, <2>5 DEF EndNotHeld
  <1> QED BY <1>1, SessionStaysTyped, PTL DEF SessionSpec

---------------------------------------------------------------------------
(* The reconnect loop.                                                     *)

Before == Unresolved \cup {"resolved", "over"}
Started == \A c \in Clients : pc[c] \notin Before \ {"over"}

\* A client's connects since it last waited are no more than the renames it
\* follows allow, and --force is gone once it has been online.
Polite ==
  /\ MaxRenameHops \in Nat
  /\ pc \in [Clients -> Idle \cup Running]
  /\ ever \in [Clients -> BOOLEAN] /\ force \in [Clients -> BOOLEAN]
  /\ rival \in [Clients -> BOOLEAN]
  /\ hops \in [Clients -> Nat] /\ dials \in [Clients -> Nat]
  /\ Started \/ \A c \in Clients : pc[c] \in Before /\ ~ever[c] /\ dials[c] = 0
  /\ \A c \in Clients :
       /\ ever[c] => ~force[c]
       /\ dials[c] <= MaxRenameHops + 1
       /\ pc[c] \notin {"failed", "stopped", "over"} => hops[c] <= MaxRenameHops
       /\ pc[c] = "top" => dials[c] <= hops[c]
       /\ pc[c] \in {"dial", "shake"} => dials[c] <= hops[c] + 1
       /\ pc[c] = "online" => dials[c] = 0

LEMMA ClientStaysPolite ==
  ASSUME Polite, NEW c \in Clients,
         \/ Resolve(c) \/ FirstName(c)
         \/ ReportFailure(c) \/ RivalTakes(c) \/ Dial(c) \/ WaitOver(c)
         \/ DialRenamed(c) \/ DialRefused(c) \/ DialRetry(c) \/ DialUpgraded(c)
         \/ Online(c) \/ ShakeRefused(c) \/ ShakeRetry(c)
         \/ SessionStops(c) \/ SessionTerminal(c) \/ SessionRenamed(c) \/ SessionLost(c)
  PROVE  Polite' /\ (rival[c] /\ pc[c] = "dial" /\ pc'[c] = "shake" => ~ever[c])
  <1> USE DEF Goto, Before, Idle, Running, Unresolved
  <1>1. CASE Resolve(c) \/ FirstName(c)
    BY <1>1 DEF Polite, Resolve, FirstName, notStarting, Unstarted, Started
  <1>2. CASE ReportFailure(c) \/ RivalTakes(c)
    <2>1. CASE ReportFailure(c)  BY <2>1 DEF Polite, ReportFailure, Started
    <2>2. CASE RivalTakes(c)  BY <2>2 DEF Polite, RivalTakes, Started
    <2> QED BY <1>2, <2>1, <2>2
  <1>3. CASE Dial(c) \/ WaitOver(c)
    BY <1>3 DEF Polite, Dial, WaitOver, Started
  <1>4. CASE DialRenamed(c)
    BY <1>4 DEF Polite, DialRenamed, GiveUp, Follow, Started
  <1>5. CASE DialRefused(c) \/ DialRetry(c)
    BY <1>5 DEF Polite, DialRefused, DialRetry, GiveUp, BackOff, Started
  <1>6. CASE DialUpgraded(c)
    BY <1>6 DEF Polite, DialUpgraded, Started
  <1>7. CASE Online(c)
    BY <1>7 DEF Polite, Online, Started
  <1>8. CASE ShakeRefused(c) \/ ShakeRetry(c)
    BY <1>8 DEF Polite, ShakeRefused, ShakeRetry, GiveUp, BackOff, Started
  <1>9. CASE SessionStops(c) \/ SessionTerminal(c) \/ SessionRenamed(c) \/ SessionLost(c)
    BY <1>9
       DEF Polite, SessionStops, SessionTerminal, SessionRenamed, SessionLost, GiveUp,
           Follow,
                Started
  <1> QED BY <1>1, <1>2, <1>3, <1>4, <1>5, <1>6, <1>7, <1>8, <1>9

LEMMA PoliteHolds ==
  /\ RunnerInit => Polite
  /\ Polite /\ [RunnerNext]_runnerVars => Polite'
  <1>1. RunnerInit => Polite
    BY RunnerAssumption
       DEF RunnerInit, Polite, Selections, Unresolved, Idle, Running, Before, Started
  <1>2. Polite /\ [RunnerNext]_runnerVars => Polite'
    <2> SUFFICES ASSUME Polite, [RunnerNext]_runnerVars PROVE Polite'
      OBVIOUS
    <2>1. CASE Start
      BY <2>1 DEF Polite, Start, Unstarted, Unresolved, Idle, Running, Before, Started
    <2>2. CASE StartFails \/ Return \/ UserInterrupts \/ UNCHANGED runnerVars
      BY <2>2
         DEF Polite, StartFails, Return, UserInterrupts, runnerVars, notStarting, Started
    <2> QED BY <2>1, <2>2, ClientStaysPolite DEF RunnerNext
  <1> QED BY <1>1, <1>2

LEMMA PoliteStep ==
  Polite /\ [RunnerNext]_runnerVars
        => [\A c \in Clients :
              /\ dials'[c] <= MaxRenameHops + 1
              /\ rival[c] /\ pc[c] = "dial" /\ pc'[c] = "shake" => ~ever[c]]_runnerVars
  <1> SUFFICES ASSUME Polite, RunnerNext, NEW c \in Clients
               PROVE  /\ dials'[c] <= MaxRenameHops + 1
                      /\ rival[c] /\ pc[c] = "dial" /\ pc'[c] = "shake" => ~ever[c]
    OBVIOUS
  <1>1. dials'[c] <= MaxRenameHops + 1  BY PoliteHolds DEF Polite
  <1>2. CASE Start \/ StartFails \/ Return \/ UserInterrupts
    BY <1>1, <1>2 DEF Start, StartFails, Return, UserInterrupts, Unstarted, Unresolved
  <1>3. ASSUME NEW d \in Clients,
               \/ Resolve(d) \/ FirstName(d)
               \/ ReportFailure(d) \/ RivalTakes(d) \/ Dial(d) \/ WaitOver(d)
               \/ DialRenamed(d) \/ DialRefused(d) \/ DialRetry(d) \/ DialUpgraded(d)
               \/ Online(d) \/ ShakeRefused(d) \/ ShakeRetry(d)
               \/ SessionStops(d) \/ SessionTerminal(d) \/ SessionRenamed(d) \/ SessionLost(d)
        PROVE  rival[c] /\ pc[c] = "dial" /\ pc'[c] = "shake" => ~ever[c]
    <2>1. CASE c = d  BY <1>3, <2>1, ClientStaysPolite
    <2>2. CASE c # d
      <3>1. pc'[c] = pc[c]
        BY <1>3, <2>2
           DEF Polite, Resolve, FirstName, ReportFailure, RivalTakes, Dial, WaitOver,
               DialRenamed, DialRefused, DialRetry, DialUpgraded, Online, ShakeRefused,
               ShakeRetry, SessionStops, SessionTerminal, SessionRenamed, SessionLost,
               GiveUp, Follow, BackOff, Goto
      <3> QED BY <3>1
    <2> QED BY <2>1, <2>2
  <1> QED BY <1>1, <1>2, <1>3 DEF RunnerNext

\* However often its name is renamed and its session breaks, for any number of
\* clients: a client that has been online takes the name from nobody, and
\* connects at most MaxRenameHops times more before it waits or gives up.
THEOREM ClientsArePolite == RunnerSpec => PoliteDials
  BY PoliteHolds, PoliteStep, PTL DEF RunnerSpec, PoliteDials

\* The command's own fields: a name is asked for only so often, no client
\* follows more than one rename too many, and runTunnels returns only when no
\* client runs any more, nil only when none of them failed for good.
RunnerEnds ==
  /\ tries \in 0 .. NAME_TRIES /\ (result = "none" => tries < NAME_TRIES)
  /\ cancel \in {"no", "user", "failure"} /\ result \in {"none", "nil", "failure"}
  /\ attempt \in [Clients -> 0 .. MAX_ATTEMPT]
  /\ \A c \in Clients : hops[c] <= MaxRenameHops + 1
  /\ \A c \in Clients : pc[c] = "stopped" => Cancelled
  /\ result # "none" => \A c \in Clients : pc[c] \notin Running
  /\ result = "nil" => cancel # "failure" /\ \A c \in Clients : pc[c] \in {"stopped", "over"}

LEMMA ClientStaysEnded ==
  ASSUME Polite, RunnerEnds, NEW c \in Clients,
         \/ Resolve(c) \/ FirstName(c)
         \/ ReportFailure(c) \/ RivalTakes(c) \/ Dial(c) \/ WaitOver(c)
         \/ DialRenamed(c) \/ DialRefused(c) \/ DialRetry(c) \/ DialUpgraded(c)
         \/ Online(c) \/ ShakeRefused(c) \/ ShakeRetry(c)
         \/ SessionStops(c) \/ SessionTerminal(c) \/ SessionRenamed(c) \/ SessionLost(c)
  PROVE  RunnerEnds'
  <1> USE RunnerAssumption
      DEF Goto, Cancelled, Running
  <1>0. /\ pc \in [Clients -> Idle \cup Running] /\ hops \in [Clients -> Nat]
        /\ pc[c] = "dial" => hops[c] <= MaxRenameHops
    BY DEF Polite
  <1>1. CASE Resolve(c)
    <2>1. CASE Goto(c, "resolved") /\ UNCHANGED result
      BY <1>0, <1>1, <2>1 DEF RunnerEnds, Resolve, notStarting, Unstarted
    <2>2. CASE result' = "failure" /\ UNCHANGED pc
      <3>1. \A d \in Clients : pc[d] \notin Running
        BY <1>1 DEF Resolve, Unstarted, Unresolved
      <3> QED BY <1>1, <2>2, <3>1 DEF RunnerEnds, Resolve, notStarting
    <2> QED BY <1>1, <2>1, <2>2 DEF Resolve
  <1>2. CASE FirstName(c)
    <2>1. CASE Goto(c, "resolved") /\ tries' = 0 /\ UNCHANGED result
      BY <1>0, <1>2, <2>1 DEF RunnerEnds, FirstName, notStarting, Unstarted
    <2>2. CASE /\ tries' = tries + 1 /\ UNCHANGED pc
               /\ result' = IF tries' = NAME_TRIES THEN "failure" ELSE result
      <3>1. (\A d \in Clients : pc[d] \notin Running) /\ result = "none"
        BY <1>2 DEF FirstName, Unstarted, Unresolved
      <3>2. tries' \in 0 .. NAME_TRIES /\ (result' = "none" => tries' < NAME_TRIES)
        BY <2>2, <3>1 DEF RunnerEnds
      <3> QED BY <1>2, <2>2, <3>1, <3>2 DEF RunnerEnds, FirstName, notStarting
    <2> QED BY <1>2, <2>1, <2>2 DEF FirstName
  <1>3. CASE ReportFailure(c) \/ RivalTakes(c)
    BY <1>0, <1>3 DEF RunnerEnds, ReportFailure, RivalTakes
  <1>4. CASE Dial(c) \/ WaitOver(c)
    BY <1>0, <1>4 DEF RunnerEnds, Dial, WaitOver
  <1>5. CASE DialRenamed(c) \/ DialRefused(c)
    BY <1>0, <1>5 DEF RunnerEnds, DialRenamed, DialRefused, GiveUp, Follow
  <1>6. CASE DialRetry(c) \/ DialUpgraded(c)
    BY <1>0, <1>6 DEF RunnerEnds, DialRetry, DialUpgraded, BackOff
  <1>7. CASE Online(c) \/ ShakeRefused(c) \/ ShakeRetry(c)
    BY <1>0, <1>7 DEF RunnerEnds, Online, ShakeRefused, ShakeRetry, GiveUp, BackOff
  <1>8. CASE SessionStops(c) \/ SessionTerminal(c)
    BY <1>0, <1>8 DEF RunnerEnds, SessionStops, SessionTerminal, GiveUp, Healthy
  <1>9. CASE SessionRenamed(c) \/ SessionLost(c)
    BY <1>0, <1>9 DEF RunnerEnds, SessionRenamed, SessionLost, Follow, Healthy
  <1> QED BY <1>1, <1>2, <1>3, <1>4, <1>5, <1>6, <1>7, <1>8, <1>9

RunnerTyped == Polite /\ RunnerEnds

LEMMA RunnerStaysTyped ==
  /\ RunnerInit => RunnerTyped
  /\ RunnerTyped /\ [RunnerNext]_runnerVars => RunnerTyped'
  <1>1. RunnerInit => RunnerEnds
    BY RunnerAssumption
       DEF RunnerInit, RunnerEnds, Selections, Unresolved, Running, Cancelled
  <1>2. RunnerTyped /\ [RunnerNext]_runnerVars => RunnerEnds'
    <2> SUFFICES ASSUME RunnerTyped, [RunnerNext]_runnerVars PROVE RunnerEnds'
      OBVIOUS
    <2> USE DEF RunnerTyped
    <2>1. CASE Start
      BY <2>1 DEF RunnerEnds, Polite, Start, Unstarted, Running, Cancelled
    <2>2. CASE StartFails
      BY <2>2 DEF RunnerEnds, Polite, StartFails, Unstarted, notStarting, Unresolved, Running, Cancelled
    <2>3. CASE Return
      BY <2>3 DEF RunnerEnds, Polite, Return, Running, Cancelled
    <2>4. CASE UserInterrupts \/ UNCHANGED runnerVars
      BY <2>4 DEF RunnerEnds, Polite, UserInterrupts, runnerVars, Running, Cancelled
    <2> QED BY <2>1, <2>2, <2>3, <2>4, ClientStaysEnded DEF RunnerNext
  <1> QED BY <1>1, <1>2, PoliteHolds DEF RunnerTyped

LEMMA RunnerTypes == RunnerTyped => RunnerTypeOK
  BY RunnerAssumption DEF RunnerTyped, Polite, RunnerEnds, RunnerTypeOK

\* What runTunnels promises where OneFailsAllStop says that it gets there.
RunReturnsLast ==
  /\ result # "none" => \A c \in Clients : pc[c] \notin Running
  /\ cancel = "failure" => result # "nil"
  /\ \A c \in Clients : pc[c] = "stopped" => Cancelled

\* The command's variables keep their types; runTunnels returns only when no client
\* runs any more, and nil only when none of them failed for good; a client stops by
\* itself only when it was told to (the safety half of OneFailsAllStop).
THEOREM ReturnIsLast == RunnerSpec => [](RunnerTypeOK /\ RunReturnsLast)
  <1>1. RunnerTyped => RunnerTypeOK /\ RunReturnsLast
    BY RunnerTypes DEF RunnerTyped, RunnerEnds, RunReturnsLast
  <1> QED BY <1>1, RunnerStaysTyped, PTL DEF RunnerSpec

---------------------------------------------------------------------------
(* Self-update.                                                            *)

\* Where a process has a downloaded file of its own, and where it is known to run.
Holds(p) == at[p] \in {"fetched", "written", "verified", "swapping", "moved", "back"}
KnownToRun(p) == at[p] \in {"verified", "swapping", "moved", "back"}
Between == {p \in Procs : at[p] \in {"moved", "back", "lost", "died"}}
Works == genuine \cap runs

\* A downloaded file is nobody else's until it is swapped in; what has been the
\* executable works; and on Windows a running file is never removed.
FileInv ==
  /\ olds \subseteq Works
  /\ \A p \in Procs : Holds(p) =>
       /\ mine[p] \in Files /\ mine[p] \in genuine /\ mine[p] \notin olds \cup {exe}
       /\ \A q \in Procs \ {p} : mine[q] # mine[p]
  /\ \A p \in Procs : KnownToRun(p) => mine[p] \in runs
  /\ \A p \in Procs : at[p] \notin {"out", "died"} => image[p] \in Files
  /\ \A p \in Procs : windows /\ image[p] \in Files => image[p] \in olds \cup {exe}
  /\ \A p \in Procs : at[p] \in {"swapping", "moved", "back", "lost"} => windows

UpdaterInv == UpdaterTypeOK /\ FileInv /\ AlwaysRunnable

LEMMA UpdaterTypes ==
  UpdaterTypeOK <=>
    /\ windows \in BOOLEAN /\ exe \in Files \cup {NoFile}
    /\ olds \subseteq Files /\ temps \subseteq Files
    /\ genuine \subseteq Files /\ runs \subseteq Files
    /\ at \in [Procs -> Places]
    /\ image \in [Procs -> Files \cup {NoFile}]
    /\ mine \in [Procs -> Files \cup {NoFile}]
    /\ prev \in [Procs -> Files \cup {NoFile}]
  BY DEF UpdaterTypeOK

LEMMA UpdaterInvInit == UpdaterInit => UpdaterInv
  BY UpdaterAssumption, UpdaterTypes
     DEF UpdaterInit, UpdaterInv, FileInv, AlwaysRunnable, Works, Holds, KnownToRun, Places

\* What a process that goes from one place to another leaves of the others.
LEMMA UpdaterStepOf ==
  ASSUME UpdaterInv, NEW p \in Procs,
         \/ Launch(p) \/ NoUpdate(p) \/ Download(p) \/ Written(p) \/ VerifyRun(p)
         \/ SwapUnix(p) \/ SwapCleansUp(p) \/ MoveAway(p) \/ MoveIn(p) \/ MoveBack(p)
         \/ Leave(p) \/ Dies(p)
  PROVE  UpdaterInv'
  <1> USE DEF GoTo, diskVars, Holds, KnownToRun, Works
  <1>a. NoFile \notin Files /\ UpdaterTypeOK /\ FileInv /\ AlwaysRunnable
    BY UpdaterAssumption DEF UpdaterInv
  <1>b. /\ windows \in BOOLEAN /\ exe \in Files \cup {NoFile}
        /\ olds \subseteq Files /\ temps \subseteq Files
        /\ genuine \subseteq Files /\ runs \subseteq Files
        /\ at \in [Procs -> Places]
        /\ image \in [Procs -> Files \cup {NoFile}]
        /\ mine \in [Procs -> Files \cup {NoFile}]
        /\ prev \in [Procs -> Files \cup {NoFile}]
    BY <1>a, UpdaterTypes
  <1>t. /\ windows' \in BOOLEAN /\ exe' \in Files \cup {NoFile}
        /\ olds' \subseteq Files /\ temps' \subseteq Files
        /\ genuine' \subseteq Files /\ runs' \subseteq Files
        /\ at' \in [Procs -> Places]
        /\ image' \in [Procs -> Files \cup {NoFile}]
        /\ mine' \in [Procs -> Files \cup {NoFile}]
        /\ prev' \in [Procs -> Files \cup {NoFile}]
        => UpdaterTypeOK'
    BY DEF UpdaterTypeOK
  <1>c. IF exe = NoFile THEN windows /\ Between # {} /\ olds # {} ELSE exe \in Works
    BY <1>a DEF AlwaysRunnable, Between, FileInv
  <1>d. olds' \subseteq Works' /\ (IF exe' = NoFile THEN windows' /\ Between' # {} /\ olds' # {}
                                   ELSE exe' \in Works') => AlwaysRunnable'
    BY DEF AlwaysRunnable, Between
  <1>1. CASE Launch(p)
    <2>1. UpdaterTypeOK'  BY <1>b, <1>1, <1>t DEF Launch, Places, KeptOlds
    <2>2. FileInv'  BY <1>a, <1>b, <1>1 DEF Launch, FileInv, KeptOlds, Locked
    <2>3. AlwaysRunnable'  BY <1>b, <1>c, <1>1, <1>d, <2>2 DEF Launch, FileInv
    <2> QED BY <2>1, <2>2, <2>3 DEF UpdaterInv
  <1>2. CASE NoUpdate(p)
    <2>1. UpdaterTypeOK'  BY <1>b, <1>2, <1>t DEF NoUpdate, Places
    <2>2. FileInv'  BY <1>a, <1>b, <1>2 DEF NoUpdate, FileInv
    <2>3. AlwaysRunnable'  BY <1>b, <1>c, <1>2, <1>d, <2>2 DEF NoUpdate, FileInv, Between
    <2> QED BY <2>1, <2>2, <2>3 DEF UpdaterInv
  <1>3. CASE Download(p)
    <2>1. CASE UNCHANGED <<mine, genuine, runs, temps>> /\ GoTo(p, "leaving")
      <3>1. UpdaterTypeOK'  BY <1>b, <1>3, <2>1, <1>t DEF Download, Places
      <3>2. FileInv'  BY <1>a, <1>b, <1>3, <2>1 DEF Download, FileInv
      <3>3. AlwaysRunnable'
        BY <1>b, <1>c, <1>3, <1>d, <2>1, <3>2 DEF Download, FileInv, Between
      <3> QED BY <3>1, <3>2, <3>3 DEF UpdaterInv
    <2>2. ASSUME NEW f \in Files \ InUse, GoTo(p, "fetched"), mine' = [mine EXCEPT ![p] = f],
                 genuine' = genuine \cup {f}, runs' \in {runs \cup {f}, runs \ {f}},
                 temps' = temps \cup {f}
          PROVE  UpdaterInv'
      <3>0. /\ f \notin olds /\ f # exe
            /\ \A q \in Procs : f \notin {image[q], mine[q], prev[q]}
        BY DEF InUse
      <3>a. at[p] = "idle" /\ UNCHANGED <<windows, exe, olds, image, prev>>
        BY <1>3 DEF Download
      <3>1. UpdaterTypeOK'  BY <1>b, <2>2, <3>a, <1>t DEF Places
      <3>2. FileInv'
        <4>1. olds' \subseteq Works'  BY <1>a, <2>2, <3>0, <3>a DEF FileInv
        <4>2. ASSUME NEW q \in Procs, Holds(q)'
              PROVE  /\ mine'[q] \in Files /\ mine'[q] \in genuine'
                     /\ mine'[q] \notin olds' \cup {exe'}
                     /\ \A o \in Procs \ {q} : mine'[o] # mine'[q]
          <5>1. CASE q = p  BY <1>b, <2>2, <3>0, <3>a, <5>1
          <5>2. CASE q # p  BY <1>a, <1>b, <2>2, <3>0, <3>a, <4>2, <5>2 DEF FileInv
          <5> QED BY <5>1, <5>2
        <4>3. ASSUME NEW q \in Procs, KnownToRun(q)' PROVE mine'[q] \in runs'
          <5>1. q # p  BY <1>b, <2>2, <4>3
          <5>2. mine[q] \in runs /\ mine'[q] = mine[q] /\ mine[q] # f
            BY <1>a, <1>b, <2>2, <3>0, <4>3, <5>1 DEF FileInv
          <5> QED BY <2>2, <5>2
        <4>4. ASSUME NEW q \in Procs
              PROVE  /\ at'[q] \notin {"out", "died"} => image'[q] \in Files
                     /\ windows' /\ image'[q] \in Files => image'[q] \in olds' \cup {exe'}
                     /\ at'[q] \in {"swapping", "moved", "back", "lost"} => windows'
          BY <1>a, <1>b, <2>2, <3>a DEF FileInv
        <4> QED BY <4>1, <4>2, <4>3, <4>4 DEF FileInv
      <3>3. AlwaysRunnable'
        <4>1. exe # NoFile => exe' \in Works'  BY <1>c, <2>2, <3>0, <3>a
        <4>2. Between' = Between  BY <1>b, <2>2, <3>a DEF Between
        <4> QED BY <1>c, <1>d, <3>2, <3>a, <4>1, <4>2 DEF FileInv
      <3> QED BY <3>1, <3>2, <3>3 DEF UpdaterInv
    <2> QED BY <1>3, <2>1, <2>2 DEF Download, Accepts
  <1>4. CASE Written(p)
    <2>1. UpdaterTypeOK'  BY <1>b, <1>4, <1>t DEF Written, Places
    <2>2. FileInv'  BY <1>a, <1>b, <1>4 DEF Written, FileInv
    <2>3. AlwaysRunnable'  BY <1>b, <1>c, <1>4, <1>d, <2>2 DEF Written, FileInv, Between
    <2> QED BY <2>1, <2>2, <2>3 DEF UpdaterInv
  <1>5. CASE VerifyRun(p)
    <2>1. UpdaterTypeOK'  BY <1>b, <1>5, <1>t DEF VerifyRun, Places
    <2>2. FileInv'  BY <1>a, <1>b, <1>5 DEF VerifyRun, FileInv, Runs
    <2>3. AlwaysRunnable'  BY <1>b, <1>c, <1>5, <1>d, <2>2 DEF VerifyRun, FileInv, Between
    <2> QED BY <2>1, <2>2, <2>3 DEF UpdaterInv
  <1>6. CASE SwapUnix(p)
    <2>1. UpdaterTypeOK'  BY <1>b, <1>6, <1>t DEF SwapUnix, Places
    <2>2. FileInv'  BY <1>a, <1>b, <1>6 DEF SwapUnix, FileInv
    <2>3. AlwaysRunnable'  BY <1>a, <1>b, <1>c, <1>6, <1>d, <2>2 DEF SwapUnix, FileInv
    <2> QED BY <2>1, <2>2, <2>3 DEF UpdaterInv
  <1>7. CASE SwapCleansUp(p)
    <2>1. UpdaterTypeOK'  BY <1>b, <1>7, <1>t DEF SwapCleansUp, KeptOlds, Places
    <2>2. FileInv'  BY <1>a, <1>b, <1>7 DEF SwapCleansUp, FileInv, KeptOlds, Locked
    <2>3. exe = NoFile => olds' # {}
      <3>1. image[p] \in Files  BY <1>a, <1>7 DEF SwapCleansUp, FileInv
      <3>2. image[p] \in olds' \/ image[p] = exe
        BY <1>a, <1>7, <2>2, <3>1 DEF SwapCleansUp, FileInv
      <3> QED BY <1>a, <3>1, <3>2
    <2>4. Between' = Between  BY <1>b, <1>7 DEF SwapCleansUp, Between
    <2>5. AlwaysRunnable'
      BY <1>c, <1>7, <1>d, <2>2, <2>3, <2>4 DEF SwapCleansUp, FileInv
    <2> QED BY <2>1, <2>2, <2>5 DEF UpdaterInv
  <1>8. CASE MoveAway(p)
    <2>1. UpdaterTypeOK'  BY <1>b, <1>8, <1>t DEF MoveAway, Places
    <2>2. FileInv'  BY <1>a, <1>b, <1>c, <1>8 DEF MoveAway, FileInv
    <2>3. CASE exe # NoFile /\ exe' = NoFile /\ GoTo(p, "moved") /\ olds' = olds \cup {exe}
      <3>1. p \in Between'  BY <1>b, <2>3 DEF Between
      <3>2. windows'  BY <1>a, <1>8 DEF MoveAway, FileInv
      <3> QED BY <1>d, <2>1, <2>2, <2>3, <3>1, <3>2 DEF FileInv, UpdaterInv
    <2>4. CASE GoTo(p, "leaving") /\ UNCHANGED <<exe, olds>>
      <3>1. Between' = Between  BY <1>b, <1>8, <2>4 DEF MoveAway, Between
      <3> QED
        BY <1>c, <1>d, <1>8, <2>1, <2>2, <2>4, <3>1 DEF MoveAway, FileInv, UpdaterInv
    <2> QED BY <1>8, <2>3, <2>4 DEF MoveAway
  <1>9. CASE MoveIn(p)
    <2>1. UpdaterTypeOK'  BY <1>b, <1>9, <1>t DEF MoveIn, Places
    <2>2. FileInv'  BY <1>a, <1>b, <1>9 DEF MoveIn, FileInv, Locked
    <2>3. CASE exe' = mine[p]
      BY <1>a, <1>9, <1>d, <2>1, <2>2, <2>3 DEF MoveIn, FileInv, UpdaterInv
    <2>4. CASE GoTo(p, "back") /\ UNCHANGED exe
      <3>1. Between' = Between  BY <1>b, <1>9, <2>4 DEF MoveIn, Between
      <3> QED BY <1>c, <1>d, <1>9, <2>1, <2>2, <2>4, <3>1 DEF MoveIn, FileInv, UpdaterInv
    <2> QED BY <1>9, <2>3, <2>4 DEF MoveIn
  <1>10. CASE MoveBack(p)
    <2>1. UpdaterTypeOK'  BY <1>b, <1>10, <1>t DEF MoveBack, Places
    <2>2. FileInv'  BY <1>a, <1>b, <1>10 DEF MoveBack, FileInv, Locked
    <2>3. CASE exe' = prev[p] /\ prev[p] \in olds
      BY <1>a, <1>b, <1>10, <1>d, <2>1, <2>2, <2>3 DEF MoveBack, FileInv, UpdaterInv
    <2>4. CASE GoTo(p, "lost") /\ UNCHANGED <<exe, olds>>
      <3>1. Between' = Between  BY <1>b, <1>10, <2>4 DEF MoveBack, Between
      <3> QED
        BY <1>c, <1>d, <1>10, <2>1, <2>2, <2>4, <3>1 DEF MoveBack, FileInv, UpdaterInv
    <2> QED BY <1>10, <2>3, <2>4 DEF MoveBack
  <1>11. CASE Leave(p)
    <2>1. UpdaterTypeOK'  BY <1>b, <1>11, <1>t DEF Leave, Places
    <2>2. FileInv'  BY <1>a, <1>b, <1>11 DEF Leave, FileInv
    <2>3. Between' = Between  BY <1>b, <1>11 DEF Leave, Between
    <2>4. AlwaysRunnable'  BY <1>c, <1>11, <1>d, <2>2, <2>3 DEF Leave, FileInv
    <2> QED BY <2>1, <2>2, <2>4 DEF UpdaterInv
  <1>12. CASE Dies(p)
    <2>1. UpdaterTypeOK'  BY <1>b, <1>12, <1>t DEF Dies, Places
    <2>2. Works \subseteq Works' \cup {mine[p]} /\ (at[p] # "fetched" => Works' = Works)
      BY <1>12 DEF Dies
    <2>3. FileInv'
      BY <1>a, <1>b, <1>12, <2>2 DEF Dies, FileInv
    <2>4. Between \subseteq Between'  BY <1>b, <1>12 DEF Dies, Between
    <2>5. exe # NoFile => exe \in Works'
      BY <1>a, <1>c, <2>2 DEF FileInv
    <2>6. AlwaysRunnable'  BY <1>c, <1>12, <1>d, <2>3, <2>4, <2>5 DEF Dies, FileInv
    <2> QED BY <2>1, <2>3, <2>6 DEF UpdaterInv
  <1> QED BY <1>1, <1>2, <1>3, <1>4, <1>5, <1>6, <1>7, <1>8, <1>9, <1>10, <1>11, <1>12

LEMMA UpdaterStep == UpdaterInv /\ [UpdaterNext]_updaterVars => UpdaterInv'
  <1>1. UpdaterInv /\ UNCHANGED updaterVars => UpdaterInv'
    BY
       DEF UpdaterInv, UpdaterTypeOK, FileInv, AlwaysRunnable, Works, Holds, KnownToRun,
           updaterVars
  <1> QED BY <1>1, UpdaterStepOf DEF UpdaterNext

\* For any number of processes and files: at every moment, so at every crash,
\* the executable is complete, signed and known to run, or, on Windows between
\* two renames, an earlier one that works is beside it.
THEOREM UpdateIsSafe == UpdaterSpec => []AlwaysRunnable
  <1>1. UpdaterInv => AlwaysRunnable  BY DEF UpdaterInv
  <1> QED BY <1>1, UpdaterStep, UpdaterInvInit, PTL DEF UpdaterSpec

---------------------------------------------------------------------------
(* The credential store.                                                   *)

Storing == {"set", "tidy", "setFile", "write", "writeOnly"}

\* The exception of GetsLatest.
Bared == keychain = 0 /\ leftBehind

\* What Get returns at each step of a command, and what the command stores; a token
\* under that of the keychain is one that was left behind.
Placed ==
  /\ doing \in Storing <=> token # 0
  /\ steady =>
       /\ doing \notin {"tidy", "writeOnly", "deleteKey"} /\ ~Bared => Get \in expect
       /\ reachable /\ keychain # 0 /\ credsFile # 0 => leftBehind
       /\ doing = "tidy" => reachable /\ keychain = token
       /\ doing = "write" => ~reachable
       /\ doing = "writeOnly" =>
            /\ reachable => keychain = 0
            /\ Get \in expect \cup (IF reachable THEN {0} ELSE {}) \/ Bared
       /\ doing = "deleteKey" => credsFile = 0 /\ ~leftBehind /\ Get \in expect \cup {0}

CredentialsInv == CredentialsTypeOK /\ Placed

LEMMA CredentialsStep ==
  ASSUME CredentialsInv, [CredentialsNext]_credentialVars
  PROVE  CredentialsInv'
  <1>a. /\ keychain \in Tokens /\ credsFile \in Tokens /\ token \in Tokens
        /\ issued \in Tokens /\ expect \subseteq Tokens
        /\ reachable \in BOOLEAN /\ steady \in BOOLEAN /\ doing \in Steps
        /\ attempts \in 0 .. LOGIN_TRIES /\ leftBehind \in BOOLEAN
    BY DEF CredentialsInv, CredentialsTypeOK
  <1>t. /\ keychain' \in Tokens /\ credsFile' \in Tokens /\ token' \in Tokens
        /\ issued' \in Tokens /\ expect' \subseteq Tokens
        /\ reachable' \in BOOLEAN /\ steady' \in BOOLEAN /\ doing' \in Steps
        /\ attempts' \in 0 .. LOGIN_TRIES /\ leftBehind' \in BOOLEAN
        => CredentialsTypeOK'
    BY DEF CredentialsTypeOK
  <1>b. Placed  BY DEF CredentialsInv
  <1>c. /\ MAX_TOKENS \in Nat /\ LOGIN_TRIES \in Nat \ {0}
        /\ \A n \in Tokens : n < MAX_TOKENS => n + 1 \in Tokens /\ n + 1 # 0
        /\ \A n \in 0 .. LOGIN_TRIES : n < LOGIN_TRIES => n + 1 \in 0 .. LOGIN_TRIES
        /\ 0 \in Tokens /\ 0 \in 0 .. LOGIN_TRIES /\ HalfWay \subseteq Tokens
    BY <1>a, CredentialsAssumption DEF Tokens, HalfWay
  <1>d. Get \in Tokens  BY <1>a DEF Get
  <1> USE DEF Storing, Placed, Bared, Get, Steps, Step
  <1>1. CASE KeychainChanges
    BY <1>a, <1>b, <1>t, <1>1 DEF KeychainChanges, CredentialsInv
  <1>2. CASE Abort
    <2>1. CredentialsTypeOK'  BY <1>a, <1>c, <1>t, <1>2 DEF Abort, Finish
    <2>2. Placed'  BY <1>a, <1>b, <1>d, <1>2 DEF Abort, Finish, HalfWay
    <2> QED BY <2>1, <2>2 DEF CredentialsInv
  <1>3. CASE Login \/ Logout \/ Revoked
    <2>1. CredentialsTypeOK'  BY <1>a, <1>t, <1>3 DEF Login, Logout, Revoked
    <2>2. Placed'  BY <1>b, <1>3 DEF Login, Logout, Revoked
    <2> QED BY <2>1, <2>2 DEF CredentialsInv
  <1>4. CASE CodeAccepted \/ AddToken
    <2>1. CredentialsTypeOK'
      BY <1>a, <1>c, <1>t, <1>4 DEF CodeAccepted, AddToken, Issue
    <2>2. Placed'  BY <1>a, <1>b, <1>c, <1>4 DEF CodeAccepted, AddToken, Issue
    <2> QED BY <2>1, <2>2 DEF CredentialsInv
  <1>5. CASE CodeAgain
    <2>1. CredentialsTypeOK'  BY <1>a, <1>c, <1>t, <1>5 DEF CodeAgain
    <2>2. Placed'  BY <1>b, <1>5 DEF CodeAgain
    <2> QED BY <2>1, <2>2 DEF CredentialsInv
  <1>6. CASE TooManyCodes \/ NotRevoked
    <2>1. CredentialsTypeOK'
      BY <1>a, <1>c, <1>t, <1>6 DEF TooManyCodes, NotRevoked, Finish
    <2>2. Placed'  BY <1>b, <1>6 DEF TooManyCodes, NotRevoked, Finish
    <2> QED BY <2>1, <2>2 DEF CredentialsInv
  <1>7. CASE SetKeychain \/ SetFileOnly
    <2>1. CredentialsTypeOK'  BY <1>a, <1>c, <1>t, <1>7 DEF SetKeychain, SetFileOnly
    <2>2. CASE SetKeychain  BY <1>a, <1>b, <2>1, <2>2 DEF SetKeychain, CredentialsInv
    <2>3. CASE SetFileOnly  BY <1>a, <1>b, <2>1, <2>3 DEF SetFileOnly, CredentialsInv
    <2> QED BY <1>7, <2>2, <2>3
  <1>8. CASE Tidy \/ WriteFile
    <2>1. CredentialsTypeOK'  BY <1>a, <1>c, <1>t, <1>8 DEF Tidy, WriteFile, Finish
    <2>2. CASE Tidy  BY <1>a, <1>b, <2>1, <2>2 DEF Tidy, Finish, CredentialsInv
    <2>3. CASE WriteFile  BY <1>a, <1>b, <2>1, <2>3 DEF WriteFile, Finish, CredentialsInv
    <2> QED BY <1>8, <2>2, <2>3
  <1>9. CASE DeleteFromFile \/ DeleteKey
    <2>1. CredentialsTypeOK'
      BY <1>a, <1>c, <1>t, <1>9 DEF DeleteFromFile, DeleteKey, Finish
    <2>2. Placed'  BY <1>b, <1>9 DEF DeleteFromFile, DeleteKey, Finish
    <2> QED BY <2>1, <2>2 DEF CredentialsInv
  <1>10. CASE UNCHANGED credentialVars
    BY <1>a, <1>b, <1>t, <1>10 DEF credentialVars, CredentialsInv
  <1> QED
    BY <1>1, <1>2, <1>3, <1>4, <1>5, <1>6, <1>7, <1>8, <1>9, <1>10 DEF CredentialsNext

LEMMA CredentialsStart == CredentialsInit => CredentialsInv
  <1> SUFFICES ASSUME CredentialsInit PROVE CredentialsInv  OBVIOUS
  <1>1. 0 \in Tokens /\ 0 \in 0 .. LOGIN_TRIES  BY CredentialsAssumption DEF Tokens
  <1>2. CredentialsTypeOK
    BY <1>1 DEF CredentialsInit, CredentialsTypeOK, Steps
  <1>3. Placed  BY DEF CredentialsInit, Placed, Bared, Storing, Get
  <1> QED BY <1>2, <1>3 DEF CredentialsInv

\* With a keychain that is steadily there or steadily absent, Get returns what
\* was last saved, or nothing after a logout, wherever the commands before it
\* stored it.  A command that was cut off leaves what was there or what it meant to
\* leave, SetFile also none; only when a Set failed to remove an older token from the
\* file and the keychain's copy is gone since may Get return that one.
THEOREM GetIsLatest == CredentialsSpec => []GetsLatest
  <1>1. CredentialsInv => GetsLatest  BY DEF CredentialsInv, Placed, Bared, GetsLatest
  <1> QED BY <1>1, CredentialsStart, CredentialsStep, PTL DEF CredentialsSpec

---------------------------------------------------------------------------
(* The service manager.                                                    *)

\* What may be left of a command's steps.
Rest ==
  /\ command = "none" => todo = <<>>
  /\ goos = "darwin" =>
       /\ command = "install" =>
            todo \in {<<"write", "bootout", "wait">>, <<"bootout", "wait">>, <<"wait">>, <<>>}
       /\ command = "uninstall" => todo \in {<<"bootout", "remove">>, <<"remove">>, <<>>}
       /\ command = "start" => todo \in {<<"load">>, <<>>}
       /\ command = "stop" => todo \in {<<"bootout", "wait">>, <<"wait">>, <<>>}
       /\ command = "restart" =>
            todo \in {<<"bootout", "wait", "load">>, <<"wait", "load">>, <<"load">>, <<>>}
  /\ goos = "linux" =>
       /\ command = "install" =>
            todo \in {<<"write", "reload", "enable">>, <<"reload", "enable">>, <<"enable">>, <<>>}
       /\ command = "uninstall" =>
            todo \in {<<"disable", "remove", "reload">>, <<"remove", "reload">>, <<"reload">>, <<>>}
       /\ command = "start" => todo \in {<<"start">>, <<>>}
       /\ command = "stop" => todo \in {<<"stop">>, <<>>}
       /\ command = "restart" => todo \in {<<"restart">>, <<>>}
  /\ goos = "windows" =>
       /\ command = "install" => todo \in {<<"write">>, <<>>}
       /\ command = "uninstall" => todo \in {<<"stop", "remove">>, <<"remove">>, <<>>}
       /\ command = "start" => todo \in {<<"start">>, <<>>}
       /\ command = "stop" => todo \in {<<"stop">>, <<>>}
       /\ command = "restart" => todo \in {<<"stop", "start">>, <<"start">>, <<>>}

NextIs(step) == todo # <<>> /\ Head(todo) = step

\* The supervisor keeps the job up from the installed definition, for good.
Kept ==
  /\ active /\ held = unit /\ unit # 0 /\ job \in {0, unit} /\ ~draining
  /\ goos = "linux" => enabled

\* What each platform's supervisor has, whatever commands ran.
Supervised ==
  /\ goos = "darwin" =>
       /\ job # 0 => held # 0
       /\ active => held # 0 /\ ~draining
       /\ draining => job # 0
  /\ goos # "darwin" => ~draining
  /\ goos = "windows" => held = unit

\* An install on its way, and one that succeeded.
Installing ==
  /\ command = "install" /\ ~NextIs("write") => unit # 0
  /\ goos = "linux" /\ command = "install" /\ ~NextIs("write") /\ ~NextIs("reload")
       => held = unit
  /\ goos = "linux" /\ command = "install" /\ todo = <<>> => enabled
  /\ installed =>
       /\ command \notin {"install", "uninstall"} /\ unit # 0
       /\ goos = "linux" => held = unit /\ enabled

\* A restart on its way, and one that went through.
Restarting ==
  /\ command = "restart" /\ clean /\ installed =>
       /\ NextIs("wait") => ~active /\ (held # 0 => job # 0 /\ draining)
       /\ NextIs("load") => ~active /\ held = 0
       /\ NextIs("start") => ~active /\ job = 0
       /\ todo = <<>> => Kept
  /\ restarted => Kept /\ command \in {"none", "start"}

ServiceInv == ServiceTypeOK /\ Rest /\ Supervised /\ Installing /\ Restarting

\* The steps of the plans, one after the other.
LEMMA Tails ==
  /\ Tail(<<"wait">>) = <<>>
  /\ Tail(<<"remove">>) = <<>>
  /\ Tail(<<"load">>) = <<>>
  /\ Tail(<<"enable">>) = <<>>
  /\ Tail(<<"reload">>) = <<>>
  /\ Tail(<<"start">>) = <<>>
  /\ Tail(<<"stop">>) = <<>>
  /\ Tail(<<"restart">>) = <<>>
  /\ Tail(<<"write">>) = <<>>
  /\ Tail(<<"bootout", "wait">>) = <<"wait">>
  /\ Tail(<<"bootout", "remove">>) = <<"remove">>
  /\ Tail(<<"wait", "load">>) = <<"load">>
  /\ Tail(<<"reload", "enable">>) = <<"enable">>
  /\ Tail(<<"remove", "reload">>) = <<"reload">>
  /\ Tail(<<"stop", "remove">>) = <<"remove">>
  /\ Tail(<<"stop", "start">>) = <<"start">>
  /\ Tail(<<"write", "bootout", "wait">>) = <<"bootout", "wait">>
  /\ Tail(<<"bootout", "wait", "load">>) = <<"wait", "load">>
  /\ Tail(<<"write", "reload", "enable">>) = <<"reload", "enable">>
  /\ Tail(<<"disable", "remove", "reload">>) = <<"remove", "reload">>
  OBVIOUS

LEMMA Heads ==
  /\ Head(<<"wait">>) = "wait" /\ <<"wait">> # <<>>
  /\ Head(<<"remove">>) = "remove" /\ <<"remove">> # <<>>
  /\ Head(<<"load">>) = "load" /\ <<"load">> # <<>>
  /\ Head(<<"enable">>) = "enable" /\ <<"enable">> # <<>>
  /\ Head(<<"reload">>) = "reload" /\ <<"reload">> # <<>>
  /\ Head(<<"start">>) = "start" /\ <<"start">> # <<>>
  /\ Head(<<"stop">>) = "stop" /\ <<"stop">> # <<>>
  /\ Head(<<"restart">>) = "restart" /\ <<"restart">> # <<>>
  /\ Head(<<"write">>) = "write" /\ <<"write">> # <<>>
  /\ Head(<<"bootout", "wait">>) = "bootout" /\ <<"bootout", "wait">> # <<>>
  /\ Head(<<"bootout", "remove">>) = "bootout" /\ <<"bootout", "remove">> # <<>>
  /\ Head(<<"wait", "load">>) = "wait" /\ <<"wait", "load">> # <<>>
  /\ Head(<<"reload", "enable">>) = "reload" /\ <<"reload", "enable">> # <<>>
  /\ Head(<<"remove", "reload">>) = "remove" /\ <<"remove", "reload">> # <<>>
  /\ Head(<<"stop", "remove">>) = "stop" /\ <<"stop", "remove">> # <<>>
  /\ Head(<<"stop", "start">>) = "stop" /\ <<"stop", "start">> # <<>>
  /\ Head(<<"write", "bootout", "wait">>) = "write" /\ <<"write", "bootout", "wait">> # <<>>
  /\ Head(<<"bootout", "wait", "load">>) = "bootout" /\ <<"bootout", "wait", "load">> # <<>>
  /\ Head(<<"write", "reload", "enable">>) = "write" /\ <<"write", "reload", "enable">> # <<>>
  /\ Head(<<"disable", "remove", "reload">>) = "disable" /\ <<"disable", "remove", "reload">> # <<>>
  OBVIOUS

LEMMA RestIsTaken ==
  ASSUME Rest, command \in Commands \cup {"none"}, goos \in {"darwin", "linux", "windows"},
         NEW step, TakeStep(step)
  PROVE  Rest' /\ command' # "none"
  <1>0. /\ command # "none" /\ command \in Commands /\ todo' = Tail(todo)
        /\ UNCHANGED <<goos, command>>
    BY DEF Rest, TakeStep
  <1>1. CASE goos = "darwin"
    <2>1. CASE command = "install"
      BY <1>0, <1>1, <2>1, Tails DEF Rest, TakeStep
    <2>2. CASE command = "uninstall"
      BY <1>0, <1>1, <2>2, Tails DEF Rest, TakeStep
    <2>3. CASE command = "start"
      BY <1>0, <1>1, <2>3, Tails DEF Rest, TakeStep
    <2>4. CASE command = "stop"
      BY <1>0, <1>1, <2>4, Tails DEF Rest, TakeStep
    <2>5. CASE command = "restart"
      BY <1>0, <1>1, <2>5, Tails DEF Rest, TakeStep
    <2> QED BY <1>0, <2>1, <2>2, <2>3, <2>4, <2>5 DEF Commands
  <1>2. CASE goos = "linux"
    <2>1. CASE command = "install"
      BY <1>0, <1>2, <2>1, Tails DEF Rest, TakeStep
    <2>2. CASE command = "uninstall"
      BY <1>0, <1>2, <2>2, Tails DEF Rest, TakeStep
    <2>3. CASE command = "start"
      BY <1>0, <1>2, <2>3, Tails DEF Rest, TakeStep
    <2>4. CASE command = "stop"
      BY <1>0, <1>2, <2>4, Tails DEF Rest, TakeStep
    <2>5. CASE command = "restart"
      BY <1>0, <1>2, <2>5, Tails DEF Rest, TakeStep
    <2> QED BY <1>0, <2>1, <2>2, <2>3, <2>4, <2>5 DEF Commands
  <1>3. CASE goos = "windows"
    <2>1. CASE command = "install"
      BY <1>0, <1>3, <2>1, Tails DEF Rest, TakeStep
    <2>2. CASE command = "uninstall"
      BY <1>0, <1>3, <2>2, Tails DEF Rest, TakeStep
    <2>3. CASE command = "start"
      BY <1>0, <1>3, <2>3, Tails DEF Rest, TakeStep
    <2>4. CASE command = "stop"
      BY <1>0, <1>3, <2>4, Tails DEF Rest, TakeStep
    <2>5. CASE command = "restart"
      BY <1>0, <1>3, <2>5, Tails DEF Rest, TakeStep
    <2> QED BY <1>0, <2>1, <2>2, <2>3, <2>4, <2>5 DEF Commands
  <1> QED BY <1>1, <1>2, <1>3

\* The step that is taken, and the one that follows it.
LEMMA StepsInOrder ==
  ASSUME Rest, command \in Commands \cup {"none"}, goos \in {"darwin", "linux", "windows"},
         NEW step, TakeStep(step)
  PROVE  /\ command = "install" =>
              \/ /\ goos = "darwin"
                 /\ \/ step = "write" /\ NextIs("bootout")'
                    \/ step = "bootout" /\ NextIs("wait")'
                    \/ step = "wait" /\ todo' = <<>>
              \/ /\ goos = "linux"
                 /\ \/ step = "write" /\ NextIs("reload")'
                    \/ step = "reload" /\ NextIs("enable")'
                    \/ step = "enable" /\ todo' = <<>>
              \/ goos = "windows" /\ step = "write" /\ todo' = <<>>
         /\ command = "restart" =>
              \/ /\ goos = "darwin"
                 /\ \/ step = "bootout" /\ NextIs("wait")'
                    \/ step = "wait" /\ NextIs("load")'
                    \/ step = "load" /\ todo' = <<>>
              \/ goos = "linux" /\ step = "restart" /\ todo' = <<>>
              \/ /\ goos = "windows"
                 /\ \/ step = "stop" /\ NextIs("start")'
                    \/ step = "start" /\ todo' = <<>>
         /\ command = "uninstall" =>
              \/ goos = "darwin" /\ step \in {"bootout", "remove"}
              \/ goos = "linux" /\ step \in {"disable", "remove", "reload"}
              \/ goos = "windows" /\ step \in {"stop", "remove"}
         /\ command = "start" => step = IF goos = "darwin" THEN "load" ELSE "start"
         /\ command = "stop" =>
              \/ goos = "darwin" /\ step \in {"bootout", "wait"}
              \/ goos # "darwin" /\ step = "stop"
  <1>1. CASE command = "install"
    <2>1. CASE goos = "darwin"
      <3>1. CASE todo = <<"write", "bootout", "wait">>
        BY <1>1, <2>1, <3>1, Heads, Tails DEF TakeStep, NextIs
      <3>2. CASE todo = <<"bootout", "wait">>
        BY <1>1, <2>1, <3>2, Heads, Tails DEF TakeStep, NextIs
      <3>3. CASE todo = <<"wait">>
        BY <1>1, <2>1, <3>3, Heads, Tails DEF TakeStep, NextIs
      <3> QED
        BY <1>1, <2>1, <3>1, <3>2, <3>3 DEF Rest, TakeStep
    <2>2. CASE goos = "linux"
      <3>1. CASE todo = <<"write", "reload", "enable">>
        BY <1>1, <2>2, <3>1, Heads, Tails DEF TakeStep, NextIs
      <3>2. CASE todo = <<"reload", "enable">>
        BY <1>1, <2>2, <3>2, Heads, Tails DEF TakeStep, NextIs
      <3>3. CASE todo = <<"enable">>
        BY <1>1, <2>2, <3>3, Heads, Tails DEF TakeStep, NextIs
      <3> QED
        BY <1>1, <2>2, <3>1, <3>2, <3>3 DEF Rest, TakeStep
    <2>3. CASE goos = "windows"  BY <1>1, <2>3, Heads, Tails, ZenonT(40) DEF Rest, TakeStep, NextIs
    <2> QED BY <2>1, <2>2, <2>3
  <1>2. CASE command = "restart"
    <2>1. CASE goos = "darwin"
      <3>1. CASE todo = <<"bootout", "wait", "load">>
        BY <1>2, <2>1, <3>1, Heads, Tails DEF TakeStep, NextIs
      <3>2. CASE todo = <<"wait", "load">>
        BY <1>2, <2>1, <3>2, Heads, Tails DEF TakeStep, NextIs
      <3>3. CASE todo = <<"load">>
        BY <1>2, <2>1, <3>3, Heads, Tails DEF TakeStep, NextIs
      <3> QED
        BY <1>2, <2>1, <3>1, <3>2, <3>3 DEF Rest, TakeStep
    <2>2. CASE goos = "linux"  BY <1>2, <2>2, Heads, Tails, ZenonT(40) DEF Rest, TakeStep, NextIs
    <2>3. CASE goos = "windows"  BY <1>2, <2>3, Heads, Tails, ZenonT(40) DEF Rest, TakeStep, NextIs
    <2> QED BY <2>1, <2>2, <2>3
  <1>3. CASE command = "uninstall"
    <2>1. CASE goos = "darwin"  BY <1>3, <2>1, Heads, Tails DEF Rest, TakeStep, NextIs
    <2>2. CASE goos = "linux"  BY <1>3, <2>2, Heads, Tails DEF Rest, TakeStep, NextIs
    <2>3. CASE goos = "windows"  BY <1>3, <2>3, Heads, Tails DEF Rest, TakeStep, NextIs
    <2> QED BY <2>1, <2>2, <2>3
  <1>4. CASE command = "start"
    <2>1. CASE goos = "darwin"  BY <1>4, <2>1, Heads, Tails DEF Rest, TakeStep, NextIs
    <2>2. CASE goos = "linux"  BY <1>4, <2>2, Heads, Tails DEF Rest, TakeStep, NextIs
    <2>3. CASE goos = "windows"  BY <1>4, <2>3, Heads, Tails DEF Rest, TakeStep, NextIs
    <2> QED BY <2>1, <2>2, <2>3
  <1>5. CASE command = "stop"
    <2>1. CASE goos = "darwin"  BY <1>5, <2>1, Heads, Tails DEF Rest, TakeStep, NextIs
    <2>2. CASE goos = "linux"  BY <1>5, <2>2, Heads, Tails DEF Rest, TakeStep, NextIs
    <2>3. CASE goos = "windows"  BY <1>5, <2>3, Heads, Tails DEF Rest, TakeStep, NextIs
    <2> QED BY <2>1, <2>2, <2>3
  <1>6. command \in Commands  BY RestIsTaken DEF TakeStep
  <1> QED BY <1>1, <1>2, <1>3, <1>4, <1>5, <1>6 DEF Commands

LEMMA ServiceStep ==
  ASSUME ServiceInv, [ServiceNext]_serviceVars
  PROVE  ServiceInv'
  <1> DEFINE Count == 0 .. MAX_INSTALLS
  <1>a. /\ goos \in {"darwin", "linux", "windows"}
        /\ unit \in Count /\ held \in Count /\ job \in Count /\ writes \in Count
        /\ active \in BOOLEAN /\ enabled \in BOOLEAN /\ draining \in BOOLEAN
        /\ clean \in BOOLEAN /\ installed \in BOOLEAN /\ restarted \in BOOLEAN
        /\ command \in Commands \cup {"none"}
    BY DEF ServiceInv, ServiceTypeOK
  <1>t. /\ goos' \in {"darwin", "linux", "windows"}
        /\ unit' \in Count /\ held' \in Count /\ job' \in Count /\ writes' \in Count
        /\ active' \in BOOLEAN /\ enabled' \in BOOLEAN /\ draining' \in BOOLEAN
        /\ clean' \in BOOLEAN /\ installed' \in BOOLEAN /\ restarted' \in BOOLEAN
        /\ command' \in Commands \cup {"none"}
        => ServiceTypeOK'
    BY DEF ServiceTypeOK
  <1>b. Rest /\ Supervised /\ Installing /\ Restarting  BY DEF ServiceInv
  <1>c. /\ 0 \in Count /\ \A n \in Count : n < MAX_INSTALLS => n + 1 \in Count /\ n + 1 # 0
    BY ServiceAssumption
  <1>n. /\ \A one, other : NextIs(one)' /\ NextIs(other)' => one = other
        /\ \A one : NextIs(one)' => todo' # <<>>
    BY DEF NextIs
  <1> HIDE DEF Count
  <1>1. CASE \E c \in Commands : RunCommand(c)
    <2>1. PICK c \in Commands : RunCommand(c)  BY <1>1
    <2>2. ServiceTypeOK'  BY <1>a, <1>t, <2>1 DEF RunCommand, supervisorVars
    <2>3. Rest'
      <3>1. CASE goos = "darwin"  BY <2>1, <3>1 DEF RunCommand, Plan, Rest, Commands
      <3>2. CASE goos = "linux"  BY <2>1, <3>2 DEF RunCommand, Plan, Rest, Commands
      <3>3. CASE goos = "windows"  BY <2>1, <3>3 DEF RunCommand, Plan, Rest, Commands
      <3> QED BY <1>a, <3>1, <3>2, <3>3
    <2>4. Supervised'  BY <1>b, <2>1 DEF RunCommand, supervisorVars, Supervised
    <2>5. Installing'
      <3>1. c = "install" => NextIs("write")' /\ todo' # <<>>
        BY <1>a, <2>1, Heads DEF RunCommand, Plan, NextIs, Commands
      <3> QED BY <1>a, <1>b, <2>1, <3>1 DEF RunCommand, supervisorVars, Installing
    <2>6. Restarting'
      <3>1. c = "restart" =>
              /\ todo' # <<>>
              /\ \A step \in {"wait", "load", "start"} : ~NextIs(step)'
        BY <1>a, <2>1, Heads DEF RunCommand, Plan, NextIs, Commands
      <3>2. restarted' => restarted /\ c = "start"  BY <1>a, <2>1 DEF RunCommand
      <3>3. Kept => Kept'  BY <2>1 DEF RunCommand, supervisorVars, Kept
      <3> QED BY <1>b, <2>1, <3>1, <3>2, <3>3 DEF RunCommand, Restarting
    <2> QED BY <2>2, <2>3, <2>4, <2>5, <2>6 DEF ServiceInv
  <1>2. CASE StepFails
    <2>1. ServiceTypeOK'  BY <1>a, <1>t, <1>2 DEF StepFails, supervisorVars
    <2>2. Rest'
      <3>1. CASE goos = "darwin"
        BY <1>a, <1>b, <1>2, <3>1, Heads, Tails, ZenonT(40)
           DEF StepFails, Tolerated, Rest, Commands
      <3>2. CASE goos = "linux"
        BY <1>a, <1>b, <1>2, <3>2, Heads, Tails, ZenonT(40)
           DEF StepFails, Tolerated, Rest, Commands
      <3>3. CASE goos = "windows"
        <4>1. CASE command \in {"uninstall", "restart"}
          <5>1. todo \in {<<"stop", "remove">>, <<"stop", "start">>, <<"remove">>, <<"start">>}
            BY <1>b, <1>2, <3>3, <4>1 DEF StepFails, Rest
          <5>2. CASE todo \in {<<"remove">>, <<"start">>}
            BY <1>2, <3>3, <4>1, <5>2, Heads DEF StepFails, Tolerated, Rest
          <5>3. CASE todo = <<"stop", "remove">>
            <6>1. command = "uninstall"  BY <1>b, <3>3, <4>1, <5>3, Heads, Tails DEF Rest
            <6> QED BY <1>2, <3>3, <5>3, <6>1, Heads, Tails DEF StepFails, Tolerated, Rest
          <5>4. CASE todo = <<"stop", "start">>
            <6>1. command = "restart"  BY <1>b, <3>3, <4>1, <5>4, Heads, Tails DEF Rest
            <6> QED BY <1>2, <3>3, <5>4, <6>1, Heads, Tails DEF StepFails, Tolerated, Rest
          <5> QED BY <5>1, <5>2, <5>3, <5>4
        <4>2. CASE command \in {"none", "install", "start", "stop"}
          BY <1>b, <1>2, <3>3, <4>2, Heads, Tails DEF StepFails, Tolerated, Rest
        <4> QED BY <1>a, <4>1, <4>2 DEF Commands
      <3> QED BY <1>a, <3>1, <3>2, <3>3
    <2>3. Supervised'  BY <1>b, <1>2 DEF StepFails, supervisorVars, Supervised
    <2>4. Installing'
      <3>1. command = "install" /\ Head(todo) = "bootout" => goos = "darwin" /\ unit # 0
        BY <1>a, <1>b, <1>2, Heads DEF StepFails, Rest, Installing, NextIs, Commands
      <3>2. command' = "install" => FALSE  BY <1>2 DEF StepFails, Tolerated
      <3>3. command' \in {command, "none"}  BY <1>2 DEF StepFails
      <3> QED
        BY <1>a, <1>b, <1>2, <3>1, <3>2, <3>3 DEF StepFails, supervisorVars, Installing
    <2>5. Restarting'
      <3>1. Kept => Kept'  BY <1>2 DEF StepFails, supervisorVars, Kept
      <3> QED BY <1>b, <1>2, <3>1 DEF StepFails, Restarting
    <2> QED BY <2>1, <2>2, <2>3, <2>4, <2>5 DEF ServiceInv
  <1>3. CASE Done
    <2>1. ServiceTypeOK'  BY <1>a, <1>t, <1>3 DEF Done, supervisorVars
    <2>2. Rest'  BY <1>b, <1>3 DEF Done, Rest
    <2>3. Supervised'  BY <1>b, <1>3 DEF Done, supervisorVars, Supervised
    <2>4. Installing'
      BY <1>a, <1>b, <1>3 DEF Done, supervisorVars, Installing, NextIs
    <2>5. Restarting'
      <3>1. Kept => Kept'  BY <1>3 DEF Done, supervisorVars, Kept
      <3> QED BY <1>a, <1>b, <1>3, <3>1 DEF Done, Restarting
    <2> QED BY <2>1, <2>2, <2>3, <2>4, <2>5 DEF ServiceInv
  <1>4. CASE WriteUnit
    <2>0. TakeStep("write")  BY <1>4 DEF WriteUnit
    <2>1. NextIs("write") /\ \A other : NextIs(other) => other = "write"
      BY <2>0 DEF TakeStep, NextIs
    <2>2. Rest' /\ command \in Commands  BY <1>a, <1>b, <2>0, RestIsTaken DEF TakeStep
    <2>3. /\ command = "install" /\ (goos # "windows" => todo' # <<>>) /\ ~NextIs("write")'
          /\ (goos = "linux" => NextIs("reload")')
      BY <1>a, <1>b, <1>n, <2>0, <2>2, StepsInOrder DEF Commands
    <2>4. UNCHANGED <<goos, command, clean, installed, restarted>>  BY <2>0 DEF TakeStep
    <2>5. ServiceTypeOK'  BY <1>a, <1>c, <1>t, <1>4, <2>4 DEF WriteUnit, supervisorVars
    <2>6. Supervised'
      BY <1>a, <1>b, <1>c, <1>4, <2>3, <2>4 DEF WriteUnit, supervisorVars, Supervised
    <2>7. Installing'
      BY <1>a, <1>b, <1>c, <1>n, <1>4, <2>1, <2>3, <2>4
         DEF WriteUnit, supervisorVars, Installing
    <2>8. Restarting'
      BY <1>a, <1>b, <1>n, <1>4, <2>1, <2>3, <2>4
         DEF WriteUnit, supervisorVars, Restarting, Kept, Supervised, Installing
    <2> QED BY <2>2, <2>5, <2>6, <2>7, <2>8 DEF ServiceInv
  <1>5. CASE RemoveUnit
    <2>0. TakeStep("remove")  BY <1>5 DEF RemoveUnit
    <2>1. NextIs("remove") /\ \A other : NextIs(other) => other = "remove"
      BY <2>0 DEF TakeStep, NextIs
    <2>2. Rest' /\ command \in Commands  BY <1>a, <1>b, <2>0, RestIsTaken DEF TakeStep
    <2>3. /\ command = "uninstall"
      BY <1>a, <1>b, <1>n, <2>0, <2>2, StepsInOrder DEF Commands
    <2>4. UNCHANGED <<goos, command, clean, installed, restarted>>  BY <2>0 DEF TakeStep
    <2>5. ServiceTypeOK'  BY <1>a, <1>c, <1>t, <1>5, <2>4 DEF RemoveUnit, supervisorVars
    <2>6. Supervised'
      BY <1>a, <1>b, <1>c, <1>5, <2>3, <2>4 DEF RemoveUnit, supervisorVars, Supervised
    <2>7. Installing'
      BY <1>a, <1>b, <1>c, <1>n, <1>5, <2>1, <2>3, <2>4
         DEF RemoveUnit, supervisorVars, Installing
    <2>8. Restarting'
      BY <1>a, <1>b, <1>n, <1>5, <2>1, <2>3, <2>4
         DEF RemoveUnit, supervisorVars, Restarting, Kept, Supervised, Installing
    <2> QED BY <2>2, <2>5, <2>6, <2>7, <2>8 DEF ServiceInv
  <1>6. CASE Reload
    <2>0. TakeStep("reload")  BY <1>6 DEF Reload
    <2>1. NextIs("reload") /\ \A other : NextIs(other) => other = "reload"
      BY <2>0 DEF TakeStep, NextIs
    <2>2. Rest' /\ command \in Commands  BY <1>a, <1>b, <2>0, RestIsTaken DEF TakeStep
    <2>3. /\ goos = "linux" /\ command \in {"install", "uninstall"}
          /\ (command = "install" => NextIs("enable")')
      BY <1>a, <1>b, <1>n, <2>0, <2>2, StepsInOrder DEF Commands
    <2>4. UNCHANGED <<goos, command, clean, installed, restarted>>  BY <2>0 DEF TakeStep
    <2>5. ServiceTypeOK'  BY <1>a, <1>c, <1>t, <1>6, <2>4 DEF Reload, supervisorVars
    <2>6. Supervised'
      BY <1>a, <1>b, <1>c, <1>6, <2>3, <2>4 DEF Reload, supervisorVars, Supervised
    <2>7. Installing'
      BY <1>a, <1>b, <1>c, <1>n, <1>6, <2>1, <2>3, <2>4
         DEF Reload, supervisorVars, Installing
    <2>8. Restarting'
      BY <1>a, <1>b, <1>n, <1>6, <2>1, <2>3, <2>4
         DEF Reload, supervisorVars, Restarting, Kept, Supervised, Installing
    <2> QED BY <2>2, <2>5, <2>6, <2>7, <2>8 DEF ServiceInv
  <1>7. CASE Enable
    <2>0. TakeStep("enable")  BY <1>7 DEF Enable
    <2>1. NextIs("enable") /\ \A other : NextIs(other) => other = "enable"
      BY <2>0 DEF TakeStep, NextIs
    <2>2. Rest' /\ command \in Commands  BY <1>a, <1>b, <2>0, RestIsTaken DEF TakeStep
    <2>3. /\ goos = "linux" /\ command = "install" /\ todo' = <<>>
      BY <1>a, <1>b, <1>n, <2>0, <2>2, StepsInOrder DEF Commands
    <2>4. UNCHANGED <<goos, command, clean, installed, restarted>>  BY <2>0 DEF TakeStep
    <2>5. ServiceTypeOK'  BY <1>a, <1>c, <1>t, <1>7, <2>4 DEF Enable, supervisorVars
    <2>6. Supervised'
      BY <1>a, <1>b, <1>c, <1>7, <2>3, <2>4 DEF Enable, supervisorVars, Supervised
    <2>7. Installing'
      BY <1>a, <1>b, <1>c, <1>n, <1>7, <2>1, <2>3, <2>4
         DEF Enable, supervisorVars, Installing
    <2>8. Restarting'
      BY <1>a, <1>b, <1>n, <1>7, <2>1, <2>3, <2>4
         DEF Enable, supervisorVars, Restarting, Kept, Supervised, Installing
    <2> QED BY <2>2, <2>5, <2>6, <2>7, <2>8 DEF ServiceInv
  <1>8. CASE Bootout
    <2>0. TakeStep("bootout")  BY <1>8 DEF Bootout
    <2>1. NextIs("bootout") /\ \A other : NextIs(other) => other = "bootout"
      BY <2>0 DEF TakeStep, NextIs
    <2>2. Rest' /\ command \in Commands  BY <1>a, <1>b, <2>0, RestIsTaken DEF TakeStep
    <2>3. /\ goos = "darwin" /\ command \in {"install", "uninstall", "stop", "restart"}
          /\ (command = "restart" => NextIs("wait")')
      BY <1>a, <1>b, <1>n, <2>0, <2>2, StepsInOrder DEF Commands
    <2>4. UNCHANGED <<goos, command, clean, installed, restarted>>  BY <2>0 DEF TakeStep
    <2>5. ServiceTypeOK'  BY <1>a, <1>c, <1>t, <1>8, <2>4 DEF Bootout, supervisorVars
    <2>6. Supervised'
      BY <1>a, <1>b, <1>c, <1>8, <2>3, <2>4 DEF Bootout, supervisorVars, Supervised
    <2>7. Installing'
      BY <1>a, <1>b, <1>c, <1>n, <1>8, <2>1, <2>3, <2>4
         DEF Bootout, supervisorVars, Installing
    <2>8. Restarting'
      BY <1>a, <1>b, <1>n, <1>8, <2>1, <2>3, <2>4
         DEF Bootout, supervisorVars, Restarting, Kept, Supervised, Installing
    <2> QED BY <2>2, <2>5, <2>6, <2>7, <2>8 DEF ServiceInv
  <1>9. CASE WaitUnloaded
    <2>0. TakeStep("wait")  BY <1>9 DEF WaitUnloaded
    <2>1. NextIs("wait") /\ \A other : NextIs(other) => other = "wait"
      BY <2>0 DEF TakeStep, NextIs
    <2>2. Rest' /\ command \in Commands  BY <1>a, <1>b, <2>0, RestIsTaken DEF TakeStep
    <2>3. /\ goos = "darwin" /\ command \in {"install", "stop", "restart"}
          /\ (command = "restart" => NextIs("load")')
      BY <1>a, <1>b, <1>n, <2>0, <2>2, StepsInOrder DEF Commands
    <2>4. UNCHANGED <<goos, command, clean, installed, restarted>>  BY <2>0 DEF TakeStep
    <2>5. ServiceTypeOK'  BY <1>a, <1>c, <1>t, <1>9, <2>4 DEF WaitUnloaded, supervisorVars
    <2>6. Supervised'
      BY <1>a, <1>b, <1>c, <1>9, <2>3, <2>4 DEF WaitUnloaded, supervisorVars, Supervised
    <2>7. Installing'
      BY <1>a, <1>b, <1>c, <1>n, <1>9, <2>1, <2>3, <2>4
         DEF WaitUnloaded, supervisorVars, Installing
    <2>8. Restarting'
      BY <1>a, <1>b, <1>n, <1>9, <2>1, <2>3, <2>4
         DEF WaitUnloaded, supervisorVars, Restarting, Kept, Supervised, Installing
    <2> QED BY <2>2, <2>5, <2>6, <2>7, <2>8 DEF ServiceInv
  <1>10. CASE Load
    <2>0. TakeStep("load")  BY <1>10 DEF Load
    <2>1. NextIs("load") /\ \A other : NextIs(other) => other = "load"
      BY <2>0 DEF TakeStep, NextIs
    <2>2. Rest' /\ command \in Commands  BY <1>a, <1>b, <2>0, RestIsTaken DEF TakeStep
    <2>3. /\ goos = "darwin" /\ command \in {"start", "restart"}
          /\ (command = "restart" => todo' = <<>>)
      BY <1>a, <1>b, <1>n, <2>0, <2>2, StepsInOrder DEF Commands
    <2>4. UNCHANGED <<goos, command, clean, installed, restarted>>  BY <2>0 DEF TakeStep
    <2>5. ServiceTypeOK'  BY <1>a, <1>c, <1>t, <1>10, <2>4 DEF Load, supervisorVars
    <2>6. Supervised'
      BY <1>a, <1>b, <1>c, <1>10, <2>3, <2>4 DEF Load, supervisorVars, Supervised
    <2>7. Installing'
      BY <1>a, <1>b, <1>c, <1>n, <1>10, <2>1, <2>3, <2>4
         DEF Load, supervisorVars, Installing
    <2>8. Restarting'
      BY <1>a, <1>b, <1>n, <1>10, <2>1, <2>3, <2>4
         DEF Load, supervisorVars, Restarting, Kept, Supervised, Installing
    <2> QED BY <2>2, <2>5, <2>6, <2>7, <2>8 DEF ServiceInv
  <1>11. CASE StartJob
    <2>0. TakeStep("start")  BY <1>11 DEF StartJob
    <2>1. NextIs("start") /\ \A other : NextIs(other) => other = "start"
      BY <2>0 DEF TakeStep, NextIs
    <2>2. Rest' /\ command \in Commands  BY <1>a, <1>b, <2>0, RestIsTaken DEF TakeStep
    <2>3. /\ goos # "darwin" /\ command \in {"start", "restart"}
          /\ (command = "restart" => goos = "windows" /\ todo' = <<>>)
      BY <1>a, <1>b, <1>n, <2>0, <2>2, StepsInOrder DEF Commands
    <2>4. UNCHANGED <<goos, command, clean, installed, restarted>>  BY <2>0 DEF TakeStep
    <2>5. ServiceTypeOK'  BY <1>a, <1>c, <1>t, <1>11, <2>4 DEF StartJob, supervisorVars
    <2>6. Supervised'
      BY <1>a, <1>b, <1>c, <1>11, <2>3, <2>4 DEF StartJob, supervisorVars, Supervised
    <2>7. Installing'
      BY <1>a, <1>b, <1>c, <1>n, <1>11, <2>1, <2>3, <2>4
         DEF StartJob, supervisorVars, Installing
    <2>8. Restarting'
      BY <1>a, <1>b, <1>n, <1>11, <2>1, <2>3, <2>4
         DEF StartJob, supervisorVars, Restarting, Kept, Supervised, Installing
    <2> QED BY <2>2, <2>5, <2>6, <2>7, <2>8 DEF ServiceInv
  <1>12. CASE RestartJob
    <2>0. TakeStep("restart")  BY <1>12 DEF RestartJob
    <2>1. NextIs("restart") /\ \A other : NextIs(other) => other = "restart"
      BY <2>0 DEF TakeStep, NextIs
    <2>2. Rest' /\ command \in Commands  BY <1>a, <1>b, <2>0, RestIsTaken DEF TakeStep
    <2>3. /\ goos = "linux" /\ command = "restart" /\ todo' = <<>>
      BY <1>a, <1>b, <1>n, <2>0, <2>2, StepsInOrder DEF Commands
    <2>4. UNCHANGED <<goos, command, clean, installed, restarted>>  BY <2>0 DEF TakeStep
    <2>5. ServiceTypeOK'  BY <1>a, <1>c, <1>t, <1>12, <2>4 DEF RestartJob, supervisorVars
    <2>6. Supervised'
      BY <1>a, <1>b, <1>c, <1>12, <2>3, <2>4 DEF RestartJob, supervisorVars, Supervised
    <2>7. Installing'
      BY <1>a, <1>b, <1>c, <1>n, <1>12, <2>1, <2>3, <2>4
         DEF RestartJob, supervisorVars, Installing
    <2>8. Restarting'
      BY <1>a, <1>b, <1>n, <1>12, <2>1, <2>3, <2>4
         DEF RestartJob, supervisorVars, Restarting, Kept, Supervised, Installing
    <2> QED BY <2>2, <2>5, <2>6, <2>7, <2>8 DEF ServiceInv
  <1>13. CASE StopJob
    <2>1. PICK step \in {"stop", "disable"} : TakeStep(step) /\ enabled' = (enabled /\ step = "stop")
      BY <1>13 DEF StopJob
    <2>a. Rest' /\ command \in Commands  BY <1>a, <1>b, <2>1, RestIsTaken DEF TakeStep
    <2>2. NextIs(step) /\ \A other : NextIs(other) => other = step
      BY <2>1 DEF TakeStep, NextIs
    <2>3. /\ goos # "darwin" /\ command \in {"stop", "uninstall", "restart"}
          /\ step = "disable" => command = "uninstall"
          /\ command = "restart" => goos = "windows" /\ NextIs("start")'
      BY <1>a, <1>b, <1>n, <2>1, <2>a, StepsInOrder DEF Commands
    <2>4. UNCHANGED <<goos, command, clean, installed, restarted>>  BY <2>1 DEF TakeStep
    <2>5. ServiceTypeOK'  BY <1>a, <1>c, <1>t, <1>13, <2>1, <2>4 DEF StopJob
    <2>6. Supervised'  BY <1>a, <1>b, <1>13, <2>3, <2>4 DEF StopJob, Supervised
    <2>7. Installing'
      BY <1>a, <1>b, <1>n, <1>13, <2>1, <2>2, <2>3, <2>4 DEF StopJob, Installing
    <2>8. Restarting'
      BY <1>a, <1>b, <1>n, <1>13, <2>2, <2>3, <2>4 DEF StopJob, Restarting, Kept
    <2> QED BY <2>a, <2>5, <2>6, <2>7, <2>8 DEF ServiceInv
  <1>14. CASE JobExits
    <2>1. ServiceTypeOK'  BY <1>a, <1>c, <1>t, <1>14 DEF JobExits
    <2>2. Rest'  BY <1>b, <1>14 DEF JobExits, Rest
    <2>3. Supervised'  BY <1>a, <1>b, <1>14 DEF JobExits, Supervised
    <2>4. Installing'  BY <1>a, <1>b, <1>14 DEF JobExits, Installing, Supervised, NextIs
    <2>5. Restarting'
      BY <1>a, <1>b, <1>14 DEF JobExits, Restarting, Kept, Supervised, Installing, NextIs
    <2> QED BY <2>1, <2>2, <2>3, <2>4, <2>5 DEF ServiceInv
  <1>15. CASE Respawn
    <2>1. ServiceTypeOK'  BY <1>a, <1>c, <1>t, <1>15 DEF Respawn
    <2>2. Rest'  BY <1>b, <1>15 DEF Respawn, Rest
    <2>3. Supervised'  BY <1>a, <1>b, <1>15 DEF Respawn, Supervised
    <2>4. Installing'  BY <1>a, <1>b, <1>15 DEF Respawn, Installing, Supervised, NextIs
    <2>5. Restarting'
      BY <1>a, <1>b, <1>15 DEF Respawn, Restarting, Kept, Supervised, Installing, NextIs
    <2> QED BY <2>1, <2>2, <2>3, <2>4, <2>5 DEF ServiceInv
  <1>16. CASE Relogin
    <2>1. ServiceTypeOK'  BY <1>a, <1>c, <1>t, <1>16 DEF Relogin
    <2>2. Rest'  BY <1>b, <1>16 DEF Relogin, Rest
    <2>3. Supervised'  BY <1>a, <1>b, <1>16 DEF Relogin, Supervised
    <2>4. Installing'  BY <1>a, <1>b, <1>16 DEF Relogin, Installing, Supervised, NextIs
    <2>5. Restarting'
      BY <1>a, <1>b, <1>16 DEF Relogin, Restarting, Kept, Supervised, Installing, NextIs
    <2> QED BY <2>1, <2>2, <2>3, <2>4, <2>5 DEF ServiceInv
  <1>17. CASE UNCHANGED serviceVars
    BY <1>17
       DEF serviceVars, supervisorVars, ServiceInv, ServiceTypeOK, Rest, Supervised,
           Installing,
       Restarting, Kept, NextIs
  <1> QED
    BY <1>1, <1>2, <1>3, <1>4, <1>5, <1>6, <1>7, <1>8, <1>9, <1>10, <1>11, <1>12, <1>13,
       <1>14, <1>15, <1>16, <1>17
       DEF ServiceNext

LEMMA ServiceStart == ServiceInit => ServiceInv
  <1>1. ASSUME ServiceInit PROVE Rest /\ Supervised /\ Installing /\ Restarting
    BY <1>1 DEF ServiceInit, Rest, Supervised, Installing, Restarting
  <1>2. ASSUME ServiceInit PROVE ServiceTypeOK
    <2>1. /\ unit \in 0 .. MAX_INSTALLS /\ held \in 0 .. MAX_INSTALLS
          /\ job \in 0 .. MAX_INSTALLS /\ writes \in 0 .. MAX_INSTALLS
      BY <1>2, ServiceAssumption DEF ServiceInit
    <2>2. /\ active \in BOOLEAN /\ enabled \in BOOLEAN /\ draining \in BOOLEAN
          /\ clean \in BOOLEAN /\ installed \in BOOLEAN /\ restarted \in BOOLEAN
      BY <1>2 DEF ServiceInit
    <2>3. goos \in {"darwin", "linux", "windows"} /\ command = "none"
      BY <1>2 DEF ServiceInit
    <2> QED BY <2>1, <2>2, <2>3 DEF ServiceTypeOK
  <1> QED BY <1>1, <1>2 DEF ServiceInv

\* After an install that reported success, a restart whose own steps succeed
\* leaves the job kept up from the installed definition, on each platform.
THEOREM RestartIsInstalled == ServiceSpec => []RestartRunsInstalled
  <1>1. ServiceInv => RestartRunsInstalled
    BY DEF ServiceInv, Restarting, Kept, RestartRunsInstalled
  <1> QED BY <1>1, ServiceStart, ServiceStep, PTL DEF ServiceSpec

---------------------------------------------------------------------------
(* The request inspector.                                                  *)

Entry == [stream : Recs, body : [Sides -> Seq(Nat)], hint : SUBSET Sides, trunc : SUBSET Sides,
          replayOf : BOOLEAN, incomplete : BOOLEAN, evicted : BOOLEAN, done : BOOLEAN,
          settled : BOOLEAN, cut : BOOLEAN]
Recorder == [id : 0 .. MAX_ENTRY_ID, at : {"new", "open", "answered", "over"},
             declared : BOOLEAN, seen : [Sides -> Nat], losing : BOOLEAN,
             dropped : SUBSET Sides, complete : BOOLEAN, fed : BOOLEAN]
Event == [id : 0 .. MAX_ENTRY_ID, done : BOOLEAN]

EntryTypes(es) == DOMAIN es \subseteq EntryIds /\ \A id \in DOMAIN es : es[id] \in Entry

InspectorShapes ==
  /\ nextID \in 0 .. MAX_ENTRY_ID /\ order \in Seq(EntryIds)
  /\ EntryTypes(entries)
  /\ rec \in [Recs -> Recorder] /\ publishing \in [Recs \cup {"clear"} -> Event]
  /\ open \in BOOLEAN /\ channel \in Seq(Event)
  /\ browser \in Page /\ watched \in BOOLEAN

\* What feed has brought into an entry that is not flagged is what it has seen.
Gathered(e, c) ==
  /\ c.seen["req"] <= Size[e.stream]["req"]
  /\ "req" \notin e.trunc \cup c.dropped /\ ~e.evicted /\ ~c.losing
       => e.body["req"] = Whole(c.seen["req"])

\* What a stream's recorder knows of its entry, as long as that is there.
Tracks(es, r, c) ==
  /\ c.at = "new" => c.id = 0
  /\ c.losing => ~c.fed
  /\ c.id \in DOMAIN es =>
       /\ es[c.id].stream = r
       /\ c.at # "over" => ~es[c.id].done /\ ~es[c.id].settled
       /\ es[c.id].settled \/ es[c.id].replayOf => c.fed
       /\ ~watched /\ ~es[c.id].replayOf => Gathered(es[c.id], c)

Follows(es, rs) == \A r \in Recs : Tracks(es, r, rs[r])

\* An entry that is not flagged has a body without gaps, and the whole of it if the
\* upload was over and either all seen or of a declared length.
Complete(e) ==
  /\ "req" \notin e.trunc /\ ~e.evicted => e.body["req"] = Whole(Len(e.body["req"]))
  /\ Replayable(e) /\ e.settled /\ ~e.cut /\ ~e.replayOf
       => e.body["req"] = Whole(Size[e.stream]["req"])

SettledWhole(es) == ~watched => \A id \in DOMAIN es : Complete(es[id])

\* Entries and recorders only have numbers that were given out.
Numbered ==
  /\ \A id \in DOMAIN entries : id <= nextID
  /\ \A r \in Recs : rec[r].id <= nextID

RecordersInv == InspectorShapes /\ Follows(entries, rec) /\ SettledWhole(entries) /\ Numbered

\* What is yet to be published of a stream is what it did last.
Spoken ==
  /\ publishing["clear"] \in {Nothing, [id |-> 0, done |-> FALSE]}
  /\ \A r \in Recs : publishing[r] # Nothing =>
       /\ publishing[r].id = rec[r].id /\ rec[r].at # "new" /\ rec[r].id # 0
       /\ publishing[r].done <=> rec[r].at = "over"

\* The browser will be told that the entry is done, after the n-th event waiting.
Coming(id, n) ==
  \/ \E j \in DOMAIN channel : j > n /\ channel[j] = [id |-> id, done |-> TRUE]
  \/ \E r \in Recs : publishing[r] = [id |-> id, done |-> TRUE]

\* The page shows the entry as pending, or a list on its way does, and neither may
\* be behind with it.
Pends(id) ==
  \/ browser.shown[id] = "pending" /\ id \notin browser.behind
  \/ \E l \in Loads : /\ browser.loads[l].at = "listed" /\ browser.loads[l].list[id] = "pending"
                      /\ id \notin browser.loads[l].missed

Told(es) ==
  /\ open => watched
  /\ open => \A id \in DOMAIN es : es[id].done =>
       /\ Pends(id) => Coming(id, 0)
       /\ \A i \in DOMAIN channel : channel[i] = [id |-> id, done |-> FALSE] => Coming(id, i)

BrowserInv == RecordersInv /\ Spoken /\ Told(entries)

---------------------------------------------------------------------------
\* What an eviction leaves of an entry.
Emptied(e) == [e EXCEPT !.body = [s \in Sides |-> <<>>], !.hint = {}, !.evicted = TRUE]

\* ds is what evictions may leave of es.
Remnant(es, ds) ==
  /\ DOMAIN ds \subseteq DOMAIN es
  /\ \A id \in DOMAIN ds : ds[id] \in {es[id], Emptied(es[id])}

\* No entry becomes done, but perhaps those in ids.
DoneBefore(ids) ==
  \A id \in DOMAIN entries' \ ids : entries'[id].done => id \in DOMAIN entries /\ entries[id].done

LEMMA EmptiedFields ==
  ASSUME NEW e \in Entry
  PROVE  /\ Emptied(e) \in Entry /\ Emptied(e).evicted /\ Emptied(e).hint = {}
         /\ Emptied(e).body = [s \in Sides |-> <<>>]
         /\ Emptied(e).stream = e.stream /\ Emptied(e).trunc = e.trunc
         /\ Emptied(e).replayOf = e.replayOf /\ Emptied(e).incomplete = e.incomplete
         /\ Emptied(e).done = e.done /\ Emptied(e).settled = e.settled
         /\ Emptied(e).cut = e.cut
  <1>1. [s \in Sides |-> <<>>] \in [Sides -> Seq(Nat)]  OBVIOUS
  <1> QED BY <1>1 DEF Emptied, Entry

LEMMA BodiesKept ==
  ASSUME NEW st
  PROVE  /\ Remnant(st.entries, EvictBodies(st).entries)
         /\ DOMAIN EvictBodies(st).entries = DOMAIN st.entries
         /\ EvictBodies(st).order = st.order
  BY DEF EvictBodies, Store, Remnant, Emptied

LEMMA EntriesKept ==
  ASSUME NEW st
  PROVE  Remnant(st.entries, EvictEntries(st).entries)
  <1>1. CASE Len(st.order) <= MaxEntries
    BY <1>1 DEF EvictEntries, Remnant
  <1>2. CASE ~(Len(st.order) <= MaxEntries)
    BY <1>2 DEF EvictEntries, Store, Remnant
  <1> QED BY <1>1, <1>2

LEMMA EntriesOrdered ==
  ASSUME NEW st, st.order \in Seq(EntryIds)
  PROVE  EvictEntries(st).order \in Seq(EntryIds)
  <1>1. CASE Len(st.order) <= MaxEntries
    BY <1>1 DEF EvictEntries
  <1>2. CASE ~(Len(st.order) <= MaxEntries)
    <2>1. st.order # <<>>  BY <1>2, InspectorAssumption
    <2> QED BY <1>2, <2>1 DEF EvictEntries, Store
  <1> QED BY <1>1, <1>2

LEMMA StoreStep ==
  ASSUME NEW es, EntryTypes(es), NEW ord \in Seq(EntryIds), NEW sum,
         SetStore(EvictLocked(Store(es, ord, sum)))
  PROVE  Remnant(es, entries') /\ EntryTypes(entries') /\ order' \in Seq(EntryIds)
  <1> DEFINE st == Store(es, ord, sum)
             mid == EvictEntries(st)
  <1>1. st.entries = es /\ st.order = ord  BY DEF Store
  <1>2. entries' = EvictBodies(mid).entries /\ order' = EvictBodies(mid).order
    BY DEF SetStore, EvictLocked
  <1> HIDE DEF st
  <1>3. Remnant(es, mid.entries) /\ mid.order \in Seq(EntryIds)
    BY <1>1, EntriesKept, EntriesOrdered
  <1> HIDE DEF mid
  <1>4. Remnant(mid.entries, entries') /\ order' = mid.order  BY <1>2, BodiesKept
  <1>5. \A e \in Entry : Emptied(Emptied(e)) = Emptied(e)  BY DEF Emptied, Entry
  <1>6. Remnant(es, entries')
    <2>1. DOMAIN entries' \subseteq DOMAIN es  BY <1>3, <1>4 DEF Remnant
    <2>2. ASSUME NEW id \in DOMAIN entries' PROVE entries'[id] \in {es[id], Emptied(es[id])}
      <3>1. id \in DOMAIN mid.entries /\ id \in DOMAIN es /\ es[id] \in Entry
        BY <1>3, <1>4, <2>1 DEF Remnant, EntryTypes
      <3>2. entries'[id] \in {mid.entries[id], Emptied(mid.entries[id])}  BY <1>4 DEF Remnant
      <3>3. mid.entries[id] \in {es[id], Emptied(es[id])}  BY <1>3, <3>1 DEF Remnant
      <3> QED BY <1>5, <3>1, <3>2, <3>3
    <2> QED BY <2>1, <2>2 DEF Remnant
  <1>7. EntryTypes(entries')
    BY <1>6, EmptiedFields DEF Remnant, EntryTypes
  <1> QED BY <1>3, <1>4, <1>6, <1>7

LEMMA KeptDone ==
  ASSUME NEW es, EntryTypes(es), Remnant(es, entries'), NEW ids,
         \A id \in DOMAIN es \ ids : es[id].done => id \in DOMAIN entries /\ entries[id].done
  PROVE  DoneBefore(ids)
  <1> SUFFICES ASSUME NEW id \in DOMAIN entries' \ ids, entries'[id].done
               PROVE  id \in DOMAIN entries /\ entries[id].done
    BY DEF DoneBefore
  <1>1. id \in DOMAIN es /\ es[id] \in Entry /\ entries'[id] \in {es[id], Emptied(es[id])}
    BY DEF Remnant, EntryTypes
  <1>2. es[id].done  BY <1>1, EmptiedFields
  <1> QED BY <1>1, <1>2

\* Evictions disturb neither what recorders know nor what a replay relies on.
LEMMA KeptFollows ==
  ASSUME NEW es, NEW ds, EntryTypes(es), Remnant(es, ds), NEW rs, Follows(es, rs), SettledWhole(es)
  PROVE  Follows(ds, rs) /\ SettledWhole(ds)
  <1>1. ASSUME NEW id \in DOMAIN ds
        PROVE /\ id \in DOMAIN es /\ es[id] \in Entry
              /\ \/ ds[id] = es[id]
                 \/ /\ ds[id].evicted /\ ds[id].stream = es[id].stream
                    /\ ds[id].done = es[id].done /\ ds[id].settled = es[id].settled
                    /\ ds[id].replayOf = es[id].replayOf
    BY EmptiedFields DEF Remnant, EntryTypes
  <1>2. Follows(ds, rs)
    <2>1. ASSUME NEW r \in Recs PROVE Tracks(ds, r, rs[r])
      <3>1. Tracks(es, r, rs[r])  BY DEF Follows
      <3>2. CASE rs[r].id \notin DOMAIN ds  BY <3>1, <3>2 DEF Tracks
      <3>3. CASE rs[r].id \in DOMAIN ds
        BY <1>1, <3>1, <3>3 DEF Tracks, Gathered
      <3> QED BY <3>2, <3>3
    <2> QED BY <2>1 DEF Follows
  <1>3. SettledWhole(ds)
    <2>1. ASSUME ~watched, NEW id \in DOMAIN ds PROVE Complete(ds[id])
      <3>1. CASE ds[id] = es[id]  BY <1>1, <2>1, <3>1 DEF SettledWhole
      <3>2. CASE ds[id].evicted  BY <3>2 DEF Complete, Replayable
      <3> QED BY <1>1, <3>1, <3>2
    <2> QED BY <2>1 DEF SettledWhole
  <1> QED BY <1>2, <1>3

---------------------------------------------------------------------------
\* A step that changes one recorder and the entry it records leaves the others.
LEMMA OneFollows ==
  ASSUME Follows(entries, rec), NEW r \in Recs, NEW es, NEW c \in Recorder,
         rec \in [Recs -> Recorder], Tracks(es, r, c),
         \A q \in Recs \ {r} : rec[q].id \in DOMAIN es =>
            rec[q].id \in DOMAIN entries /\ es[rec[q].id] = entries[rec[q].id]
  PROVE  Follows(es, [rec EXCEPT ![r] = c])
  <1>1. ASSUME NEW q \in Recs PROVE Tracks(es, q, [rec EXCEPT ![r] = c][q])
    <2>1. CASE q = r  BY <2>1
    <2>2. CASE q # r
      BY <2>2 DEF Follows, Tracks, Gathered
    <2> QED BY <2>1, <2>2
  <1> QED BY <1>1 DEF Follows

\* The entry that a recorder changes is only its own.
LEMMA OwnEntry ==
  ASSUME RecordersInv, NEW r \in Recs, Exists(r), NEW e \in Entry, NEW c \in Recorder,
         c.id = rec[r].id, Tracks([entries EXCEPT ![rec[r].id] = e], r, c),
         ~watched => Complete(e)
  PROVE  LET es == [entries EXCEPT ![rec[r].id] = e] IN
         /\ EntryTypes(es) /\ DOMAIN es = DOMAIN entries
         /\ Follows(es, [rec EXCEPT ![r] = c]) /\ SettledWhole(es)
  <1> DEFINE id == rec[r].id
             es == [entries EXCEPT ![id] = e]
  <1>1. id \in DOMAIN entries  BY DEF Exists
  <1>2. DOMAIN es = DOMAIN entries /\ es[id] = e /\ \A k \in DOMAIN entries \ {id} : es[k] = entries[k]
    BY <1>1
  <1>3. EntryTypes(es)  BY <1>2 DEF EntryTypes, RecordersInv, InspectorShapes
  <1>4. \A q \in Recs \ {r} : rec[q].id \in DOMAIN entries => rec[q].id # id
    BY <1>1 DEF RecordersInv, Follows, Tracks
  <1>5. Follows(es, [rec EXCEPT ![r] = c])
    <2>1. \A q \in Recs \ {r} : rec[q].id \in DOMAIN es =>
             rec[q].id \in DOMAIN entries /\ es[rec[q].id] = entries[rec[q].id]
      BY <1>2, <1>4
    <2>2. Tracks(es, r, c)  OBVIOUS
    <2> HIDE DEF es
    <2> QED BY <2>1, <2>2, OneFollows DEF RecordersInv, InspectorShapes
  <1>6. SettledWhole(es)
    BY <1>2 DEF SettledWhole, RecordersInv
  <1> QED BY <1>2, <1>3, <1>5, <1>6

\* The steps of the store that go through Mutated.
LEMMA MutatedFollows ==
  ASSUME RecordersInv, NEW r \in Recs, Exists(r), NEW e \in Entry, NEW c \in Recorder,
         c.id = rec[r].id, Tracks([entries EXCEPT ![rec[r].id] = e], r, c),
         ~watched => Complete(e),
         Mutated(rec[r].id, e), rec' = [rec EXCEPT ![r] = c],
         publishing' \in [Recs \cup {"clear"} -> Event],
         UNCHANGED <<nextID, open, channel, browser, watched>>
  PROVE  /\ RecordersInv' /\ DoneBefore({rec[r].id})
         /\ (e.done => entries[rec[r].id].done) => DoneBefore({})
  <1> DEFINE es == [entries EXCEPT ![rec[r].id] = e]
  <1>1. /\ EntryTypes(es) /\ DOMAIN es = DOMAIN entries
        /\ Follows(es, rec') /\ SettledWhole(es)
    BY OwnEntry
  <1>2. Remnant(es, entries') /\ EntryTypes(entries') /\ order' \in Seq(EntryIds)
    <2>1. order \in Seq(EntryIds)  BY DEF RecordersInv, InspectorShapes
    <2>2. PICK sum : SetStore(EvictLocked(Store(es, order, sum)))
      BY DEF Mutated
    <2> HIDE DEF es
    <2> QED BY <1>1, <2>1, <2>2, StoreStep
  <1> HIDE DEF es
  <1>3. Follows(entries', rec') /\ SettledWhole(entries')  BY <1>1, <1>2, KeptFollows
  <1>4. Follows(entries, rec)' /\ SettledWhole(entries)'
    BY <1>3 DEF Follows, Tracks, Gathered, SettledWhole, Complete
  <1>5. InspectorShapes'
    BY <1>2 DEF RecordersInv, InspectorShapes, EntryTypes
  <1>6. Numbered'
    <2>1. DOMAIN entries' \subseteq DOMAIN entries  BY <1>1, <1>2 DEF Remnant
    <2>2. \A q \in Recs : rec'[q].id = rec[q].id  BY DEF RecordersInv, InspectorShapes
    <2> QED BY <2>1, <2>2 DEF RecordersInv, Numbered
  <1>7. DoneBefore({rec[r].id})
    <2>1. \A id \in DOMAIN es \ {rec[r].id} : id \in DOMAIN entries /\ es[id] = entries[id]
      BY <1>1 DEF es
    <2> QED BY <1>1, <1>2, <2>1, KeptDone
  <1>8. (e.done => entries[rec[r].id].done) => DoneBefore({})
    <2>1. \A id \in DOMAIN es : id \in DOMAIN entries
             /\ es[id] = IF id = rec[r].id THEN e ELSE entries[id]
      BY <1>1 DEF es
    <2> QED BY <1>1, <1>2, <2>1, KeptDone
  <1> QED BY <1>4, <1>5, <1>6, <1>7, <1>8 DEF RecordersInv

\* A step of the recorder alone.
LEMMA RecorderStep ==
  ASSUME RecordersInv, NEW r \in Recs, NEW c \in Recorder, Tracks(entries, r, c), c.id <= nextID,
         rec' = [rec EXCEPT ![r] = c], publishing' \in [Recs \cup {"clear"} -> Event],
         UNCHANGED <<nextID, order, entries, open, channel, browser, watched>>
  PROVE  RecordersInv'
  <1>1. Follows(entries, rec')  BY OneFollows DEF RecordersInv, InspectorShapes
  <1>2. Follows(entries, rec)' /\ SettledWhole(entries)'
    BY <1>1 DEF Follows, Tracks, Gathered, SettledWhole, Complete, RecordersInv
  <1>3. InspectorShapes'  BY DEF RecordersInv, InspectorShapes, EntryTypes
  <1>4. Numbered'  BY DEF RecordersInv, InspectorShapes, Numbered
  <1> QED BY <1>2, <1>3, <1>4 DEF RecordersInv

\* A new entry and the recorder that adds it.
LEMMA AddFollows ==
  ASSUME RecordersInv, NEW r \in Recs, NEW e \in Entry, NEW c \in Recorder,
         Add(r, e), ~e.settled, ~e.done, e.stream = r,
         c.id = nextID + 1, c.at = "open", c.losing => ~c.fed, e.replayOf => c.fed,
         ~watched /\ ~e.replayOf => Gathered(e, c), ~watched => Complete(e),
         rec' = [rec EXCEPT ![r] = c], UNCHANGED <<open, channel, browser, watched>>
  PROVE  RecordersInv' /\ DoneBefore({})
  <1> DEFINE id == nextID + 1
             es == [i \in DOMAIN entries \cup {id} |-> IF i = id THEN e ELSE entries[i]]
  <1>0. id \in EntryIds /\ nextID \in Nat /\ MAX_ENTRY_ID \in Nat
    BY InspectorAssumption DEF Add, RecordersInv, InspectorShapes, EntryIds
  <1>1. id \notin DOMAIN entries  BY <1>0 DEF RecordersInv, Numbered
  <1>2. DOMAIN es = DOMAIN entries \cup {id} /\ es[id] = e /\ \A k \in DOMAIN entries : es[k] = entries[k]
    BY <1>1
  <1>3. EntryTypes(es)  BY <1>0, <1>2 DEF RecordersInv, InspectorShapes, EntryTypes
  <1>4. nextID' = id /\ \E sum : SetStore(EvictLocked(Store(es, Append(order, id), sum)))
    BY DEF Add
  <1>5. publishing' \in [Recs \cup {"clear"} -> Event]
    BY <1>0 DEF Add, Announce, RecordersInv, InspectorShapes, Event, Nothing, EntryIds
  <1> HIDE DEF es
  <1>6. Remnant(es, entries') /\ EntryTypes(entries') /\ order' \in Seq(EntryIds)
    <2>1. Append(order, id) \in Seq(EntryIds)  BY <1>0 DEF RecordersInv, InspectorShapes
    <2> QED BY <1>3, <1>4, <2>1, StoreStep
  <1>7. Follows(es, rec') /\ SettledWhole(es)
    <2>1. Tracks(es, r, c)  BY <1>2 DEF Tracks
    <2>2. \A q \in Recs \ {r} : rec[q].id \in DOMAIN es =>
            rec[q].id \in DOMAIN entries /\ es[rec[q].id] = entries[rec[q].id]
      BY <1>0, <1>2 DEF RecordersInv, InspectorShapes, Recorder, Numbered
    <2>3. Follows(es, rec')  BY <2>1, <2>2, OneFollows DEF RecordersInv, InspectorShapes
    <2>4. SettledWhole(es)  BY <1>2 DEF SettledWhole, RecordersInv
    <2> QED BY <2>3, <2>4
  <1>8. Follows(entries', rec') /\ SettledWhole(entries')  BY <1>3, <1>6, <1>7, KeptFollows
  <1>9. Follows(entries, rec)' /\ SettledWhole(entries)'
    BY <1>8 DEF Follows, Tracks, Gathered, SettledWhole, Complete
  <1>10. InspectorShapes'
    <2>1. nextID' \in 0 .. MAX_ENTRY_ID  BY <1>0, <1>4 DEF EntryIds
    <2>2. rec' \in [Recs -> Recorder]  BY DEF RecordersInv, InspectorShapes
    <2> HIDE DEF id
    <2> QED BY <1>5, <1>6, <2>1, <2>2 DEF RecordersInv, InspectorShapes, EntryTypes
  <1>11. Numbered'
    <2>1. DOMAIN entries' \subseteq DOMAIN entries \cup {id}  BY <1>2, <1>6 DEF Remnant
    <2>2. \A q \in Recs : rec[q].id \in Nat  BY DEF RecordersInv, InspectorShapes, Recorder
    <2>3. DOMAIN entries \subseteq Nat
      BY DEF RecordersInv, InspectorShapes, EntryTypes, EntryIds
    <2>4. \A k \in DOMAIN entries' : k <= nextID'
      BY <1>0, <1>4, <2>1, <2>3 DEF RecordersInv, Numbered
    <2>5. ASSUME NEW q \in Recs PROVE rec'[q].id <= nextID'
      <3>1. CASE q = r  BY <1>0, <1>4, <3>1 DEF RecordersInv, InspectorShapes
      <3>2. CASE q # r
        BY <1>0, <1>4, <2>2, <3>2 DEF RecordersInv, InspectorShapes, Numbered
      <3> QED BY <3>1, <3>2
    <2> QED BY <2>4, <2>5 DEF Numbered
  <1>12. DoneBefore({})
    <2>1. \A k \in DOMAIN es : es[k].done => k \in DOMAIN entries /\ entries[k].done
      BY <1>2
    <2> QED BY <1>3, <1>6, <2>1, KeptDone
  <1> QED BY <1>9, <1>10, <1>11, <1>12 DEF RecordersInv

---------------------------------------------------------------------------
LEMMA WholeGrows ==
  /\ Whole(0) = <<>>
  /\ \A n \in Nat : Whole(n) \in Seq(Nat) /\ Append(Whole(n), n + 1) = Whole(n + 1)
                     /\ Len(Whole(n)) = n
  <1>1. Whole(0) = <<>>  BY DEF Whole
  <1>2. ASSUME NEW n \in Nat
        PROVE  /\ Whole(n) \in Seq(Nat) /\ Append(Whole(n), n + 1) = Whole(n + 1)
               /\ Len(Whole(n)) = n
    <2>1. Whole(n) \in Seq(Nat) /\ Len(Whole(n)) = n  BY DEF Whole
    <2>2. Whole(n + 1) \in Seq(Nat) /\ Len(Whole(n + 1)) = n + 1  BY DEF Whole
    <2>3. /\ Append(Whole(n), n + 1) \in Seq(Nat) /\ Len(Append(Whole(n), n + 1)) = n + 1
          /\ \A i \in 1 .. n : Append(Whole(n), n + 1)[i] = Whole(n)[i]
          /\ Append(Whole(n), n + 1)[n + 1] = n + 1
      BY <2>1, AppendProperties
    <2>4. \A i \in 1 .. n + 1 : Append(Whole(n), n + 1)[i] = Whole(n + 1)[i]
      BY <2>3 DEF Whole
    <2> QED BY <2>1, <2>2, <2>3, <2>4, SeqEqual
  <1> QED BY <1>1, <1>2

LEMMA RecorderFields ==
  ASSUME RecordersInv, NEW r \in Recs
  PROVE  /\ rec[r] \in Recorder /\ rec[r].id \in Nat /\ rec[r].id <= nextID
         /\ rec[r].seen \in [Sides -> Nat]
         /\ Tracks(entries, r, rec[r])
         /\ Exists(r) => /\ entries[rec[r].id] \in Entry /\ entries[rec[r].id].stream = r
                         /\ Fold(r, entries[rec[r].id]) \in Entry
  <1>1. rec[r] \in Recorder  BY DEF RecordersInv, InspectorShapes
  <1>2. Exists(r) => entries[rec[r].id] \in Entry  BY DEF Exists, RecordersInv, InspectorShapes, EntryTypes
  <1>3. Exists(r) => Fold(r, entries[rec[r].id]) \in Entry
    BY <1>1, <1>2 DEF Fold, Entry, Recorder
  <1> QED BY <1>1, <1>2, <1>3 DEF Recorder, RecordersInv, Numbered, Follows, Tracks, Exists

LEMMA BeginFollows ==
  ASSUME RecordersInv, NEW r \in Recs, Begin(r)
  PROVE  RecordersInv' /\ DoneBefore({})
  <1> DEFINE e == NewEntry(r, <<>>, FALSE)
  <1>0. nextID \in Nat /\ nextID + 1 \in 0 .. MAX_ENTRY_ID
    BY InspectorAssumption DEF Begin, Add, RecordersInv, InspectorShapes
  <1>1. e \in Entry /\ e.body["req"] = <<>> /\ ~e.settled /\ ~e.done /\ ~e.replayOf /\ e.stream = r
    BY DEF NewEntry, Entry, Sides
  <1>2. PICK declared \in BOOLEAN :
          rec' = [rec EXCEPT ![r] = [NewRec EXCEPT !.id = nextID + 1, !.at = "open",
                    !.declared = declared, !.complete = watched, !.fed = watched]]
    BY DEF Begin
  <1> DEFINE c == [NewRec EXCEPT !.id = nextID + 1, !.at = "open",
                    !.declared = declared, !.complete = watched, !.fed = watched]
  <1>3. /\ c \in Recorder /\ c.id = nextID + 1 /\ c.at = "open" /\ ~c.losing
        /\ c.seen["req"] = 0 /\ c.complete = watched
    BY <1>0 DEF NewRec, Recorder, Sides, RecordersInv, InspectorShapes
  <1>4. Add(r, e) /\ UNCHANGED <<open, channel, browser, watched>>  BY DEF Begin
  <1>5. Gathered(e, c)
    <2>1. Size[r]["req"] \in Nat  BY InspectorAssumption
    <2>2. e.body["req"] = Whole(c.seen["req"])  BY <1>1, <1>3, WholeGrows
    <2>3. c.seen["req"] <= Size[e.stream]["req"]
      <3>1. c.seen["req"] = 0 /\ e.stream = r  BY <1>1, <1>3
      <3> HIDE DEF e, c
      <3> QED BY <2>1, <3>1
    <2> HIDE DEF e, c
    <2> QED BY <2>2, <2>3 DEF Gathered
  <1>6. Complete(e)  BY <1>1, WholeGrows DEF Complete
  <1> HIDE DEF e, c
  <1> QED BY <1>1, <1>2, <1>3, <1>4, <1>5, <1>6, AddFollows DEF c

LEMMA ReplayFollows ==
  ASSUME RecordersInv, NEW r \in Recs, NEW id \in EntryIds, Replay(id, r)
  PROVE  RecordersInv' /\ DoneBefore({})
  <1> DEFINE body == entries[id].body["req"]
             e == NewEntry(r, body, TRUE)
             c == [NewRec EXCEPT !.id = nextID + 1, !.at = "open",
                     !.seen["req"] = Len(body), !.complete = TRUE, !.fed = TRUE]
  <1>0. nextID \in Nat /\ nextID + 1 \in 0 .. MAX_ENTRY_ID
    BY InspectorAssumption DEF Replay, Add, RecordersInv, InspectorShapes
  <1>1. body \in Seq(Nat)
    BY DEF Replay, RecordersInv, InspectorShapes, EntryTypes, Entry, Sides
  <1>2. Add(r, e) /\ rec' = [rec EXCEPT ![r] = c] /\ UNCHANGED <<open, channel, browser, watched>>
    BY DEF Replay
  <1>a. ~watched => body = Whole(Len(body))
    BY DEF Replay, Replayable, RecordersInv, SettledWhole, Complete
  <1> HIDE DEF body
  <1>3. /\ e \in Entry /\ ~e.settled /\ ~e.done /\ e.stream = r /\ e.replayOf
        /\ e.body["req"] = body
    BY <1>1 DEF NewEntry, Entry, Sides
  <1>b. ~watched => Complete(e)  BY <1>3, <1>a DEF Complete
  <1>4. c \in Recorder /\ c.id = nextID + 1 /\ c.at = "open" /\ ~c.losing /\ c.fed
    <2>1. Len(body) \in Nat  BY <1>1
    <2>2. NewRec \in Recorder /\ ~NewRec.losing /\ NewRec.seen \in [Sides -> Nat]
      BY InspectorAssumption DEF NewRec, Recorder
    <2>3. [NewRec.seen EXCEPT !["req"] = Len(body)] \in [Sides -> Nat]  BY <2>1, <2>2
    <2>4. c = [NewRec EXCEPT !.id = nextID + 1, !.at = "open",
                !.seen = [NewRec.seen EXCEPT !["req"] = Len(body)], !.complete = TRUE, !.fed = TRUE]
      BY <2>2 DEF Recorder
    <2> HIDE DEF c
    <2> QED BY <1>0, <2>2, <2>3, <2>4 DEF Recorder
  <1> HIDE DEF e, c
  <1> QED BY <1>2, <1>3, <1>4, <1>b, AddFollows

\* What a chunk adds to an entry.
LEMMA CapturedFields ==
  ASSUME RecordersInv, NEW r \in Recs, NEW s \in Sides, NEW e \in Entry
  PROVE  /\ Captured(r, s, e) \in Entry
         /\ Captured(r, s, e).stream = e.stream /\ Captured(r, s, e).done = e.done
         /\ Captured(r, s, e).settled = e.settled /\ Captured(r, s, e).replayOf = e.replayOf
         /\ Captured(r, s, e).evicted = e.evicted /\ e.trunc \subseteq Captured(r, s, e).trunc
         /\ s = "res" => Captured(r, s, e).body["req"] = e.body["req"]
         /\ s = "req" /\ "req" \notin Captured(r, s, e).trunc /\ ~e.evicted
              => Captured(r, s, e).body["req"] = Append(e.body["req"], rec[r].seen["req"] + 1)
  <1> DEFINE n == rec[r].seen[s] + 1
             more == Append(e.body[s], n)
             hint == IF s = "req" /\ rec[r].declared THEN e.hint \cup {s} ELSE e.hint
  <1>0. n \in Nat  BY RecorderFields
  <1>1. CASE e.evicted
    BY <1>1 DEF Captured
  <1>2. CASE ~e.evicted /\ Len(e.body[s]) >= MaxBodyCapture
    <2> DEFINE tr == e.trunc \cup {s}
    <2>1. Captured(r, s, e) = [e EXCEPT !.trunc = tr]  BY <1>2 DEF Captured
    <2>2. tr \in SUBSET Sides /\ e.trunc \subseteq tr /\ s \in tr  BY DEF Entry
    <2> HIDE DEF tr
    <2>3. /\ Captured(r, s, e) \in Entry /\ Captured(r, s, e).body = e.body
          /\ Captured(r, s, e).trunc = tr /\ Captured(r, s, e).evicted = e.evicted
          /\ Captured(r, s, e).stream = e.stream /\ Captured(r, s, e).done = e.done
          /\ Captured(r, s, e).settled = e.settled /\ Captured(r, s, e).replayOf = e.replayOf
      BY <2>1, <2>2 DEF Entry
    <2> QED BY <2>2, <2>3
  <1>3. CASE ~e.evicted /\ ~(Len(e.body[s]) >= MaxBodyCapture)
    <2>1. Captured(r, s, e) = [e EXCEPT !.body = [e.body EXCEPT ![s] = more], !.hint = hint]
      BY <1>3 DEF Captured, Entry
    <2>2. e.body \in [Sides -> Seq(Nat)] /\ more \in Seq(Nat) /\ hint \in SUBSET Sides
      BY <1>0 DEF Entry
    <2> DEFINE b == [e.body EXCEPT ![s] = more]
    <2>3. /\ b \in [Sides -> Seq(Nat)] /\ b[s] = more
          /\ s = "res" => b["req"] = e.body["req"]
      BY <2>2 DEF Sides
    <2>4. s = "req" => more = Append(e.body["req"], rec[r].seen["req"] + 1)  OBVIOUS
    <2> HIDE DEF more, hint, n, b
    <2>5. Captured(r, s, e) = [e EXCEPT !.body = b, !.hint = hint]  BY <2>1 DEF b
    <2>6. /\ Captured(r, s, e) \in Entry /\ Captured(r, s, e).body = b
          /\ Captured(r, s, e).trunc = e.trunc /\ Captured(r, s, e).evicted = e.evicted
          /\ Captured(r, s, e).stream = e.stream /\ Captured(r, s, e).done = e.done
          /\ Captured(r, s, e).settled = e.settled /\ Captured(r, s, e).replayOf = e.replayOf
      BY <2>2, <2>3, <2>5 DEF Entry
    <2> QED BY <2>3, <2>4, <2>6
  <1> QED BY <1>1, <1>2, <1>3

LEMMA TeeFollows ==
  ASSUME RecordersInv, NEW r \in Recs, NEW s \in Sides, Tee(r, s)
  PROVE  RecordersInv' /\ DoneBefore({})
  <1> DEFINE c == [rec[r] EXCEPT !.seen = [rec[r].seen EXCEPT ![s] = rec[r].seen[s] + 1],
                                 !.dropped = IF Exists(r) THEN {} ELSE rec[r].dropped]
  <1>0. /\ HasChunk(r, s) /\ rec \in [Recs -> Recorder]
        /\ UNCHANGED <<nextID, publishing, open, channel, browser, watched>>
        /\ publishing' \in [Recs \cup {"clear"} -> Event]
    BY DEF Tee, RecordersInv, InspectorShapes
  <1>1. rec' = [rec EXCEPT ![r] = c]  BY <1>0 DEF Tee, Recorder
  <1>2. /\ c \in Recorder /\ c.id = rec[r].id /\ c.at = rec[r].at /\ c.fed = rec[r].fed
        /\ c.losing = rec[r].losing /\ c.complete = rec[r].complete
        /\ c.dropped = IF Exists(r) THEN {} ELSE rec[r].dropped
        /\ c.seen["req"] = IF s = "req" THEN rec[r].seen["req"] + 1 ELSE rec[r].seen["req"]
    <2>1. /\ rec[r].seen \in [Sides -> Nat] /\ rec[r].seen[s] + 1 \in Nat
          /\ [rec[r].seen EXCEPT ![s] = rec[r].seen[s] + 1] \in [Sides -> Nat]
      BY RecorderFields
    <2>2. rec[r] \in Recorder  BY <1>0
    <2> QED BY <2>1, <2>2 DEF Recorder, Sides
  <1>3. ~watched /\ (s = "req" => ~rec[r].fed /\ ~rec[r].losing /\ rec[r].seen["req"] < Size[r]["req"])
    BY <1>0 DEF HasChunk
  <1>4. s = "res" => rec[r].at = "answered"  BY <1>0 DEF HasChunk
  <1> HIDE DEF c
  <1>5. CASE Exists(r)
    <2> DEFINE old == entries[rec[r].id]
               f == Fold(r, old)
               e == Captured(r, s, f)
               es == [entries EXCEPT ![rec[r].id] = e]
    <2>0. old \in Entry /\ f \in Entry /\ Tracks(entries, r, rec[r]) /\ rec[r].id \in DOMAIN entries
      BY <1>5, RecorderFields DEF Exists
    <2>1. /\ f.trunc = old.trunc \cup rec[r].dropped /\ f.stream = old.stream /\ f.done = old.done
          /\ f.settled = old.settled /\ f.replayOf = old.replayOf /\ f.evicted = old.evicted
          /\ f.body = old.body
      BY <2>0 DEF Fold, Entry
    <2>2. /\ e \in Entry /\ e.stream = old.stream /\ e.done = old.done
          /\ e.settled = old.settled /\ e.replayOf = old.replayOf /\ e.evicted = old.evicted
          /\ old.trunc \cup rec[r].dropped \subseteq e.trunc
          /\ s = "res" => e.body["req"] = old.body["req"]
          /\ s = "req" /\ "req" \notin e.trunc /\ ~e.evicted
               => e.body["req"] = Append(old.body["req"], rec[r].seen["req"] + 1)
      <3> HIDE DEF f
      <3>1. /\ e \in Entry /\ e.stream = f.stream /\ e.done = f.done
            /\ e.settled = f.settled /\ e.replayOf = f.replayOf /\ e.evicted = f.evicted
            /\ f.trunc \subseteq e.trunc
            /\ s = "res" => e.body["req"] = f.body["req"]
            /\ s = "req" /\ "req" \notin e.trunc /\ ~f.evicted
                 => e.body["req"] = Append(f.body["req"], rec[r].seen["req"] + 1)
        BY <2>0, CapturedFields
      <3> HIDE DEF e
      <3> QED BY <2>1, <3>1
    <2> HIDE DEF e, f, old
    <2>3. es[rec[r].id] = e /\ DOMAIN es = DOMAIN entries  BY <2>0
    <2>4. Mutated(rec[r].id, e)  BY <1>5 DEF Tee, e, f, old
    <2> HIDE DEF es
    <2>5. rec[r].seen["req"] \in Nat  BY RecorderFields DEF Sides
    <2>6. /\ old.stream = r /\ (rec[r].at # "over" => ~old.done /\ ~old.settled)
          /\ (old.settled \/ old.replayOf => rec[r].fed)
          /\ (rec[r].at = "new" => rec[r].id = 0) /\ (rec[r].losing => ~rec[r].fed)
          /\ (~old.replayOf => Gathered(old, rec[r])) /\ Complete(old)
      BY <1>3, <2>0 DEF Tracks, old, RecordersInv, SettledWhole
    <2>7. s = "req" =>
            /\ ~old.replayOf
            /\ "req" \notin e.trunc /\ ~e.evicted => e.body["req"] = Whole(c.seen["req"])
      <3>1. SUFFICES ASSUME s = "req" PROVE ~old.replayOf /\ ("req" \notin e.trunc /\ ~e.evicted
                                              => e.body["req"] = Whole(c.seen["req"]))
        OBVIOUS
      <3>2. ~old.replayOf  BY <1>3, <2>6, <3>1
      <3>3. ASSUME "req" \notin e.trunc, ~e.evicted PROVE e.body["req"] = Whole(c.seen["req"])
        <4>1. old.body["req"] = Whole(rec[r].seen["req"])
          BY <1>3, <2>2, <2>6, <3>1, <3>2, <3>3 DEF Gathered
        <4> QED BY <1>2, <2>2, <2>5, <3>1, <3>3, <4>1, WholeGrows
      <3> QED BY <3>2, <3>3
    <2>8. ~e.replayOf => Gathered(e, c)
      <3>1. CASE s = "res"
        BY <1>2, <2>2, <2>6, <1>5, <3>1 DEF Gathered
      <3>2. CASE s = "req"
        <4>1. c.seen["req"] <= Size[e.stream]["req"]
          <5>1. Size[r]["req"] \in Nat  BY InspectorAssumption
          <5> QED BY <1>2, <1>3, <2>2, <2>5, <2>6, <3>2, <5>1
        <4> QED BY <2>7, <3>2, <4>1 DEF Gathered
      <3> QED BY <3>1, <3>2 DEF Sides
    <2>9. Tracks(es, r, c)  BY <1>2, <2>2, <2>3, <2>6, <2>8 DEF Tracks
    <2>10. ~e.settled
      BY <1>3, <1>4, <2>2, <2>6 DEF Sides
    <2>11. Complete(e)
      <3>1. CASE s = "res"  BY <2>2, <2>6, <2>10, <3>1 DEF Complete
      <3>2. CASE s = "req"
        <4>1. c.seen["req"] \in Nat  BY <1>2, <2>5, <3>2
        <4> QED BY <2>7, <2>10, <3>2, <4>1, WholeGrows DEF Complete
      <3> QED BY <3>1, <3>2 DEF Sides
    <2>12. e.done => entries[rec[r].id].done  BY <2>2 DEF old
    <2> QED BY <1>0, <1>1, <1>2, <1>5, <2>2, <2>4, <2>9, <2>11, <2>12, MutatedFollows DEF es
  <1>6. CASE ~Exists(r)
    <2>1. UNCHANGED <<entries, order>>  BY <1>6 DEF Tee
    <2>2. Tracks(entries, r, c)  BY <1>2, <1>6, RecorderFields DEF Tracks, Exists
    <2>3. c.id <= nextID  BY <1>2, RecorderFields
    <2>4. DoneBefore({})  BY <2>1 DEF DoneBefore
    <2> QED BY <1>0, <1>1, <1>2, <2>1, <2>2, <2>3, <2>4, RecorderStep
  <1> QED BY <1>5, <1>6

LEMMA AnnounceTyped ==
  ASSUME RecordersInv, NEW a \in Recs \cup {"clear"}, NEW ev \in Event, Announce(a, ev)
  PROVE  publishing' \in [Recs \cup {"clear"} -> Event]
  <1>1. Nothing \in Event  BY InspectorAssumption DEF Nothing, Event
  <1> QED BY <1>1 DEF Announce, RecordersInv, InspectorShapes

\* A step through Update, as Response and End are.
LEMMA UpdateFollows ==
  ASSUME RecordersInv, NEW r \in Recs, NEW e, NEW ph \in {"answered", "over"},
         Update(r, e),
         rec' = [rec EXCEPT ![r].at = ph, ![r].dropped = IF Exists(r) THEN {} ELSE @],
         rec[r].at \in {"open", "answered"}, UNCHANGED <<nextID, open, channel, browser, watched>>,
         Exists(r) =>
           LET old == entries[rec[r].id] IN
           /\ e \in Entry /\ e.stream = old.stream /\ e.body = old.body /\ e.evicted = old.evicted
           /\ e.replayOf = old.replayOf /\ e.trunc = old.trunc \cup rec[r].dropped
           /\ ph = "answered" => e.done = old.done /\ e.settled = old.settled
           /\ ph = "over" => /\ e.settled = rec[r].fed
                             /\ ~e.incomplete /\ ~e.cut => ~(rec[r].seen["req"] < Size[r]["req"])
  PROVE  /\ RecordersInv' /\ DoneBefore({rec[r].id})
         /\ ph = "answered" => DoneBefore({})
         /\ ~Exists(r) => DoneBefore({}) /\ UNCHANGED publishing
  <1> DEFINE c == [rec[r] EXCEPT !.at = ph, !.dropped = IF Exists(r) THEN {} ELSE rec[r].dropped]
  <1>0. rec \in [Recs -> Recorder] /\ rec[r] \in Recorder  BY DEF RecordersInv, InspectorShapes
  <1>1. rec' = [rec EXCEPT ![r] = c]  BY <1>0 DEF Recorder
  <1>2. /\ c \in Recorder /\ c.id = rec[r].id /\ c.at = ph /\ c.fed = rec[r].fed
        /\ c.losing = rec[r].losing /\ c.complete = rec[r].complete /\ c.seen = rec[r].seen
        /\ c.dropped = IF Exists(r) THEN {} ELSE rec[r].dropped
    BY <1>0 DEF Recorder
  <1>3. Tracks(entries, r, rec[r]) /\ rec[r].id \in 0 .. MAX_ENTRY_ID /\ c.id <= nextID
    BY <1>0, <1>2, RecorderFields DEF Recorder
  <1> HIDE DEF c
  <1>4. CASE Exists(r)
    <2> DEFINE old == entries[rec[r].id]
               es == [entries EXCEPT ![rec[r].id] = e]
    <2>0. rec[r].id \in DOMAIN entries /\ old \in Entry  BY <1>4, RecorderFields DEF Exists
    <2>1. /\ e \in Entry /\ e.stream = old.stream /\ e.body = old.body /\ e.evicted = old.evicted
          /\ e.replayOf = old.replayOf /\ e.trunc = old.trunc \cup rec[r].dropped
          /\ ph = "answered" => e.done = old.done /\ e.settled = old.settled
          /\ ph = "over" => /\ e.settled = rec[r].fed
                            /\ ~e.incomplete /\ ~e.cut => ~(rec[r].seen["req"] < Size[r]["req"])
      BY <1>4
    <2>2. old.stream = r /\ ~old.done /\ ~old.settled /\ (rec[r].losing => ~rec[r].fed)
          /\ (old.replayOf => rec[r].fed)
          /\ (~watched /\ ~old.replayOf => Gathered(old, rec[r]))
          /\ (~watched => Complete(old))
      BY <1>3, <2>0 DEF Tracks, RecordersInv, SettledWhole
    <2>3. es[rec[r].id] = e /\ DOMAIN es = DOMAIN entries  BY <2>0
    <2>4. Mutated(rec[r].id, e) /\ Announce(r, [id |-> rec[r].id, done |-> e.done])
      BY <1>4 DEF Update
    <2>5. publishing' \in [Recs \cup {"clear"} -> Event]
      <3>1. [id |-> rec[r].id, done |-> e.done] \in Event  BY <1>3, <2>1 DEF Event, Entry
      <3> QED BY <2>4, <3>1, AnnounceTyped
    <2> HIDE DEF old, es
    <2>6. ~watched /\ ~e.replayOf => Gathered(e, c)
      BY <1>2, <1>4, <2>1, <2>2 DEF Gathered
    <2>7. Tracks(es, r, c)  BY <1>2, <2>1, <2>2, <2>3, <2>6 DEF Tracks
    <2>8. ~watched => Complete(e)
      <3>1. SUFFICES ASSUME ~watched PROVE Complete(e)  OBVIOUS
      <3>2. "req" \notin e.trunc /\ ~e.evicted => e.body["req"] = Whole(Len(e.body["req"]))
        BY <2>1, <2>2, <3>1 DEF Complete
      <3>3. ASSUME Replayable(e), e.settled, ~e.cut, ~e.replayOf
            PROVE  e.body["req"] = Whole(Size[e.stream]["req"])
        <4>1. ph = "over"  BY <2>1, <2>2, <3>3
        <4>2. rec[r].seen["req"] \in Nat /\ Size[r]["req"] \in Nat
          BY RecorderFields, InspectorAssumption DEF Sides
        <4>3. /\ ~(rec[r].seen["req"] < Size[r]["req"]) /\ rec[r].seen["req"] <= Size[r]["req"]
              /\ old.body["req"] = Whole(rec[r].seen["req"])
          BY <2>1, <2>2, <3>1, <3>3, <4>1 DEF Gathered, Replayable
        <4>4. rec[r].seen["req"] = Size[r]["req"]  BY <4>2, <4>3
        <4> QED BY <2>1, <2>2, <4>3, <4>4
      <3> QED BY <3>2, <3>3 DEF Complete
    <2>9. ph = "answered" => (e.done => entries[rec[r].id].done)  BY <2>1 DEF old
    <2> QED
      BY <1>1, <1>2, <1>4, <2>1, <2>4, <2>5, <2>7, <2>8, <2>9, MutatedFollows, ZenonT(40) DEF es
  <1>5. CASE ~Exists(r)
    <2>1. UNCHANGED <<entries, order, publishing>>  BY <1>5 DEF Update
    <2>2. Tracks(entries, r, c)  BY <1>2, <1>3, <1>5 DEF Tracks, Exists
    <2>3. publishing' \in [Recs \cup {"clear"} -> Event]
      BY <2>1 DEF RecordersInv, InspectorShapes
    <2>4. DoneBefore({}) /\ DoneBefore({rec[r].id})  BY <2>1 DEF DoneBefore
    <2> QED BY <1>1, <1>2, <1>3, <1>5, <2>1, <2>2, <2>3, <2>4, RecorderStep
  <1> QED BY <1>4, <1>5

LEMMA ResponseFollows ==
  ASSUME RecordersInv, NEW r \in Recs, Response(r)
  PROVE  /\ RecordersInv' /\ DoneBefore({})
         /\ ~Exists(r) => UNCHANGED publishing
  <1> DEFINE e == IF Exists(r) THEN Fold(r, entries[rec[r].id]) ELSE <<>>
  <1>1. Exists(r) =>
          LET old == entries[rec[r].id] IN
          /\ e \in Entry /\ e.stream = old.stream /\ e.body = old.body /\ e.evicted = old.evicted
          /\ e.replayOf = old.replayOf /\ e.trunc = old.trunc \cup rec[r].dropped
          /\ e.done = old.done /\ e.settled = old.settled
    BY RecorderFields DEF Fold, Entry
  <1>2. /\ Update(r, e) /\ rec[r].at \in {"open", "answered"}
        /\ rec' = [rec EXCEPT ![r].at = "answered", ![r].dropped = IF Exists(r) THEN {} ELSE @]
        /\ UNCHANGED <<nextID, open, channel, browser, watched>>
    BY DEF Response
  <1> HIDE DEF e
  <1> QED BY <1>1, <1>2, UpdateFollows

\* The entry that End leaves.
Ended(r) ==
  [Fold(r, entries[rec[r].id]) EXCEPT
     !.done = TRUE,
     !.incomplete = ~rec[r].complete \/ (rec[r].declared /\ rec[r].seen["req"] < Size[r]["req"]),
     !.settled = rec[r].fed,
     !.cut = ~rec[r].declared /\ rec[r].seen["req"] < Size[r]["req"]]

LEMMA EndFollows ==
  ASSUME RecordersInv, NEW r \in Recs, End(r)
  PROVE  /\ RecordersInv' /\ DoneBefore({rec[r].id})
         /\ ~Exists(r) => DoneBefore({}) /\ UNCHANGED publishing
  <1> DEFINE e == IF Exists(r) THEN Ended(r) ELSE <<>>
  <1>1. Exists(r) =>
          LET old == entries[rec[r].id] IN
          /\ e \in Entry /\ e.stream = old.stream /\ e.body = old.body /\ e.evicted = old.evicted
          /\ e.replayOf = old.replayOf /\ e.trunc = old.trunc \cup rec[r].dropped
          /\ e.settled = rec[r].fed
          /\ ~e.incomplete /\ ~e.cut => ~(rec[r].seen["req"] < Size[r]["req"])
    <2>1. rec[r].fed \in BOOLEAN /\ rec[r].complete \in BOOLEAN /\ rec[r].declared \in BOOLEAN
      BY RecorderFields DEF Recorder
    <2> DEFINE partial == rec[r].seen["req"] < Size[r]["req"]
               lacking == ~rec[r].complete \/ (rec[r].declared /\ partial)
               unknown == ~rec[r].declared /\ partial
    <2>2. lacking \in BOOLEAN /\ unknown \in BOOLEAN /\ (~lacking /\ ~unknown => ~partial)
      BY <2>1
    <2>3. Ended(r) = [Fold(r, entries[rec[r].id]) EXCEPT !.done = TRUE, !.incomplete = lacking,
                        !.settled = rec[r].fed, !.cut = unknown]
      BY DEF Ended
    <2> HIDE DEF lacking, unknown
    <2> QED BY <2>1, <2>2, <2>3, RecorderFields, ZenonT(40) DEF Fold, Entry
  <1>2. /\ Update(r, e) /\ rec[r].at \in {"open", "answered"}
        /\ rec' = [rec EXCEPT ![r].at = "over", ![r].dropped = IF Exists(r) THEN {} ELSE @]
        /\ UNCHANGED <<nextID, open, channel, browser, watched>>
    BY DEF End, Ended
  <1> HIDE DEF e
  <1> QED BY <1>1, <1>2, UpdateFollows

\* The steps of a recorder that leave the store alone.
LEMMA OtherRecorderSteps ==
  ASSUME RecordersInv, NEW r \in Recs,
         \/ \E s \in Sides : TeeBusy(r, s)
         \/ RequestEnd(r) \/ Fed(r) \/ Gone(r) \/ FlagDropped(r)
  PROVE  RecordersInv'
  <1>0. rec \in [Recs -> Recorder] /\ rec[r] \in Recorder /\ nextID \in Nat
    BY InspectorAssumption DEF RecordersInv, InspectorShapes
  <1>1. publishing \in [Recs \cup {"clear"} -> Event]  BY DEF RecordersInv, InspectorShapes
  <1>2. Tracks(entries, r, rec[r]) /\ rec[r].id <= nextID  BY RecorderFields
  <1>3. ASSUME NEW s \in Sides, TeeBusy(r, s) PROVE RecordersInv'
    <2> DEFINE c == [rec[r] EXCEPT !.seen = [rec[r].seen EXCEPT ![s] = rec[r].seen[s] + 1],
                                   !.losing = rec[r].losing \/ s = "req",
                                   !.dropped = IF s = "req" THEN rec[r].dropped ELSE rec[r].dropped \cup {s}]
    <2>1. rec' = [rec EXCEPT ![r] = c]  BY <1>0, <1>3 DEF TeeBusy, Recorder
    <2>2. /\ rec[r].seen \in [Sides -> Nat] /\ rec[r].seen[s] + 1 \in Nat
          /\ [rec[r].seen EXCEPT ![s] = rec[r].seen[s] + 1] \in [Sides -> Nat]
      BY RecorderFields
    <2>3. (rec[r].losing \/ (s = "req")) \in BOOLEAN  BY <1>0 DEF Recorder
    <2>4. /\ c \in Recorder /\ c.id = rec[r].id /\ c.at = rec[r].at /\ c.fed = rec[r].fed
          /\ c.losing = (rec[r].losing \/ s = "req") /\ c.complete = rec[r].complete
          /\ c.dropped = IF s = "req" THEN rec[r].dropped ELSE rec[r].dropped \cup {s}
          /\ s # "req" => c.seen["req"] = rec[r].seen["req"]
          /\ s = "req" => c.seen["req"] = rec[r].seen["req"] + 1
      BY <1>0, <2>2, <2>3 DEF Recorder, Sides
    <2>5. s = "req" => ~rec[r].fed /\ rec[r].seen["req"] < Size[r]["req"]
      BY <1>3 DEF TeeBusy, HasChunk
    <2> HIDE DEF c
    <2>a. s = "req" => c.seen["req"] <= Size[r]["req"]
      <3>1. rec[r].seen["req"] \in Nat /\ Size[r]["req"] \in Nat
        BY <2>2, InspectorAssumption DEF Sides
      <3> QED BY <2>4, <2>5, <3>1
    <2>6. Tracks(entries, r, c)
      BY <1>2, <2>4, <2>5, <2>a DEF Tracks, Gathered
    <2>7. UNCHANGED <<nextID, order, entries, publishing, open, channel, browser, watched>>
      BY <1>3 DEF TeeBusy
    <2> QED BY <1>1, <1>2, <2>1, <2>4, <2>6, <2>7, RecorderStep
  <1>4. CASE RequestEnd(r)
    <2> DEFINE c == [rec[r] EXCEPT !.complete = TRUE]
    <2>1. rec' = [rec EXCEPT ![r] = c] /\ c \in Recorder /\ c.id = rec[r].id
      BY <1>0, <1>4 DEF RequestEnd, Recorder
    <2>2. Tracks(entries, r, c)  BY <1>0, <1>2, <2>1 DEF Tracks, Gathered, Recorder
    <2>3. UNCHANGED <<nextID, order, entries, publishing, open, channel, browser, watched>>
      BY <1>4 DEF RequestEnd
    <2> HIDE DEF c
    <2> QED BY <1>1, <1>2, <2>1, <2>2, <2>3, RecorderStep
  <1>5. CASE Fed(r)
    <2> DEFINE c == [rec[r] EXCEPT !.fed = TRUE]
    <2>1. rec' = [rec EXCEPT ![r] = c] /\ c \in Recorder /\ c.id = rec[r].id /\ ~rec[r].losing
      BY <1>0, <1>5 DEF Fed, Recorder
    <2>2. Tracks(entries, r, c)  BY <1>0, <1>2, <2>1 DEF Tracks, Gathered, Recorder
    <2>3. UNCHANGED <<nextID, order, entries, publishing, open, channel, browser, watched>>
      BY <1>5 DEF Fed
    <2> HIDE DEF c
    <2> QED BY <1>1, <1>2, <2>1, <2>2, <2>3, RecorderStep
  <1>6. CASE Gone(r)
    <2>1. rec' = [rec EXCEPT ![r] = NewRec] /\ NewRec \in Recorder /\ NewRec.id = 0 /\ ~NewRec.losing
      BY <1>6, InspectorAssumption DEF Gone, NewRec, Recorder
    <2>2. 0 \notin DOMAIN entries
      BY DEF RecordersInv, InspectorShapes, EntryTypes, EntryIds
    <2> HIDE DEF NewRec
    <2>3. Tracks(entries, r, NewRec)  BY <2>1, <2>2 DEF Tracks
    <2>4. UNCHANGED <<nextID, order, entries, publishing, open, channel, browser, watched>>
      BY <1>6 DEF Gone
    <2>5. NewRec \in Recorder /\ NewRec.id <= nextID  BY <1>0, <2>1
    <2>6. publishing' \in [Recs \cup {"clear"} -> Event]  BY <1>1, <2>4
    <2> QED BY <2>1, <2>3, <2>4, <2>5, <2>6, RecorderStep
  <1>7. CASE FlagDropped(r)
    <2> DEFINE c == [rec[r] EXCEPT !.losing = FALSE, !.dropped = rec[r].dropped \cup {"req"}]
    <2>1. rec' = [rec EXCEPT ![r] = c] /\ c \in Recorder /\ c.id = rec[r].id
      BY <1>0, <1>7 DEF FlagDropped, Recorder, Sides
    <2>2. Tracks(entries, r, c)  BY <1>0, <1>2, <2>1 DEF Tracks, Gathered, Recorder
    <2>3. UNCHANGED <<nextID, order, entries, publishing, open, channel, browser, watched>>
      BY <1>7 DEF FlagDropped
    <2> HIDE DEF c
    <2> QED BY <1>1, <1>2, <2>1, <2>2, <2>3, RecorderStep
  <1> QED BY <1>3, <1>4, <1>5, <1>6, <1>7

LEMMA ClearFollows ==
  ASSUME RecordersInv, Clear
  PROVE  RecordersInv' /\ DoneBefore({})
  <1>1. /\ entries' = [id \in {} |-> <<>>] /\ order' = <<>>
        /\ UNCHANGED <<nextID, rec, open, channel, browser, watched>>
    BY DEF Clear, SetStore, Store
  <1>2. DOMAIN entries' = {}  BY <1>1
  <1>3. publishing' \in [Recs \cup {"clear"} -> Event]
    <2>1. [id |-> 0, done |-> FALSE] \in Event  BY InspectorAssumption DEF Event
    <2>2. Announce("clear", [id |-> 0, done |-> FALSE])  BY DEF Clear
    <2> QED BY <2>1, <2>2, AnnounceTyped
  <1>4. InspectorShapes'
    BY <1>1, <1>2, <1>3 DEF RecordersInv, InspectorShapes, EntryTypes
  <1>5. Follows(entries, rec)' /\ SettledWhole(entries)' /\ Numbered'
    BY <1>1, <1>2 DEF RecordersInv, Follows, Tracks, SettledWhole, Numbered
  <1> QED BY <1>2, <1>4, <1>5 DEF RecordersInv, DoneBefore

\* The fetches, as the page's type has them.
Answers == [at : {"none", "asked", "listed"}, list : [EntryIds -> Views], missed : SUBSET EntryIds]

LEMMA PageFields ==
  ASSUME RecordersInv
  PROVE  /\ browser \in Page /\ browser.loads \in [Loads -> Answers] /\ NoLoad \in Answers
         /\ browser.shown \in [EntryIds -> Views] /\ browser.behind \in SUBSET EntryIds
  BY DEF RecordersInv, InspectorShapes, Page, Answers, NoLoad, Blank, Views

\* What TooOld makes of the fetches.
LEMMA TooOldFetch ==
  ASSUME NEW loads \in [Loads -> Answers], NEW ids \in SUBSET EntryIds,
         NEW aged, aged = TooOld(loads, ids), NEW l \in Loads
  PROVE  /\ aged[l] \in Answers
         /\ aged[l].at = loads[l].at /\ aged[l].list = loads[l].list
         /\ aged[l].at = "listed" => aged[l].missed = loads[l].missed \cup ids
  <1> DEFINE more == loads[l].missed \cup ids
  <1>1. loads[l] \in Answers  OBVIOUS
  <1>2. more \in SUBSET EntryIds  BY <1>1 DEF Answers
  <1>3. aged[l] = IF loads[l].at = "listed" THEN [loads[l] EXCEPT !.missed = more] ELSE loads[l]
    BY DEF TooOld
  <1> HIDE DEF more
  <1>4. /\ [loads[l] EXCEPT !.missed = more] \in Answers /\ [loads[l] EXCEPT !.missed = more].missed = more
        /\ [loads[l] EXCEPT !.missed = more].at = loads[l].at
        /\ [loads[l] EXCEPT !.missed = more].list = loads[l].list
    BY <1>1, <1>2 DEF Answers
  <1>5. CASE loads[l].at = "listed"  BY <1>3, <1>4, <1>5 DEF more
  <1>6. CASE loads[l].at # "listed"  BY <1>1, <1>3, <1>6
  <1> QED BY <1>5, <1>6

LEMMA TooOldFields ==
  ASSUME NEW loads \in [Loads -> Answers], NEW ids \in SUBSET EntryIds
  PROVE  TooOld(loads, ids) \in [Loads -> Answers]
  <1> DEFINE aged == TooOld(loads, ids)
  <1>1. aged = [l \in Loads |-> aged[l]]  BY DEF TooOld
  <1>2. aged = TooOld(loads, ids)  OBVIOUS
  <1> HIDE DEF aged
  <1>3. \A l \in Loads : aged[l] \in Answers  BY <1>2, TooOldFetch
  <1> QED BY <1>1, <1>2, <1>3

\* The browser's own steps.
BrowserSteps ==
  \/ \E a \in Recs \cup {"clear"} : Publish(a)
  \/ \E l \in Loads : Subscribe(l) \/ List(l) \/ Loaded(l) \/ LoadFails(l)
  \/ Receive

\* A page as its steps leave it.
LEMMA PageSteps ==
  ASSUME RecordersInv
  PROVE  /\ \A l \in Loads :
              /\ Subscribe(l) => browser' = [shown |-> browser.shown, behind |-> EntryIds,
                   loads |-> [TooOld(browser.loads, EntryIds) EXCEPT ![l] = [NoLoad EXCEPT !.at = "asked"]]]
              /\ List(l) => browser' = [shown |-> browser.shown, behind |-> browser.behind,
                   loads |-> [browser.loads EXCEPT
                     ![l] = [at |-> "listed", missed |-> {}, list |-> [id \in EntryIds |-> Shown(id)]]]]
              /\ LoadFails(l) => browser' = [shown |-> browser.shown, behind |-> browser.behind,
                   loads |-> [browser.loads EXCEPT ![l] = NoLoad]]
         /\ TooOld(browser.loads, EntryIds) \in [Loads -> Answers]
  <1>1. browser \in Page  BY PageFields
  <1>2. TooOld(browser.loads, EntryIds) \in [Loads -> Answers]  BY PageFields, TooOldFields
  <1> QED BY <1>1, <1>2 DEF Subscribe, List, LoadFails, Page

LEMMA PageTyped ==
  ASSUME RecordersInv, BrowserSteps
  PROVE  browser' \in Page
  <1>a. /\ browser \in Page /\ browser.loads \in [Loads -> Answers] /\ NoLoad \in Answers
        /\ browser.shown \in [EntryIds -> Views] /\ browser.behind \in SUBSET EntryIds
    BY PageFields
  <1>b. ASSUME NEW shown \in [EntryIds -> Views], NEW behind \in SUBSET EntryIds,
               NEW loads \in [Loads -> Answers]
        PROVE  [shown |-> shown, behind |-> behind, loads |-> loads] \in Page
    BY DEF Page, Answers
  <1>1. ASSUME NEW a \in Recs \cup {"clear"}, Publish(a) PROVE browser' \in Page
    BY <1>1, <1>a DEF Publish
  <1>2. ASSUME NEW l \in Loads, Subscribe(l) PROVE browser' \in Page
    <2> DEFINE asked == [NoLoad EXCEPT !.at = "asked"]
    <2>1. asked \in Answers  BY <1>a DEF Answers
    <2> HIDE DEF asked
    <2>2. [TooOld(browser.loads, EntryIds) EXCEPT ![l] = asked] \in [Loads -> Answers]
      BY <2>1, PageSteps
    <2>3. browser' = [shown |-> browser.shown, behind |-> EntryIds,
                      loads |-> [TooOld(browser.loads, EntryIds) EXCEPT ![l] = asked]]
      BY <1>2, PageSteps DEF asked
    <2>4. EntryIds \in SUBSET EntryIds  OBVIOUS
    <2> QED BY <1>a, <1>b, <2>2, <2>3, <2>4
  <1>3. ASSUME NEW l \in Loads, List(l) PROVE browser' \in Page
    <2> DEFINE listed == [at |-> "listed", missed |-> {}, list |-> [id \in EntryIds |-> Shown(id)]]
    <2>1. listed \in Answers  BY DEF Answers, Shown, Views
    <2> HIDE DEF listed
    <2>2. [browser.loads EXCEPT ![l] = listed] \in [Loads -> Answers]  BY <1>a, <2>1
    <2>3. browser' = [shown |-> browser.shown, behind |-> browser.behind,
                      loads |-> [browser.loads EXCEPT ![l] = listed]]
      BY <1>3, PageSteps DEF listed
    <2> QED BY <1>a, <1>b, <2>2, <2>3
  <1>4. ASSUME NEW l \in Loads, Loaded(l) PROVE browser' \in Page
    <2>1. browser.loads[l] \in Answers /\ [browser.loads EXCEPT ![l] = NoLoad] \in [Loads -> Answers]
      BY <1>a
    <2>2. browser.loads[l].list \in [EntryIds -> Views] /\ browser.loads[l].missed \in SUBSET EntryIds
      BY <2>1 DEF Answers
    <2> QED BY <1>4, <1>b, <2>1, <2>2 DEF Loaded
  <1>5. ASSUME NEW l \in Loads, LoadFails(l) PROVE browser' \in Page
    <2>1. [browser.loads EXCEPT ![l] = NoLoad] \in [Loads -> Answers]  BY <1>a
    <2>2. browser' = [shown |-> browser.shown, behind |-> browser.behind,
                      loads |-> [browser.loads EXCEPT ![l] = NoLoad]]
      BY <1>5, PageSteps
    <2> QED BY <1>a, <1>b, <2>1, <2>2
  <1>6. ASSUME Receive PROVE browser' \in Page
    <2> DEFINE ev == Head(channel)
               shown == [id \in EntryIds |-> IF ev.id = 0 THEN "absent"
                                              ELSE IF id # ev.id THEN browser.shown[id]
                                              ELSE IF ev.done THEN "done" ELSE "pending"]
               behind == IF ev.id = 0 THEN {} ELSE browser.behind \ {ev.id}
    <2>1. ev \in Event
      <3>1. channel \in Seq(Event) /\ channel # <<>>
        BY <1>6 DEF RecordersInv, InspectorShapes, Receive
      <3> QED BY <3>1, HeadTailProperties
    <2>2. {ev.id} \ {0} \in SUBSET EntryIds  BY <2>1, InspectorAssumption DEF Event, EntryIds
    <2>3. TooOld(browser.loads, {ev.id} \ {0}) \in [Loads -> Answers]  BY <1>a, <2>2, TooOldFields
    <2>4. shown \in [EntryIds -> Views] /\ behind \in SUBSET EntryIds  BY <1>a DEF Views
    <2>5. browser' = [shown |-> shown, behind |-> behind, loads |-> TooOld(browser.loads, {ev.id} \ {0})]
      BY <1>6 DEF Receive
    <2> HIDE DEF ev, shown, behind
    <2> QED BY <1>b, <2>3, <2>4, <2>5
  <1> QED BY <1>1, <1>2, <1>3, <1>4, <1>5, <1>6 DEF BrowserSteps

LEMMA BrowserFollows ==
  ASSUME RecordersInv, BrowserSteps
  PROVE  RecordersInv'
  <1>1. UNCHANGED <<nextID, order, entries, rec, watched>>
    BY DEF BrowserSteps, Publish, Subscribe, List, Loaded, LoadFails, Receive
  <1>2. Nothing \in Event  BY InspectorAssumption DEF Nothing, Event
  <1>a. /\ publishing \in [Recs \cup {"clear"} -> Event] /\ channel \in Seq(Event) /\ open \in BOOLEAN
        /\ browser' \in Page
    BY PageTyped DEF RecordersInv, InspectorShapes
  <1>3. /\ publishing' \in [Recs \cup {"clear"} -> Event] /\ channel' \in Seq(Event)
        /\ open' \in BOOLEAN
    <2>1. ASSUME NEW a \in Recs \cup {"clear"}, Publish(a)
          PROVE  /\ publishing' \in [Recs \cup {"clear"} -> Event] /\ channel' \in Seq(Event)
                 /\ open' \in BOOLEAN
      <3>1. publishing' \in [Recs \cup {"clear"} -> Event] /\ publishing[a] \in Event
        BY <1>2, <2>1, <1>a DEF Publish
      <3> HIDE DEF Event
      <3>2. open' \in BOOLEAN  BY <2>1, <1>a DEF Publish
      <3>3. channel' = Append(channel, publishing[a]) \/ channel' = channel  BY <2>1 DEF Publish
      <3> QED BY <1>a, <3>1, <3>2, <3>3
    <2>2. ASSUME NEW l \in Loads, Subscribe(l) \/ List(l) \/ Loaded(l) \/ LoadFails(l)
          PROVE  UNCHANGED <<publishing, channel>> /\ open' \in BOOLEAN
      BY <2>2, <1>a DEF Subscribe, List, Loaded, LoadFails
    <2>3. ASSUME Receive
          PROVE  UNCHANGED <<publishing, open>> /\ channel' \in Seq(Event)
      BY <2>3, <1>a DEF Receive
    <2> HIDE DEF Event
    <2> QED BY <1>a, <2>1, <2>2, <2>3 DEF BrowserSteps
  <1>6. Follows(entries, rec)' /\ SettledWhole(entries)' /\ Numbered'
    BY <1>1 DEF RecordersInv, Follows, Tracks, Gathered, SettledWhole, Complete, Numbered
  <1>7. InspectorShapes'
    BY <1>1, <1>3, <1>a DEF RecordersInv, InspectorShapes, EntryTypes
  <1> QED BY <1>6, <1>7 DEF RecordersInv

LEMMA InitFollows == InspectorInit => RecordersInv
  <1> SUFFICES ASSUME InspectorInit PROVE RecordersInv  OBVIOUS
  <1>1. DOMAIN entries = {}  BY DEF InspectorInit
  <1>2. NewRec \in Recorder /\ NewRec.id = 0 /\ ~NewRec.losing
    BY InspectorAssumption DEF NewRec, Recorder
  <1>3. Nothing \in Event  BY InspectorAssumption DEF Nothing, Event
  <1> HIDE DEF NewRec
  <1>4. InspectorShapes
    <2>1. /\ nextID = 0 /\ 0 \in 0 .. MAX_ENTRY_ID /\ order = <<>> /\ order \in Seq(EntryIds)
          /\ open = FALSE /\ channel = <<>> /\ channel \in Seq(Event) /\ watched \in BOOLEAN
      BY InspectorAssumption DEF InspectorInit
    <2>2. /\ rec \in [Recs -> Recorder] /\ publishing \in [Recs \cup {"clear"} -> Event]
          /\ browser \in Page
      BY <1>2, <1>3 DEF InspectorInit, Page, NoLoad, Blank, Views
    <2>3. EntryTypes(entries)  BY <1>1 DEF EntryTypes
    <2> QED BY <2>1, <2>2, <2>3 DEF InspectorShapes
  <1>5. Follows(entries, rec) /\ SettledWhole(entries) /\ Numbered
    BY <1>1, <1>2 DEF InspectorInit, Follows, Tracks, SettledWhole, Numbered
  <1> QED BY <1>4, <1>5 DEF RecordersInv

LEMMA StutterFollows == RecordersInv /\ UNCHANGED inspectorVars => RecordersInv'
  BY DEF RecordersInv, InspectorShapes, EntryTypes, Follows, Tracks, Gathered, SettledWhole,
         Complete, Numbered, inspectorVars

LEMMA NextFollows == RecordersInv /\ [InspectorNext]_inspectorVars => RecordersInv'
  <1> SUFFICES ASSUME RecordersInv, [InspectorNext]_inspectorVars PROVE RecordersInv'  OBVIOUS
  <1>1. ASSUME NEW r \in Recs, Begin(r) PROVE RecordersInv'  BY <1>1, BeginFollows
  <1>2. ASSUME NEW r \in Recs, Response(r) PROVE RecordersInv'  BY <1>2, ResponseFollows
  <1>3. ASSUME NEW r \in Recs, End(r) PROVE RecordersInv'  BY <1>3, EndFollows
  <1>4. ASSUME NEW r \in Recs, NEW s \in Sides, Tee(r, s) PROVE RecordersInv'
    BY <1>4, TeeFollows
  <1>5. ASSUME NEW r \in Recs, NEW id \in EntryIds, Replay(id, r) PROVE RecordersInv'
    BY <1>5, ReplayFollows
  <1>6. ASSUME NEW r \in Recs, \/ \E s \in Sides : TeeBusy(r, s)
                               \/ RequestEnd(r) \/ Fed(r) \/ Gone(r) \/ FlagDropped(r)
        PROVE  RecordersInv'
    BY <1>6, OtherRecorderSteps
  <1>7. CASE Clear  BY <1>7, ClearFollows
  <1>8. CASE BrowserSteps  BY <1>8, BrowserFollows
  <1>9. CASE UNCHANGED inspectorVars  BY <1>9, StutterFollows
  <1> QED BY <1>1, <1>2, <1>3, <1>4, <1>5, <1>6, <1>7, <1>8, <1>9 DEF InspectorNext, BrowserSteps

\* For any streams, sizes and limits: a replay has no gaps, and what it sends of a
\* request whose upload was over when its entry was finished is the whole body,
\* unless the entry is flagged, however often the store was busy, capped it or
\* evicted it, or unless feed left the rest of an undeclared length behind.
THEOREM ReplaysAreWhole == InspectorSpec => []ReplayIsWhole
  <1>1. RecordersInv => ReplayIsWhole
    BY DEF RecordersInv, SettledWhole, Complete, Replayable, ReplayIsWhole
  <1> QED BY <1>1, InitFollows, NextFollows, PTL DEF InspectorSpec

---------------------------------------------------------------------------
\* What a stream has to say changes with what it does.
LEMMA SpokenStays ==
  ASSUME Spoken, NEW r \in Recs,
         \A q \in Recs \ {r} : rec'[q].id = rec[q].id /\ rec'[q].at = rec[q].at
                               /\ publishing'[q] = publishing[q],
         publishing'["clear"] = publishing["clear"],
         publishing'[r] # Nothing =>
           /\ publishing'[r].id = rec'[r].id /\ rec'[r].at # "new" /\ rec'[r].id # 0
           /\ publishing'[r].done <=> rec'[r].at = "over"
  PROVE  Spoken'
  BY DEF Spoken

\* A store that changes, while what is yet to be published stays to be published.
LEMMA ToldStays ==
  ASSUME RecordersInv, RecordersInv', Told(entries), UNCHANGED <<open, channel, browser, watched>>,
         \A r \in Recs : publishing[r] # Nothing => publishing'[r] = publishing[r],
         \A id \in DOMAIN entries' : entries'[id].done =>
            \/ id \in DOMAIN entries /\ entries[id].done
            \/ \E r \in Recs : publishing'[r] = [id |-> id, done |-> TRUE]
  PROVE  Told(entries)'
  <1>1. ASSUME open, NEW id \in DOMAIN entries', entries'[id].done
        PROVE  /\ Pends(id)' => Coming(id, 0)'
               /\ \A i \in DOMAIN channel' : channel'[i] = [id |-> id, done |-> FALSE] => Coming(id, i)'
    <2>1. id # 0  BY DEF RecordersInv, InspectorShapes, EntryTypes, EntryIds
    <2>2. [id |-> id, done |-> TRUE] # Nothing  BY <2>1 DEF Nothing
    <2>3. ASSUME NEW n, Coming(id, n) PROVE Coming(id, n)'
      BY <2>2, <2>3 DEF Coming
    <2>4. CASE id \in DOMAIN entries /\ entries[id].done
      <3>1. Pends(id)' => Pends(id)  BY DEF Pends
      <3> QED BY <1>1, <2>3, <2>4, <3>1 DEF Told
    <2>5. CASE \E r \in Recs : publishing'[r] = [id |-> id, done |-> TRUE]
      BY <2>5 DEF Coming
    <2> QED BY <1>1, <2>4, <2>5
  <1> QED BY <1>1 DEF Told

\* Two records of the same fields.
LEMMA Events ==
  ASSUME NEW e \in Event
  PROVE  e = [id |-> e.id, done |-> e.done]
  BY DEF Event

LEMMA PublishTells ==
  ASSUME BrowserInv, NEW a \in Recs \cup {"clear"}, Publish(a)
  PROVE  Spoken' /\ Told(entries)'
  <1>0. RecordersInv /\ Spoken /\ Told(entries)  BY DEF BrowserInv
  <1>a. /\ publishing \in [Recs \cup {"clear"} -> Event] /\ channel \in Seq(Event)
        /\ publishing' = [publishing EXCEPT ![a] = Nothing] /\ publishing[a] # Nothing
        /\ UNCHANGED <<nextID, order, entries, total, rec, watched>>
    BY <1>0 DEF RecordersInv, InspectorShapes, Publish
  <1>1. Spoken'
    BY <1>0, <1>a DEF Spoken
  <1>2. CASE ~(open /\ Len(channel) < EVENTS)
    <2>1. ~open'  BY <1>2 DEF Publish
    <2> QED BY <1>1, <2>1 DEF Told
  <1>4. CASE open /\ Len(channel) < EVENTS
    <2>1. channel' = Append(channel, publishing[a]) /\ open' /\ browser' = browser
      BY <1>4 DEF Publish
    <2> DEFINE len == Len(channel)
               last == len + 1
    <2>2. /\ DOMAIN channel = 1 .. len /\ DOMAIN channel' = 1 .. last
          /\ \A i \in 1 .. len : channel'[i] = channel[i]
          /\ channel'[last] = publishing[a] /\ len \in Nat
      BY <1>a, <2>1
    <2> HIDE DEF len
    <2>a. /\ last \in DOMAIN channel' /\ \A n \in 0 .. len : last > n
          /\ \A i \in DOMAIN channel : i \in DOMAIN channel' /\ channel'[i] = channel[i] /\ i \in 0 .. len
          /\ \A i \in DOMAIN channel' : i # last => i \in DOMAIN channel
          /\ 0 \in 0 .. len
      BY <2>2
    <2> HIDE DEF last
    <2>3. ASSUME NEW id \in DOMAIN entries, NEW n \in 0 .. len, Coming(id, n)
          PROVE  Coming(id, n)'
      <3>1. ASSUME NEW j \in DOMAIN channel, j > n, channel[j] = [id |-> id, done |-> TRUE]
            PROVE  Coming(id, n)'
        BY <2>a, <3>1 DEF Coming
      <3>2. ASSUME NEW r \in Recs, publishing[r] = [id |-> id, done |-> TRUE]
            PROVE  Coming(id, n)'
        <4>1. CASE r = a
          BY <2>2, <2>a, <3>2, <4>1 DEF Coming
        <4>2. CASE r # a
          BY <1>a, <3>2, <4>2 DEF Coming
        <4> QED BY <4>1, <4>2
      <3> QED BY <2>3, <3>1, <3>2 DEF Coming
    <2>4. ASSUME NEW id \in DOMAIN entries, entries[id].done,
                 publishing[a] = [id |-> id, done |-> FALSE]
          PROVE  FALSE
      <3>1. id # 0  BY <1>0 DEF RecordersInv, InspectorShapes, EntryTypes, EntryIds
      <3>2. publishing[a].id = id /\ ~publishing[a].done  BY <2>4
      <3>3. a \in Recs  BY <1>0, <3>1, <3>2 DEF Spoken, Nothing
      <3>4. rec[a].id = id /\ rec[a].at # "over"  BY <1>0, <1>a, <3>2, <3>3 DEF Spoken
      <3> QED BY <1>0, <2>4, <3>3, <3>4 DEF RecordersInv, Follows, Tracks
    <2>5. ASSUME NEW id \in DOMAIN entries, entries[id].done
          PROVE  /\ Pends(id)' => Coming(id, 0)'
                 /\ \A i \in DOMAIN channel' :
                      channel'[i] = [id |-> id, done |-> FALSE] => Coming(id, i)'
      <3>0. Pends(id)' => Pends(id)  BY <2>1 DEF Pends
      <3>1. Pends(id)' => Coming(id, 0)'
        BY <1>0, <1>4, <2>a, <2>3, <2>5, <3>0 DEF Told
      <3>2. ASSUME NEW i \in DOMAIN channel', channel'[i] = [id |-> id, done |-> FALSE]
            PROVE  Coming(id, i)'
        <4>1. CASE i = last  BY <2>2, <2>4, <2>5, <3>2, <4>1
        <4>2. CASE i # last
          <5>1. i \in DOMAIN channel /\ channel[i] = [id |-> id, done |-> FALSE]
            BY <2>a, <3>2, <4>2
          <5>2. Coming(id, i)  BY <1>0, <1>4, <2>5, <5>1 DEF Told
          <5> QED BY <2>a, <2>3, <5>1, <5>2
        <4> QED BY <4>1, <4>2
      <3> QED BY <3>1, <3>2
    <2>6. open' /\ watched'  BY <1>0, <1>a, <1>4, <2>1 DEF Told
    <2>7. Told(entries)'  BY <1>a, <2>5, <2>6 DEF Told
    <2> QED BY <1>1, <2>7
  <1> QED BY <1>1, <1>2, <1>4

LEMMA ReceiveTells ==
  ASSUME BrowserInv, Receive
  PROVE  Spoken' /\ Told(entries)'
  <1>0. RecordersInv /\ Spoken /\ Told(entries)  BY DEF BrowserInv
  <1>a. /\ channel # <<>> /\ channel' = Tail(channel) /\ channel \in Seq(Event)
        /\ UNCHANGED <<nextID, order, entries, total, rec, publishing, open, watched>>
    BY <1>0 DEF RecordersInv, InspectorShapes, Receive
  <1>1. Spoken'  BY <1>0, <1>a DEF Spoken
  <1>2. ~open => Told(entries)'  BY <1>a DEF Told
  <1> DEFINE len == Len(channel)
  <1>b. /\ DOMAIN channel = 1 .. len /\ DOMAIN channel' = 1 .. (len - 1)
        /\ \A i \in 1 .. (len - 1) : channel'[i] = channel[i + 1]
        /\ len \in Nat \ {0} /\ Head(channel) = channel[1]
    BY <1>a, HeadTailProperties
  <1> HIDE DEF len
  <1>3. /\ \A i \in DOMAIN channel' : i \in Nat /\ i + 1 \in DOMAIN channel /\ channel'[i] = channel[i + 1]
        /\ \A i \in DOMAIN channel : i \in Nat /\ (i # 1 => i - 1 \in DOMAIN channel' /\ i - 1 > 0
                                                    /\ channel'[i - 1] = channel[i])
        /\ 1 \in DOMAIN channel
    BY <1>b
  <1> DEFINE ev == Head(channel)
  <1>4. ev \in Event /\ ev = channel[1]  BY <1>a, <1>b
  <1>5. ASSUME NEW id \in EntryIds, Pends(id)'
        PROVE  IF id = ev.id THEN ~ev.done ELSE Pends(id)
    <2>1. /\ browser'.shown = [k \in EntryIds |-> IF ev.id = 0 THEN "absent"
                                 ELSE IF k # ev.id THEN browser.shown[k]
                                 ELSE IF ev.done THEN "done" ELSE "pending"]
          /\ browser'.behind = IF ev.id = 0 THEN {} ELSE browser.behind \ {ev.id}
          /\ browser'.loads = TooOld(browser.loads, {ev.id} \ {0})
      BY DEF Receive
    <2>a. id # 0 /\ {ev.id} \ {0} \in SUBSET EntryIds
      BY <1>4, InspectorAssumption DEF Event, EntryIds
    <2> HIDE DEF ev
    <2>2. CASE browser'.shown[id] = "pending" /\ id \notin browser'.behind
      <3>1. ev.id # 0  BY <2>1, <2>2
      <3> QED BY <2>1, <2>2, <3>1 DEF Pends
    <2>3. CASE \E l \in Loads : /\ browser'.loads[l].at = "listed" /\ browser'.loads[l].list[id] = "pending"
                              /\ id \notin browser'.loads[l].missed
      <3>1. PICK l \in Loads : /\ browser'.loads[l].at = "listed" /\ browser'.loads[l].list[id] = "pending"
                              /\ id \notin browser'.loads[l].missed
        BY <2>3
      <3>2. browser.loads \in [Loads -> Answers]  BY <1>0, PageFields
      <3> DEFINE ids == {ev.id} \ {0}
      <3>4. ids \in SUBSET EntryIds /\ browser'.loads = TooOld(browser.loads, ids)  BY <2>1, <2>a
      <3> HIDE DEF ids
      <3>5. /\ browser'.loads[l].at = browser.loads[l].at
            /\ browser'.loads[l].list = browser.loads[l].list
            /\ browser'.loads[l].at = "listed"
                 => browser'.loads[l].missed = browser.loads[l].missed \cup ids
        BY <3>2, <3>4, TooOldFetch
      <3>3. /\ browser.loads[l].at = "listed" /\ browser.loads[l].list[id] = "pending"
            /\ id \notin browser.loads[l].missed \cup ids
        BY <3>1, <3>4, <3>5
      <3> QED BY <2>a, <3>3 DEF Pends, ids
    <2> QED BY <1>5, <2>2, <2>3 DEF Pends
  <1> HIDE DEF ev
  <1>6. ASSUME NEW id \in DOMAIN entries, NEW n \in DOMAIN channel, Coming(id, n)
        PROVE  Coming(id, n - 1)'
    <2>1. ASSUME NEW j \in DOMAIN channel, j > n, channel[j] = [id |-> id, done |-> TRUE]
          PROVE  Coming(id, n - 1)'
      <3>a. j \in Nat /\ n \in Nat /\ n >= 1  BY <1>b
      <3>b. j # 1 /\ j - 1 > n - 1  BY <2>1, <3>a
      <3>1. j - 1 \in DOMAIN channel' /\ channel'[j - 1] = channel[j]  BY <1>3, <3>b
      <3> QED BY <2>1, <3>b, <3>1 DEF Coming
    <2>2. ASSUME NEW r \in Recs, publishing[r] = [id |-> id, done |-> TRUE]
          PROVE  Coming(id, n - 1)'
      BY <1>a, <2>2 DEF Coming
    <2> QED BY <1>6, <2>1, <2>2 DEF Coming
  <1>7. ASSUME open, NEW id \in DOMAIN entries, entries[id].done
        PROVE  /\ Pends(id)' => Coming(id, 0)'
               /\ \A i \in DOMAIN channel' :
                    channel'[i] = [id |-> id, done |-> FALSE] => Coming(id, i)'
    <2>0. id \in EntryIds /\ id # 0  BY <1>0 DEF RecordersInv, InspectorShapes, EntryTypes, EntryIds
    <2>1. ASSUME Pends(id)' PROVE Coming(id, 0)'
      <3>1. CASE id = ev.id
        <4>1. ~ev.done /\ channel[1] = [id |-> id, done |-> FALSE]
          BY <1>4, <1>5, <2>0, <2>1, <3>1 DEF Event
        <4>2. Coming(id, 1)  BY <1>0, <1>3, <1>7, <4>1 DEF Told
        <4>3. Coming(id, 1 - 1)'  BY <1>3, <1>6, <4>2
        <4> QED BY <4>3
      <3>2. CASE id # ev.id
        <4>1. Pends(id)  BY <1>5, <2>0, <2>1, <3>2
        <4>2. Coming(id, 0)  BY <1>0, <1>7, <4>1 DEF Told
        <4>3. ASSUME NEW j \in DOMAIN channel, channel[j] = [id |-> id, done |-> TRUE]
              PROVE  Coming(id, 0)'
          <5>1. j # 1  BY <1>4, <3>2, <4>3
          <5>2. j - 1 \in DOMAIN channel' /\ channel'[j - 1] = channel[j] /\ j - 1 > 0
            BY <1>3, <5>1
          <5> QED BY <4>3, <5>2 DEF Coming
        <4> QED BY <1>a, <4>2, <4>3 DEF Coming
      <3> QED BY <3>1, <3>2
    <2>2. ASSUME NEW i \in DOMAIN channel', channel'[i] = [id |-> id, done |-> FALSE]
          PROVE  Coming(id, i)'
      <3>1. i + 1 \in DOMAIN channel /\ channel[i + 1] = [id |-> id, done |-> FALSE] /\ i \in Nat
        BY <1>3, <2>2
      <3>2. Coming(id, i + 1)  BY <1>0, <1>7, <3>1 DEF Told
      <3>3. Coming(id, (i + 1) - 1)'  BY <1>6, <3>1, <3>2
      <3>4. (i + 1) - 1 = i  BY <3>1
      <3> QED BY <3>3, <3>4
    <2> QED BY <2>1, <2>2
  <1>8. open => Told(entries)'  BY <1>0, <1>a, <1>7 DEF Told
  <1> QED BY <1>1, <1>2, <1>8

\* A new entry: the recorder that adds it has nothing left to say.
LEMMA AddTells ==
  ASSUME BrowserInv, RecordersInv', DoneBefore({}), NEW r \in Recs, rec[r].at = "new",
         Announce(r, [id |-> nextID + 1, done |-> FALSE]),
         NEW c, rec' = [rec EXCEPT ![r] = c], c.id = nextID + 1, c.at = "open",
         UNCHANGED <<open, channel, browser, watched>>
  PROVE  Spoken' /\ Told(entries)'
  <1>0. RecordersInv /\ Spoken /\ Told(entries) /\ rec \in [Recs -> Recorder]
        /\ publishing \in [Recs \cup {"clear"} -> Event] /\ nextID + 1 # 0
    BY InspectorAssumption DEF BrowserInv, RecordersInv, InspectorShapes
  <1>1. publishing[r] = Nothing  BY <1>0 DEF Spoken
  <1>2. /\ \A a \in Recs \cup {"clear"} : a # r => publishing'[a] = publishing[a]
        /\ publishing'[r] \in {Nothing, [id |-> nextID + 1, done |-> FALSE]}
    BY <1>0 DEF Announce
  <1>3. Spoken'
    <2>1. \A q \in Recs \ {r} : rec'[q].id = rec[q].id /\ rec'[q].at = rec[q].at
                               /\ publishing'[q] = publishing[q]
      BY <1>0, <1>2
    <2>2. publishing'["clear"] = publishing["clear"]  BY <1>2, InspectorAssumption
    <2>3. publishing'[r] # Nothing =>
           /\ publishing'[r].id = rec'[r].id /\ rec'[r].at # "new" /\ rec'[r].id # 0
           /\ publishing'[r].done <=> rec'[r].at = "over"
      BY <1>0, <1>2
    <2> QED BY <1>0, <2>1, <2>2, <2>3, SpokenStays
  <1>4. \A q \in Recs : publishing[q] # Nothing => publishing'[q] = publishing[q]
    BY <1>1, <1>2
  <1>5. Told(entries)'  BY <1>0, <1>4, ToldStays DEF DoneBefore
  <1> QED BY <1>3, <1>5

LEMMA BeginTells ==
  ASSUME BrowserInv, NEW r \in Recs, Begin(r)
  PROVE  Spoken' /\ Told(entries)'
  <1>1. RecordersInv' /\ DoneBefore({})  BY BeginFollows DEF BrowserInv
  <1>2. /\ rec[r].at = "new" /\ Announce(r, [id |-> nextID + 1, done |-> FALSE])
        /\ UNCHANGED <<open, channel, browser, watched>>
    BY DEF Begin, Add
  <1>3. PICK declared \in BOOLEAN :
          rec' = [rec EXCEPT ![r] = [NewRec EXCEPT !.id = nextID + 1, !.at = "open",
                    !.declared = declared, !.complete = watched, !.fed = watched]]
    BY DEF Begin
  <1> DEFINE c == [NewRec EXCEPT !.id = nextID + 1, !.at = "open",
                    !.declared = declared, !.complete = watched, !.fed = watched]
  <1>4. c.id = nextID + 1 /\ c.at = "open"  BY DEF NewRec
  <1> HIDE DEF c
  <1> QED BY <1>1, <1>2, <1>3, <1>4, AddTells DEF c

LEMMA ReplayTells ==
  ASSUME BrowserInv, NEW r \in Recs, NEW id \in EntryIds, Replay(id, r)
  PROVE  Spoken' /\ Told(entries)'
  <1>1. RecordersInv' /\ DoneBefore({})  BY ReplayFollows DEF BrowserInv
  <1>2. /\ rec[r].at = "new" /\ Announce(r, [id |-> nextID + 1, done |-> FALSE])
        /\ UNCHANGED <<open, channel, browser, watched>>
    BY DEF Replay, Add
  <1> DEFINE c == [NewRec EXCEPT !.id = nextID + 1, !.at = "open",
                     !.seen["req"] = Len(entries[id].body["req"]), !.complete = TRUE, !.fed = TRUE]
  <1>3. rec' = [rec EXCEPT ![r] = c]  BY DEF Replay
  <1>4. c.id = nextID + 1 /\ c.at = "open"  BY DEF NewRec
  <1> HIDE DEF c
  <1> QED BY <1>1, <1>2, <1>3, <1>4, AddTells

\* A step of a recorder that says nothing.
LEMMA QuietTells ==
  ASSUME BrowserInv, RecordersInv', DoneBefore({}), NEW r \in Recs,
         \A q \in Recs \ {r} : rec'[q] = rec[q],
         (rec'[r].id = rec[r].id /\ rec'[r].at = rec[r].at) \/ publishing[r] = Nothing,
         UNCHANGED <<publishing, open, channel, browser, watched>>
  PROVE  Spoken' /\ Told(entries)'
  <1>0. Spoken /\ RecordersInv /\ Told(entries)  BY DEF BrowserInv
  <1>1. Spoken'  BY <1>0 DEF Spoken
  <1>2. Told(entries)'  BY <1>0, ToldStays DEF DoneBefore
  <1> QED BY <1>1, <1>2

LEMMA RecorderTells ==
  ASSUME BrowserInv, NEW r \in Recs,
         \/ \E s \in Sides : Tee(r, s) \/ TeeBusy(r, s)
         \/ RequestEnd(r) \/ Fed(r) \/ Gone(r) \/ FlagDropped(r)
  PROVE  Spoken' /\ Told(entries)'
  <1>0. RecordersInv /\ rec \in [Recs -> Recorder] /\ rec[r] \in Recorder
    BY DEF BrowserInv, RecordersInv, InspectorShapes
  <1>1. ASSUME NEW s \in Sides, Tee(r, s) PROVE Spoken' /\ Told(entries)'
    <2>1. RecordersInv' /\ DoneBefore({})  BY <1>0, <1>1, TeeFollows
    <2>2. /\ \A q \in Recs \ {r} : rec'[q] = rec[q]
          /\ rec'[r].id = rec[r].id /\ rec'[r].at = rec[r].at
          /\ UNCHANGED <<publishing, open, channel, browser, watched>>
      BY <1>0, <1>1 DEF Tee, Recorder
    <2> QED BY <2>1, <2>2, QuietTells
  <1>2. ASSUME \/ \E s \in Sides : TeeBusy(r, s)
               \/ RequestEnd(r) \/ Fed(r) \/ Gone(r) \/ FlagDropped(r)
        PROVE  Spoken' /\ Told(entries)'
    <2>1. RecordersInv'  BY <1>0, <1>2, OtherRecorderSteps
    <2>2. UNCHANGED <<entries, publishing, open, channel, browser, watched>>
      BY <1>2 DEF TeeBusy, RequestEnd, Fed, Gone, FlagDropped
    <2>3. DoneBefore({})  BY <2>2 DEF DoneBefore
    <2>4. \A q \in Recs \ {r} : rec'[q] = rec[q]
      BY <1>0, <1>2 DEF TeeBusy, RequestEnd, Fed, Gone, FlagDropped
    <2>5. (rec'[r].id = rec[r].id /\ rec'[r].at = rec[r].at) \/ publishing[r] = Nothing
      <3>1. CASE Gone(r)  BY <3>1 DEF Gone
      <3>2. CASE \E s \in Sides : TeeBusy(r, s)
        <4>1. PICK s \in Sides : TeeBusy(r, s)  BY <3>2
        <4> DEFINE c == [rec[r] EXCEPT
                           !.seen = [rec[r].seen EXCEPT ![s] = rec[r].seen[s] + 1],
                           !.losing = rec[r].losing \/ s = "req",
                           !.dropped = IF s = "req" THEN rec[r].dropped ELSE rec[r].dropped \cup {s}]
        <4>2. rec' = [rec EXCEPT ![r] = c]  BY <1>0, <4>1 DEF TeeBusy, Recorder
        <4>3. c.id = rec[r].id /\ c.at = rec[r].at  BY <1>0 DEF Recorder
        <4> HIDE DEF c
        <4> QED BY <1>0, <4>2, <4>3
      <3>3. CASE RequestEnd(r) \/ Fed(r) \/ FlagDropped(r)
        BY <1>0, <3>3 DEF RequestEnd, Fed, FlagDropped, Recorder
      <3> QED BY <1>2, <3>1, <3>2, <3>3
    <2> QED BY <2>1, <2>2, <2>3, <2>4, <2>5, QuietTells
  <1> QED BY <1>1, <1>2

\* What Update announces.
LEMMA UpdateTells ==
  ASSUME BrowserInv, RecordersInv', NEW r \in Recs, publishing[r] = Nothing,
         NEW ph \in {"answered", "over"}, rec[r].at # "new",
         \A q \in Recs \ {r} : rec'[q] = rec[q], rec'[r].id = rec[r].id, rec'[r].at = ph,
         UNCHANGED <<open, channel, browser, watched>>, NEW done \in BOOLEAN, done <=> ph = "over",
         Exists(r) => /\ Announce(r, [id |-> rec[r].id, done |-> done])
                      /\ DoneBefore(IF done THEN {rec[r].id} ELSE {}),
         ~Exists(r) => DoneBefore({}) /\ UNCHANGED publishing
  PROVE  Spoken' /\ Told(entries)'
  <1>0. /\ RecordersInv /\ Spoken /\ Told(entries)
        /\ publishing \in [Recs \cup {"clear"} -> Event]
        /\ Exists(r) => rec[r].id # 0
    BY DEF BrowserInv, RecordersInv, InspectorShapes, EntryTypes, EntryIds, Exists
  <1>1. CASE Exists(r)
    <2>1. /\ \A a \in Recs \cup {"clear"} : a # r => publishing'[a] = publishing[a]
          /\ publishing'[r] = IF watched THEN [id |-> rec[r].id, done |-> done] ELSE Nothing
      BY <1>0, <1>1 DEF Announce
    <2>2. Spoken'
      <3>1. \A q \in Recs \ {r} : rec'[q].id = rec[q].id /\ rec'[q].at = rec[q].at
                                 /\ publishing'[q] = publishing[q]
        BY <2>1
      <3>2. publishing'["clear"] = publishing["clear"]  BY <2>1, InspectorAssumption
      <3>3. publishing'[r] # Nothing =>
             /\ publishing'[r].id = rec'[r].id /\ rec'[r].at # "new" /\ rec'[r].id # 0
             /\ publishing'[r].done <=> rec'[r].at = "over"
        BY <1>0, <1>1, <2>1
      <3> QED BY <1>0, <3>1, <3>2, <3>3, SpokenStays
    <2>3. \A q \in Recs : publishing[q] # Nothing => publishing'[q] = publishing[q]
      BY <2>1
    <2>4. CASE watched
      <3>1. \A id \in DOMAIN entries' : entries'[id].done =>
               \/ id \in DOMAIN entries /\ entries[id].done
               \/ \E q \in Recs : publishing'[q] = [id |-> id, done |-> TRUE]
        <4>1. CASE done = TRUE
          <5>1. publishing'[r] = [id |-> rec[r].id, done |-> TRUE] /\ DoneBefore({rec[r].id})
            BY <1>1, <2>1, <2>4, <4>1
          <5> QED BY <5>1 DEF DoneBefore
        <4>2. CASE done = FALSE
          BY <1>1, <4>2 DEF DoneBefore
        <4> QED BY <4>1, <4>2
      <3> QED BY <1>0, <2>2, <2>3, <3>1, ToldStays
    <2>5. CASE ~watched
      <3>1. ~open'  BY <1>0, <2>5 DEF Told
      <3> QED BY <2>2, <3>1 DEF Told
    <2> QED BY <2>4, <2>5
  <1>2. CASE ~Exists(r)
    <2>1. Spoken'  BY <1>0, <1>2 DEF Spoken
    <2>2. Told(entries)'  BY <1>0, <1>2, ToldStays DEF DoneBefore
    <2> QED BY <2>1, <2>2
  <1> QED BY <1>1, <1>2

LEMMA AnswerTells ==
  ASSUME BrowserInv, NEW r \in Recs, Response(r) \/ End(r)
  PROVE  Spoken' /\ Told(entries)'
  <1>0. RecordersInv /\ rec \in [Recs -> Recorder] /\ rec[r] \in Recorder
    BY DEF BrowserInv, RecordersInv, InspectorShapes
  <1>a. Exists(r) => entries[rec[r].id] \in Entry /\ Fold(r, entries[rec[r].id]) \in Entry
    BY <1>0, RecorderFields
  <1>1. CASE Response(r)
    <2>1. RecordersInv' /\ DoneBefore({}) /\ (~Exists(r) => UNCHANGED publishing)
      BY <1>0, <1>1, ResponseFollows
    <2>2. Exists(r) => Announce(r, [id |-> rec[r].id, done |-> FALSE])
      <3>1. Exists(r) => ~entries[rec[r].id].done
        BY <1>0, <1>1, RecorderFields DEF Response, Tracks, Exists
      <3>2. Exists(r) => Fold(r, entries[rec[r].id]).done = FALSE
        BY <1>a, <3>1 DEF Fold, Entry
      <3> QED BY <1>1, <3>2 DEF Response, Update
    <2>3. /\ \A q \in Recs \ {r} : rec'[q] = rec[q]
          /\ rec'[r].id = rec[r].id /\ rec'[r].at = "answered" /\ rec[r].at # "new"
          /\ UNCHANGED <<open, channel, browser, watched>> /\ publishing[r] = Nothing
      BY <1>0, <1>1 DEF Response, Recorder
    <2> QED BY <2>1, <2>2, <2>3, UpdateTells
  <1>2. CASE End(r)
    <2>1. RecordersInv' /\ DoneBefore({rec[r].id})
          /\ (~Exists(r) => DoneBefore({}) /\ UNCHANGED publishing)
      BY <1>0, <1>2, EndFollows
    <2>2. Exists(r) => Announce(r, [id |-> rec[r].id, done |-> TRUE])
      <3>1. Exists(r) => Ended(r).done = TRUE  BY <1>a DEF Ended, Entry
      <3>2. Exists(r) => Update(r, Ended(r))  BY <1>2 DEF End, Ended
      <3> HIDE DEF Ended
      <3> QED BY <3>1, <3>2 DEF Update
    <2>3. /\ \A q \in Recs \ {r} : rec'[q] = rec[q]
          /\ rec'[r].id = rec[r].id /\ rec'[r].at = "over" /\ rec[r].at # "new"
          /\ UNCHANGED <<open, channel, browser, watched>> /\ publishing[r] = Nothing
      BY <1>0, <1>2 DEF End, Recorder
    <2> QED BY <2>1, <2>2, <2>3, UpdateTells
  <1> QED BY <1>1, <1>2

LEMMA ClearTells ==
  ASSUME BrowserInv, Clear
  PROVE  Spoken' /\ Told(entries)'
  <1>0. /\ RecordersInv /\ Spoken /\ Told(entries)
        /\ publishing \in [Recs \cup {"clear"} -> Event]
    BY DEF BrowserInv, RecordersInv, InspectorShapes
  <1>1. /\ \A r \in Recs : publishing'[r] = publishing[r]
        /\ publishing'["clear"] \in {Nothing, [id |-> 0, done |-> FALSE]}
    BY <1>0, InspectorAssumption DEF Clear, Announce
  <1>2. UNCHANGED <<nextID, rec, open, channel, browser, watched>>  BY DEF Clear
  <1>3. Spoken'  BY <1>0, <1>1, <1>2 DEF Spoken
  <1>4. RecordersInv' /\ DoneBefore({})  BY <1>0, ClearFollows
  <1>5. Told(entries)'  BY <1>0, <1>1, <1>2, <1>4, ToldStays DEF DoneBefore
  <1> QED BY <1>3, <1>5

\* What the page shows of an entry after it has asked for the list, got it, shown
\* it or given up, when the entry is done.
LEMMA FetchPends ==
  ASSUME BrowserInv, NEW l \in Loads, Subscribe(l) \/ List(l) \/ Loaded(l) \/ LoadFails(l),
         NEW id \in DOMAIN entries, entries[id].done, Pends(id)'
  PROVE  Pends(id) /\ ~Subscribe(l)
  <1>0. RecordersInv /\ browser \in Page /\ browser.loads \in [Loads -> Answers]
        /\ browser.behind \in SUBSET EntryIds /\ id \in EntryIds
    BY PageFields DEF BrowserInv, RecordersInv, InspectorShapes, EntryTypes
  <1>5. \/ browser'.shown[id] = "pending" /\ id \notin browser'.behind
        \/ \E k \in Loads : /\ browser'.loads[k].at = "listed" /\ browser'.loads[k].list[id] = "pending"
                             /\ id \notin browser'.loads[k].missed
    BY DEF Pends
  <1>1. CASE Subscribe(l)
    <2> DEFINE old == TooOld(browser.loads, EntryIds)
               asked == [NoLoad EXCEPT !.at = "asked"]
    <2>5. /\ browser' = [shown |-> browser.shown, behind |-> EntryIds, loads |-> [old EXCEPT ![l] = asked]]
          /\ old \in [Loads -> Answers]
      BY <1>0, <1>1, PageSteps
    <2>6. asked.at = "asked"  BY DEF NoLoad
    <2>7. browser.loads \in [Loads -> Answers] /\ EntryIds \in SUBSET EntryIds  BY <1>0
    <2>9. old = TooOld(browser.loads, EntryIds)  OBVIOUS
    <2> HIDE DEF old, asked
    <2>8. \A k \in Loads : old[k].at = "listed" => old[k].missed = browser.loads[k].missed \cup EntryIds
      BY <2>7, <2>9, TooOldFetch
    <2>1. browser'.behind = EntryIds /\ browser'.loads = [old EXCEPT ![l] = asked]
      BY <2>5
    <2>2. \A k \in Loads : old[k].at = "listed" => EntryIds \subseteq old[k].missed
      BY <2>8
    <2>3. PICK k \in Loads : browser'.loads[k].at = "listed" /\ id \notin browser'.loads[k].missed
      BY <1>0, <1>5, <2>1
    <2>4. k # l /\ browser'.loads[k] = old[k]  BY <2>1, <2>3, <2>5, <2>6
    <2> QED BY <1>0, <2>2, <2>3, <2>4
  <1>2. CASE List(l)
    <2> DEFINE listed == [at |-> "listed", missed |-> {}, list |-> [i \in EntryIds |-> Shown(i)]]
    <2>6. browser' = [shown |-> browser.shown, behind |-> browser.behind,
                      loads |-> [browser.loads EXCEPT ![l] = listed]]
      BY <1>0, <1>2, PageSteps
    <2>1. /\ browser'.shown = browser.shown /\ browser'.behind = browser.behind
          /\ browser'.loads = [browser.loads EXCEPT ![l] = listed]
      BY <2>6, Zenon
    <2>2. listed.list[id] = "done"  BY <1>0 DEF Shown
    <2> HIDE DEF listed
    <2>3. ASSUME browser'.shown[id] = "pending", id \notin browser'.behind PROVE Pends(id)
      BY <2>1, <2>3 DEF Pends
    <2>4. ASSUME NEW k \in Loads, browser'.loads[k].at = "listed", browser'.loads[k].list[id] = "pending",
                 id \notin browser'.loads[k].missed
          PROVE  Pends(id)
      <3>1. k # l  BY <1>0, <2>1, <2>2, <2>4
      <3> QED BY <1>0, <2>1, <2>4, <3>1 DEF Pends
    <2>5. ~Subscribe(l)  BY <1>2 DEF List, Subscribe
    <2> QED BY <1>5, <2>3, <2>4, <2>5, Zenon
  <1>3. CASE Loaded(l)
    <2>1. /\ browser.loads[l].at = "listed" /\ browser'.shown = browser.loads[l].list
          /\ browser'.behind = browser.loads[l].missed
          /\ browser'.loads = [browser.loads EXCEPT ![l] = NoLoad]
      BY <1>3 DEF Loaded
    <2>2. ASSUME browser'.shown[id] = "pending", id \notin browser'.behind PROVE Pends(id)
      BY <2>1, <2>2 DEF Pends
    <2>3. ASSUME NEW k \in Loads, browser'.loads[k].at = "listed", browser'.loads[k].list[id] = "pending",
                 id \notin browser'.loads[k].missed
          PROVE  Pends(id)
      <3>1. k # l  BY <1>0, <2>1, <2>3 DEF NoLoad
      <3> QED BY <1>0, <2>1, <2>3, <3>1 DEF Pends
    <2>4. ~Subscribe(l)  BY <1>3 DEF Loaded, Subscribe
    <2> QED BY <1>5, <2>2, <2>3, <2>4, Zenon
  <1>4. CASE LoadFails(l)
    <2>5. browser' = [shown |-> browser.shown, behind |-> browser.behind,
                      loads |-> [browser.loads EXCEPT ![l] = NoLoad]]
      BY <1>0, <1>4, PageSteps
    <2>1. /\ browser'.shown = browser.shown /\ browser'.behind = browser.behind
          /\ browser'.loads = [browser.loads EXCEPT ![l] = NoLoad]
      BY <2>5, Zenon
    <2>2. ASSUME browser'.shown[id] = "pending", id \notin browser'.behind PROVE Pends(id)
      BY <2>1, <2>2 DEF Pends
    <2>3. ASSUME NEW k \in Loads, browser'.loads[k].at = "listed", browser'.loads[k].list[id] = "pending",
                 id \notin browser'.loads[k].missed
          PROVE  Pends(id)
      <3>1. k # l  BY <1>0, <2>1, <2>3 DEF NoLoad
      <3> QED BY <1>0, <2>1, <2>3, <3>1 DEF Pends
    <2>4. ~Subscribe(l)  BY <1>4 DEF LoadFails, Subscribe
    <2> QED BY <1>5, <2>2, <2>3, <2>4, Zenon
  <1> QED BY <1>1, <1>2, <1>3, <1>4

LEMMA FetchTells ==
  ASSUME BrowserInv, NEW l \in Loads, Subscribe(l) \/ List(l) \/ Loaded(l) \/ LoadFails(l)
  PROVE  Spoken' /\ Told(entries)'
  <1>0. RecordersInv /\ Spoken /\ Told(entries)  BY DEF BrowserInv
  <1>1. /\ UNCHANGED <<entries, rec, publishing, channel, watched>>
        /\ Subscribe(l) => watched /\ channel = <<>>
        /\ ~Subscribe(l) => open' = open
    BY DEF Subscribe, List, Loaded, LoadFails
  <1>2. Spoken'  BY <1>0, <1>1 DEF Spoken
  <1>3. ASSUME NEW id, NEW n PROVE Coming(id, n)' <=> Coming(id, n)
    BY <1>1 DEF Coming
  <1>4. ASSUME open', NEW id \in DOMAIN entries, entries[id].done
        PROVE  /\ Pends(id)' => Coming(id, 0)'
               /\ \A i \in DOMAIN channel' :
                    channel'[i] = [id |-> id, done |-> FALSE] => Coming(id, i)'
    <2>1. Pends(id)' => Coming(id, 0)'  BY <1>0, <1>1, <1>3, <1>4, FetchPends DEF Told
    <2>2. CASE Subscribe(l)
      <3>1. DOMAIN channel' = {}  BY <1>1, <2>2
      <3> QED BY <2>1, <3>1
    <2>3. CASE ~Subscribe(l)  BY <1>0, <1>1, <1>3, <1>4, <2>1, <2>3 DEF Told
    <2> QED BY <2>2, <2>3
  <1>5. open' => watched'  BY <1>0, <1>1 DEF Told
  <1>6. Told(entries)'  BY <1>1, <1>4, <1>5 DEF Told
  <1> QED BY <1>2, <1>6

LEMMA NextTells == BrowserInv /\ [InspectorNext]_inspectorVars => BrowserInv'
  <1> SUFFICES ASSUME BrowserInv, [InspectorNext]_inspectorVars PROVE BrowserInv'  OBVIOUS
  <1>1. RecordersInv'  BY NextFollows DEF BrowserInv
  <1>2. ASSUME NEW r \in Recs, Begin(r) PROVE Spoken' /\ Told(entries)'  BY <1>2, BeginTells
  <1>3. ASSUME NEW r \in Recs, NEW id \in EntryIds, Replay(id, r) PROVE Spoken' /\ Told(entries)'
    BY <1>3, ReplayTells
  <1>4. ASSUME NEW r \in Recs, \/ \E s \in Sides : Tee(r, s) \/ TeeBusy(r, s)
                               \/ RequestEnd(r) \/ Fed(r) \/ Gone(r) \/ FlagDropped(r)
        PROVE  Spoken' /\ Told(entries)'
    BY <1>4, RecorderTells
  <1>5. ASSUME NEW r \in Recs, Response(r) \/ End(r) PROVE Spoken' /\ Told(entries)'
    BY <1>5, AnswerTells
  <1>6. CASE Clear  BY <1>1, <1>6, ClearTells DEF BrowserInv
  <1>7. ASSUME NEW l \in Loads, Subscribe(l) \/ List(l) \/ Loaded(l) \/ LoadFails(l)
        PROVE  Spoken' /\ Told(entries)'
    BY <1>7, FetchTells
  <1>8. CASE Receive  BY <1>1, <1>8, ReceiveTells DEF BrowserInv
  <1>9. ASSUME NEW a \in Recs \cup {"clear"}, Publish(a) PROVE Spoken' /\ Told(entries)'
    BY <1>9, PublishTells
  <1>10. CASE UNCHANGED inspectorVars
    <2>1. UNCHANGED <<entries, rec, publishing, open, channel, browser, watched>>
      BY <1>10 DEF inspectorVars
    <2>2. Spoken'  BY <2>1 DEF BrowserInv, Spoken
    <2>3. Told(entries)'  BY <1>1, <2>1, ToldStays DEF BrowserInv
    <2> QED BY <1>1, <2>2, <2>3 DEF BrowserInv
  <1>11. Spoken' /\ Told(entries)' => BrowserInv'  BY <1>1 DEF BrowserInv
  <1> QED
    BY <1>2, <1>3, <1>4, <1>5, <1>6, <1>7, <1>8, <1>9, <1>10, <1>11 DEF InspectorNext

LEMMA BrowserStart == InspectorInit => BrowserInv
  <1> SUFFICES ASSUME InspectorInit PROVE BrowserInv  OBVIOUS
  <1>1. /\ open = FALSE /\ channel = <<>> /\ \A a \in Recs \cup {"clear"} : publishing[a] = Nothing
    BY DEF InspectorInit
  <1>2. Spoken /\ Told(entries)  BY <1>1 DEF Spoken, Told
  <1> QED BY <1>2, InitFollows DEF BrowserInv

\* For any number of streams and any capacity of the channel: a page that is still
\* connected and has read all its events shows no finished request as pending, but
\* those whose event came while an older list was on its way, though the events of
\* different streams are published in any order after the unlock.
THEOREM BrowserKeepsUp == InspectorSpec => []BrowserNotStale
  <1>1. BrowserInv => BrowserNotStale
    <2> SUFFICES ASSUME BrowserInv, open, channel = <<>>,
                        \A a \in DOMAIN publishing : publishing[a] = Nothing,
                        NEW id \in DOMAIN entries, id \notin browser.behind,
                        browser.shown[id] = "pending", entries[id].done
                 PROVE  FALSE
      BY DEF BrowserNotStale, AllRead
    <2>1. id # 0 /\ DOMAIN publishing = Recs \cup {"clear"} /\ DOMAIN channel = {}
      BY DEF BrowserInv, RecordersInv, InspectorShapes, EntryTypes, EntryIds
    <2>2. Coming(id, 0)  BY DEF BrowserInv, Told, Pends
    <2> QED BY <2>1, <2>2 DEF Coming, Nothing
  <1> QED BY <1>1, BrowserStart, NextTells, PTL DEF InspectorSpec

---------------------------------------------------------------------------
(* The inspector's store: what it keeps and what it counts.                *)

\* The order lists every entry once, the total counts them, and both are bounded.
Listed(es, ord) ==
  /\ DOMAIN es = {ord[i] : i \in DOMAIN ord}
  /\ \A i, j \in DOMAIN ord : ord[i] = ord[j] => i = j
Within(es, sum) ==
  sum <= MaxTotalBytes \/ \A id \in DOMAIN es : CapturedBodyBytes(es[id]) = 0
Stored ==
  /\ Listed(entries, order) /\ Len(order) <= MaxEntries
  /\ total = Bytes(entries) /\ Within(entries, total)

BytesOf(es) == [id \in EntryIds |-> IF id \in DOMAIN es THEN BodyBytes(es[id]) ELSE 0]
BodiesOf(es, ids) == [id \in EntryIds |-> IF id \in ids THEN CapturedBodyBytes(es[id]) ELSE 0]

LEMMA IdsAreFinite == IsFiniteSet(EntryIds) /\ EntryIds \subseteq Nat
  <1>1. MAX_ENTRY_ID \in Int /\ 1 \in Int  BY InspectorAssumption
  <1>2. IsFiniteSet(1 .. MAX_ENTRY_ID)  BY <1>1, FS_Interval
  <1> QED BY <1>2 DEF EntryIds

LEMMA BodiesAreCounted ==
  ASSUME NEW e \in Entry
  PROVE  /\ CapturedBodyBytes(e) \in Nat /\ BodyBytes(e) \in Nat /\ HeaderBytes[e.stream] \in Nat
         /\ BodyBytes(e) = CapturedBodyBytes(e) + HeaderBytes[e.stream]
  <1>1. ASSUME NEW s \in Sides PROVE Allocated(e, s) \in Nat
    <2>1. Size[e.stream][s] \in Nat /\ MaxBodyCapture \in Nat
      BY InspectorAssumption DEF Entry, Sides
    <2>2. Len(e.body[s]) \in Nat
      <3>1. e.body[s] \in Seq(Nat)  BY DEF Entry
      <3> QED BY <3>1
    <2> QED BY <2>1, <2>2 DEF Allocated, Least
  <1>2. HeaderBytes[e.stream] \in Nat  BY InspectorAssumption DEF Entry
  <1> QED BY <1>1, <1>2 DEF CapturedBodyBytes, BodyBytes, Sides

LEMMA EmptiedIsFree ==
  ASSUME NEW e \in Entry
  PROVE  CapturedBodyBytes(Emptied(e)) = 0
  <1>1. Emptied(e).hint = {} /\ Emptied(e).body = [s \in Sides |-> <<>>]  BY EmptiedFields
  <1>2. \A s \in Sides : Allocated(Emptied(e), s) = 0  BY <1>1 DEF Allocated
  <1> QED BY <1>2 DEF CapturedBodyBytes, Sides

LEMMA BytesAreCounted ==
  ASSUME NEW es, EntryTypes(es)
  PROVE  /\ BytesOf(es) \in [EntryIds -> Nat] /\ Bytes(es) = SumFunction(BytesOf(es))
         /\ Bytes(es) \in Nat
  <1>1. BytesOf(es) \in [EntryIds -> Nat]
    BY BodiesAreCounted DEF BytesOf, EntryTypes
  <1>2. Bytes(es) = SumFunction(BytesOf(es))  BY DEF Bytes, BytesOf
  <1> QED BY <1>1, <1>2, SumIsNat, IdsAreFinite

\* One entry more, less or changed.
LEMMA BytesChange ==
  ASSUME NEW es, EntryTypes(es), NEW ds, EntryTypes(ds), NEW id \in EntryIds,
         DOMAIN ds \ {id} = DOMAIN es \ {id},
         \A k \in DOMAIN es \ {id} : ds[k] = es[k]
  PROVE  Bytes(ds) + BytesOf(es)[id] = Bytes(es) + BytesOf(ds)[id]
  <1>1. \A k \in EntryIds \ {id} : BytesOf(ds)[k] = BytesOf(es)[k]  BY DEF BytesOf
  <1>2. /\ IsFiniteSet(EntryIds) /\ BytesOf(es) \in [EntryIds -> Nat] /\ BytesOf(ds) \in [EntryIds -> Nat]
        /\ Bytes(es) = SumFunction(BytesOf(es)) /\ Bytes(ds) = SumFunction(BytesOf(ds))
    BY BytesAreCounted, IdsAreFinite
  <1>3. SumFunction(BytesOf(ds)) + BytesOf(es)[id] = SumFunction(BytesOf(es)) + BytesOf(ds)[id]
    BY <1>1, <1>2, SumChange
  <1> QED BY <1>2, <1>3

LEMMA Listing ==
  ASSUME NEW es, NEW ord \in Seq(EntryIds), Listed(es, ord)
  PROVE  /\ DOMAIN ord = 1 .. Len(ord) /\ Len(ord) \in Nat
         /\ \A i \in DOMAIN ord : ord[i] \in DOMAIN es
  BY DEF Listed

\* evictLocked's first loop.
LEMMA EntriesEvicted ==
  ASSUME NEW es, EntryTypes(es), NEW ord \in Seq(EntryIds), Listed(es, ord),
         Len(ord) <= MaxEntries + 1,
         NEW from, from.entries = es, from.order = ord, from.total = Bytes(es)
  PROVE  LET st == EvictEntries(from) IN
         /\ EntryTypes(st.entries) /\ st.order \in Seq(EntryIds)
         /\ Listed(st.entries, st.order) /\ Len(st.order) <= MaxEntries
         /\ st.total = Bytes(st.entries)
  <1> DEFINE st == EvictEntries(from)
  <1>1. CASE Len(ord) <= MaxEntries
    <2>1. st = from  BY <1>1 DEF EvictEntries
    <2> QED BY <1>1, <2>1
  <1>2. CASE ~(Len(ord) <= MaxEntries)
    <2> DEFINE old == Head(ord)
               ds == [id \in DOMAIN es \ {old} |-> es[id]]
               rest == Tail(ord)
    <2>1. st.entries = ds /\ st.order = rest /\ st.total = Bytes(es) - BodyBytes(es[old])
      BY <1>2 DEF EvictEntries, Store
    <2>2. Len(ord) \in Nat /\ MaxEntries \in Nat /\ ord # <<>> /\ DOMAIN ord = 1 .. Len(ord)
      BY <1>2, InspectorAssumption
    <2>3. /\ rest \in Seq(EntryIds) /\ Len(rest) = Len(ord) - 1 /\ DOMAIN rest = 1 .. (Len(ord) - 1)
          /\ \A i \in 1 .. (Len(ord) - 1) : rest[i] = ord[i + 1]
          /\ old = ord[1]
      BY <2>2, HeadTailProperties
    <2>4. old \in DOMAIN es /\ old \in EntryIds /\ es[old] \in Entry
      BY <2>2, <2>3, Listing DEF EntryTypes
    <2>5. DOMAIN ds = DOMAIN es \ {old} /\ \A k \in DOMAIN ds : ds[k] = es[k]  OBVIOUS
    <2> HIDE DEF old, ds, rest
    <2>6. EntryTypes(ds)  BY <2>5 DEF EntryTypes
    <2>7. Listed(ds, rest)
      <3> DEFINE len == Len(ord)
      <3>1. len \in Nat \ {0} /\ DOMAIN ord = 1 .. len /\ DOMAIN rest = 1 .. (len - 1)
            /\ \A i \in 1 .. (len - 1) : rest[i] = ord[i + 1]
        BY <1>2, <2>2, <2>3
      <3> HIDE DEF len
      <3>2. /\ \A i \in DOMAIN rest : i \in Nat /\ i + 1 \in DOMAIN ord /\ rest[i] = ord[i + 1] /\ i + 1 # 1
            /\ \A i \in DOMAIN ord : i # 1 => i - 1 \in DOMAIN rest /\ rest[i - 1] = ord[i]
            /\ 1 \in DOMAIN ord
        BY <3>1
      <3>3. \A i, j \in DOMAIN ord : ord[i] = ord[j] => i = j  BY DEF Listed
      <3>4. \A i, j \in DOMAIN rest : rest[i] = rest[j] => i = j
        <4> SUFFICES ASSUME NEW i \in DOMAIN rest, NEW j \in DOMAIN rest, rest[i] = rest[j]
                     PROVE  i = j
          OBVIOUS
        <4>1. i + 1 = j + 1 /\ i \in Nat /\ j \in Nat  BY <3>2, <3>3
        <4> QED BY <4>1
      <3>5. ASSUME NEW k \in DOMAIN ds PROVE k \in {rest[i] : i \in DOMAIN rest}
        <4>1. PICK i \in DOMAIN ord : ord[i] = k  BY <2>5 DEF Listed
        <4>2. i # 1  BY <2>3, <2>5, <4>1
        <4> QED BY <3>2, <4>1, <4>2
      <3>6. ASSUME NEW i \in DOMAIN rest PROVE rest[i] \in DOMAIN ds
        <4>1. ord[i + 1] \in DOMAIN es /\ rest[i] = ord[i + 1]  BY <3>2 DEF Listed
        <4>2. ord[i + 1] # old  BY <2>3, <3>2, <3>3
        <4> QED BY <2>5, <4>1, <4>2
      <3>7. DOMAIN ds = {rest[i] : i \in DOMAIN rest}  BY <3>5, <3>6
      <3> QED BY <3>4, <3>7 DEF Listed
    <2>8. Bytes(ds) = Bytes(es) - BodyBytes(es[old])
      <3>1. Bytes(ds) + BytesOf(es)[old] = Bytes(es) + BytesOf(ds)[old]
        BY <2>4, <2>5, <2>6, BytesChange
      <3>2. BytesOf(es)[old] = BodyBytes(es[old]) /\ BytesOf(ds)[old] = 0
        BY <2>4, <2>5 DEF BytesOf
      <3>3. Bytes(ds) \in Nat /\ Bytes(es) \in Nat /\ BodyBytes(es[old]) \in Nat
        BY <2>4, <2>6, BytesAreCounted, BodiesAreCounted
      <3> QED BY <3>1, <3>2, <3>3
    <2>9. Len(rest) <= MaxEntries  BY <2>2, <2>3
    <2> QED BY <2>1, <2>3, <2>6, <2>7, <2>8, <2>9
  <1> QED BY <1>1, <1>2

\* A nonempty set of numbers up to L has a least one.
LEMMA LeastNumber ==
  ASSUME NEW L \in Nat, NEW K \in SUBSET (0 .. L), K # {}
  PROVE  Min(K) \in K
  <1> DEFINE B == {0 .. k : k \in K}
  <1>1. B \in SUBSET (SUBSET (0 .. L)) /\ B # {}
    <2>1. \A k \in K : 0 .. k \subseteq 0 .. L  OBVIOUS
    <2> QED BY <2>1
  <1>2. IsFiniteSet(0 .. L)  BY FS_Interval
  <1>3. PICK m \in B : \A n \in B : ~(n \subseteq m /\ n # m)
    <2> DEFINE S == 0 .. L
    <2>1. B \in SUBSET (SUBSET S) /\ B # {}  BY <1>1
    <2>2. IsFiniteSet(S)  BY <1>2
    <2> HIDE DEF B, S
    <2> QED BY <2>1, <2>2, MinimalSet
  <1>4. PICK k \in K : m = 0 .. k  OBVIOUS
  <1>5. ASSUME NEW j \in K PROVE k <= j
    <2>1. CASE j < k
      <3>1. (0 .. j) \subseteq (0 .. k) /\ k \in 0 .. k /\ k \notin 0 .. j  BY <2>1
      <3>2. 0 .. j # 0 .. k  BY <3>1
      <3>3. 0 .. j \in B  OBVIOUS
      <3> QED BY <1>3, <1>4, <3>1, <3>2, <3>3
    <2> QED BY <2>1
  <1> QED BY <1>5 DEF Min

\* evictLocked's second loop.
LEMMA BodiesEvicted ==
  ASSUME NEW es, EntryTypes(es), NEW ord \in Seq(EntryIds), Listed(es, ord),
         NEW from, from.entries = es, from.order = ord, from.total = Bytes(es)
  PROVE  LET st == EvictBodies(from) IN
         /\ DOMAIN st.entries = DOMAIN es /\ st.order = ord
         /\ EntryTypes(st.entries)
         /\ st.total = Bytes(st.entries) /\ Within(st.entries, st.total)
  <1> DEFINE L == Len(ord)
             upTo(n) == {ord[i] : i \in 1 .. n}
             remains(n) == Bytes(es) - Bodies(es, upTo(n))
             K == {k \in 0 .. L : remains(k) <= MaxTotalBytes} \cup {L}
             n == Min(K)
             ds == [id \in DOMAIN es |->
                      IF id \in upTo(n) /\ CapturedBodyBytes(es[id]) > 0
                      THEN Emptied(es[id]) ELSE es[id]]
             st == EvictBodies(from)
  <1>1. st.entries = ds /\ st.order = ord /\ st.total = remains(n)
    BY DEF EvictBodies, Store, Emptied
  <1>2. L \in Nat /\ DOMAIN ord = 1 .. L /\ \A i \in 1 .. L : ord[i] \in DOMAIN es
    BY Listing
  <1>3. n \in K /\ n \in 0 .. L
    <2> HIDE DEF L, remains
    <2>1. K \in SUBSET (0 .. L) /\ K # {}  BY <1>2
    <2> HIDE DEF K
    <2> QED BY <1>2, <2>1, LeastNumber
  <1>4. upTo(n) \subseteq DOMAIN es
    <2>1. \A m \in 0 .. L : \A i \in 1 .. m : i \in 1 .. L  BY <1>2
    <2> HIDE DEF n
    <2>2. \A i \in 1 .. n : i \in 1 .. L  BY <1>3, <2>1
    <2> QED BY <1>2, <2>2
  <1>5. DOMAIN ds = DOMAIN es  OBVIOUS
  <1>6. ASSUME NEW id \in DOMAIN es
        PROVE  /\ es[id] \in Entry /\ ds[id] \in Entry
               /\ BodyBytes(es[id]) = BodyBytes(ds[id]) + BodiesOf(es, upTo(n))[id]
               /\ id \in upTo(n) => CapturedBodyBytes(ds[id]) = 0
               /\ BodiesOf(es, upTo(n))[id] \in Nat
    <2>1. es[id] \in Entry /\ id \in EntryIds  BY DEF EntryTypes
    <2>2. BodiesOf(es, upTo(n))[id] = IF id \in upTo(n) THEN CapturedBodyBytes(es[id]) ELSE 0
      BY <2>1 DEF BodiesOf
    <2>3. ds[id] = IF id \in upTo(n) /\ CapturedBodyBytes(es[id]) > 0 THEN Emptied(es[id]) ELSE es[id]
      OBVIOUS
    <2> HIDE DEF ds, upTo, n
    <2> DEFINE h == HeaderBytes[es[id].stream]
    <2>4. /\ Emptied(es[id]) \in Entry /\ CapturedBodyBytes(Emptied(es[id])) = 0
          /\ Emptied(es[id]).stream = es[id].stream
      BY <2>1, EmptiedFields, EmptiedIsFree
    <2>5. /\ CapturedBodyBytes(es[id]) \in Nat /\ h \in Nat
          /\ BodyBytes(es[id]) = CapturedBodyBytes(es[id]) + h /\ BodyBytes(Emptied(es[id])) = h
      BY <2>1, <2>4, BodiesAreCounted
    <2> HIDE DEF h
    <2> QED BY <2>1, <2>2, <2>3, <2>4, <2>5
  <1>7. EntryTypes(ds)  BY <1>5, <1>6 DEF EntryTypes
  <1>8. remains(n) = Bytes(ds)
    <2> HIDE DEF ds, upTo, n
    <2>1. BodiesOf(es, upTo(n)) \in [EntryIds -> Nat]
      BY <1>4, <1>6 DEF BodiesOf
    <2>2. AddsUp(BytesOf(es), BytesOf(ds), BodiesOf(es, upTo(n)), EntryIds)
      <3> SUFFICES ASSUME NEW id \in EntryIds
                   PROVE  BytesOf(es)[id] = BytesOf(ds)[id] + BodiesOf(es, upTo(n))[id]
        BY DEF AddsUp
      <3>1. CASE id \in DOMAIN es
        BY <1>5, <1>6, <3>1 DEF BytesOf
      <3>2. CASE id \notin DOMAIN es
        BY <1>4, <1>5, <3>2 DEF BytesOf, BodiesOf
      <3> QED BY <3>1, <3>2
    <2>3. SumFunction(BytesOf(es)) = SumFunction(BytesOf(ds)) + SumFunction(BodiesOf(es, upTo(n)))
      <3>1. /\ IsFiniteSet(EntryIds)
            /\ BytesOf(es) \in [EntryIds -> Nat] /\ BytesOf(ds) \in [EntryIds -> Nat]
        BY <1>7, BytesAreCounted, IdsAreFinite
      <3> DEFINE e == BytesOf(es)
                 f == BytesOf(ds)
                 h == BodiesOf(es, upTo(n))
                 S == EntryIds
      <3>2. IsFiniteSet(S)  BY <3>1
      <3>3. e \in [S -> Nat]  BY <3>1
      <3>4. f \in [S -> Nat]  BY <3>1
      <3>5. h \in [S -> Nat]  BY <2>1
      <3>6. AddsUp(e, f, h, S)  BY <2>2
      <3> HIDE DEF e, f, h, S
      <3>7. SumFunction(e) = SumFunction(f) + SumFunction(h)
        BY <3>2, <3>3, <3>4, <3>5, <3>6, SumAdds
      <3> QED BY <3>7 DEF e, f, h
    <2>4. Bodies(es, upTo(n)) = SumFunction(BodiesOf(es, upTo(n)))  BY DEF Bodies, BodiesOf
    <2>5. Bodies(es, upTo(n)) \in Nat  BY <2>1, <2>4, SumIsNat, IdsAreFinite
    <2>6. Bytes(es) = Bytes(ds) + Bodies(es, upTo(n)) /\ Bytes(es) \in Nat /\ Bytes(ds) \in Nat
      BY <1>7, <2>3, <2>4, BytesAreCounted
    <2> QED BY <2>5, <2>6
  <1>9. Within(ds, remains(n))
    <2>1. CASE remains(n) <= MaxTotalBytes  BY <2>1 DEF Within
    <2>2. CASE n = L
      <3>1. \A id \in DOMAIN es : id \in upTo(n)  BY <1>2, <2>2 DEF Listed
      <3> HIDE DEF ds, upTo, n
      <3> QED BY <1>5, <1>6, <3>1 DEF Within
    <2> QED BY <1>3, <2>1, <2>2
  <1> HIDE DEF ds, upTo, n, remains, st
  <1> QED BY <1>1, <1>5, <1>7, <1>8, <1>9 DEF st

LEMMA StoreStepBounded ==
  ASSUME NEW es, EntryTypes(es), NEW ord \in Seq(EntryIds), Listed(es, ord),
         Len(ord) <= MaxEntries + 1, SetStore(EvictLocked(Store(es, ord, Bytes(es))))
  PROVE  Stored'
  <1> DEFINE from == Store(es, ord, Bytes(es))
             mid == EvictEntries(from)
             st == EvictBodies(mid)
  <1>1. from.entries = es /\ from.order = ord /\ from.total = Bytes(es)  BY DEF Store
  <1>2. entries' = st.entries /\ order' = st.order /\ total' = st.total
    BY DEF SetStore, EvictLocked
  <1> HIDE DEF from
  <1>3. /\ EntryTypes(mid.entries) /\ mid.order \in Seq(EntryIds)
        /\ Listed(mid.entries, mid.order) /\ Len(mid.order) <= MaxEntries
        /\ mid.total = Bytes(mid.entries)
    BY <1>1, EntriesEvicted
  <1> HIDE DEF mid
  <1>4. /\ DOMAIN st.entries = DOMAIN mid.entries /\ st.order = mid.order
        /\ st.total = Bytes(st.entries) /\ Within(st.entries, st.total)
    BY <1>3, BodiesEvicted
  <1> HIDE DEF st
  <1>5. Listed(entries', order') /\ Len(order') <= MaxEntries
        /\ total' = Bytes(entries') /\ Within(entries', total')
    BY <1>2, <1>3, <1>4 DEF Listed
  <1> QED BY <1>5 DEF Stored, Listed, Within, Bytes, CapturedBodyBytes, BodyBytes, Allocated

LEMMA StoreUnchanged ==
  ASSUME Stored, UNCHANGED <<entries, order, total>>
  PROVE  Stored'
  BY DEF Stored, Listed, Within, Bytes, CapturedBodyBytes, BodyBytes, Allocated

\* An entry that is updated keeps its place.
LEMMA MutatedStored ==
  ASSUME RecordersInv, Stored, NEW id \in DOMAIN entries, NEW e \in Entry, Mutated(id, e)
  PROVE  Stored'
  <1> DEFINE es == [entries EXCEPT ![id] = e]
             sum == total + BodyBytes(e) - BodyBytes(entries[id])
  <1>0. /\ EntryTypes(entries) /\ order \in Seq(EntryIds) /\ entries[id] \in Entry /\ id \in EntryIds
        /\ Listed(entries, order) /\ total = Bytes(entries) /\ Len(order) <= MaxEntries
    BY DEF RecordersInv, InspectorShapes, EntryTypes, Stored
  <1>1. DOMAIN es = DOMAIN entries /\ es[id] = e /\ \A k \in DOMAIN entries \ {id} : es[k] = entries[k]
    OBVIOUS
  <1>2. SetStore(EvictLocked(Store(es, order, sum)))  BY DEF Mutated
  <1> HIDE DEF es
  <1>3. EntryTypes(es)  BY <1>0, <1>1 DEF EntryTypes
  <1>4. Listed(es, order)  BY <1>0, <1>1 DEF Listed
  <1>5. sum = Bytes(es)
    <2>1. Bytes(es) + BytesOf(entries)[id] = Bytes(entries) + BytesOf(es)[id]
      BY <1>0, <1>1, <1>3, BytesChange
    <2>2. BytesOf(entries)[id] = BodyBytes(entries[id]) /\ BytesOf(es)[id] = BodyBytes(e)
      BY <1>0, <1>1 DEF BytesOf
    <2>3. /\ Bytes(es) \in Nat /\ Bytes(entries) \in Nat
          /\ BodyBytes(entries[id]) \in Nat /\ BodyBytes(e) \in Nat
      BY <1>0, <1>3, BytesAreCounted, BodiesAreCounted
    <2> QED BY <1>0, <2>1, <2>2, <2>3
  <1>6. Len(order) <= MaxEntries + 1
    <2>1. Len(order) \in Nat /\ MaxEntries \in Nat  BY <1>0, InspectorAssumption
    <2> QED BY <1>0, <2>1
  <1> HIDE DEF sum
  <1> QED BY <1>0, <1>2, <1>3, <1>4, <1>5, <1>6, StoreStepBounded

\* A new entry comes last.
LEMMA AddStored ==
  ASSUME RecordersInv, Stored, NEW r, NEW e \in Entry, Add(r, e)
  PROVE  Stored'
  <1> DEFINE id == nextID + 1
             es == [i \in DOMAIN entries \cup {id} |-> IF i = id THEN e ELSE entries[i]]
             ord == Append(order, id)
             len == Len(order)
  <1>0. /\ EntryTypes(entries) /\ order \in Seq(EntryIds)
        /\ Listed(entries, order) /\ total = Bytes(entries) /\ Len(order) <= MaxEntries
    BY DEF RecordersInv, InspectorShapes, Stored
  <1>1. id \in EntryIds /\ id \notin DOMAIN entries
    BY InspectorAssumption DEF Add, RecordersInv, InspectorShapes, EntryIds, Numbered
  <1>2. DOMAIN es = DOMAIN entries \cup {id} /\ es[id] = e /\ \A k \in DOMAIN entries : es[k] = entries[k]
    BY <1>1
  <1>3. SetStore(EvictLocked(Store(es, ord, total + BodyBytes(e))))  BY DEF Add
  <1>4. /\ ord \in Seq(EntryIds) /\ Len(ord) = len + 1 /\ len \in Nat
        /\ DOMAIN ord = 1 .. (len + 1) /\ DOMAIN order = 1 .. len
        /\ ord[len + 1] = id /\ \A i \in 1 .. len : ord[i] = order[i]
    BY <1>0, <1>1, AppendProperties
  <1> HIDE DEF es, ord, len, id
  <1>5. EntryTypes(es)  BY <1>0, <1>1, <1>2 DEF EntryTypes
  <1>6. Listed(es, ord)
    <2>1. \A i \in DOMAIN order : order[i] \in DOMAIN entries /\ ord[i] = order[i] /\ i # len + 1 /\ i \in DOMAIN ord
      BY <1>0, <1>4 DEF Listed
    <2>2. \A i \in DOMAIN ord : i = len + 1 \/ i \in DOMAIN order  BY <1>4
    <2>3. len + 1 \in DOMAIN ord  BY <1>4
    <2>4. ASSUME NEW k \in DOMAIN es PROVE k \in {ord[i] : i \in DOMAIN ord}
      <3>1. CASE k = id  BY <1>4, <2>3, <3>1
      <3>2. CASE k # id
        <4>1. PICK i \in DOMAIN order : order[i] = k  BY <1>0, <1>2, <3>2 DEF Listed
        <4> QED BY <2>1, <4>1
      <3> QED BY <3>1, <3>2
    <2>5. ASSUME NEW i \in DOMAIN ord PROVE ord[i] \in DOMAIN es
      BY <1>2, <1>4, <2>1, <2>2
    <2>6. ASSUME NEW i \in DOMAIN ord, NEW j \in DOMAIN ord, ord[i] = ord[j] PROVE i = j
      BY <1>0, <1>1, <1>4, <2>1, <2>2, <2>6 DEF Listed
    <2>7. DOMAIN es = {ord[i] : i \in DOMAIN ord}  BY <2>4, <2>5
    <2> QED BY <2>6, <2>7 DEF Listed
  <1>7. total + BodyBytes(e) = Bytes(es)
    <2>1. Bytes(es) + BytesOf(entries)[id] = Bytes(entries) + BytesOf(es)[id]
      <3>1. DOMAIN es \ {id} = DOMAIN entries \ {id}
            /\ \A k \in DOMAIN entries \ {id} : es[k] = entries[k]
        BY <1>2
      <3> QED BY <1>0, <1>1, <1>5, <3>1, BytesChange
    <2>2. BytesOf(entries)[id] = 0 /\ BytesOf(es)[id] = BodyBytes(e)
      BY <1>1, <1>2 DEF BytesOf
    <2>3. Bytes(es) \in Nat /\ Bytes(entries) \in Nat /\ BodyBytes(e) \in Nat
      BY <1>0, <1>5, BytesAreCounted, BodiesAreCounted
    <2> QED BY <1>0, <2>1, <2>2, <2>3
  <1>8. Len(ord) <= MaxEntries + 1
    BY <1>0, <1>4, InspectorAssumption DEF len
  <1> QED BY <1>3, <1>4, <1>5, <1>6, <1>7, <1>8, StoreStepBounded

LEMMA ClearStored ==
  ASSUME Clear
  PROVE  Stored'
  <1>1. entries' = [id \in {} |-> <<>>] /\ order' = <<>> /\ total' = 0
    BY DEF Clear, SetStore, Store
  <1>2. EntryTypes(entries') /\ \A id \in EntryIds : BytesOf(entries')[id] = 0
    BY <1>1 DEF EntryTypes, BytesOf
  <1>3. Bytes(entries') = 0
    <2>1. BytesOf(entries') \in [EntryIds -> Nat] /\ Bytes(entries') = SumFunction(BytesOf(entries'))
      BY <1>2, BytesAreCounted
    <2> QED BY <1>2, <2>1, IdsAreFinite, SumOfZeros
  <1>4. Listed(entries', order') /\ Len(order') <= MaxEntries /\ Within(entries', total')
    BY <1>1, InspectorAssumption DEF Listed, Within
  <1> QED
    BY <1>1, <1>3, <1>4 DEF Stored, Listed, Within, Bytes, CapturedBodyBytes, BodyBytes, Allocated

LEMMA NextStored ==
  ASSUME RecordersInv, Stored, [InspectorNext]_inspectorVars
  PROVE  Stored'
  <1>1. ASSUME NEW r \in Recs, Begin(r) PROVE Stored'
    <2>1. NewEntry(r, <<>>, FALSE) \in Entry  BY DEF NewEntry, Entry, Sides
    <2> QED BY <1>1, <2>1, AddStored DEF Begin
  <1>2. ASSUME NEW r \in Recs, NEW id \in EntryIds, Replay(id, r) PROVE Stored'
    <2> DEFINE body == entries[id].body["req"]
    <2>1. body \in Seq(Nat)
      BY <1>2 DEF Replay, RecordersInv, InspectorShapes, EntryTypes, Entry, Sides
    <2>2. Add(r, NewEntry(r, body, TRUE))  BY <1>2 DEF Replay
    <2> HIDE DEF body
    <2>3. NewEntry(r, body, TRUE) \in Entry  BY <2>1 DEF NewEntry, Entry, Sides
    <2> QED BY <2>2, <2>3, AddStored
  <1>3. ASSUME NEW r \in Recs, NEW s \in Sides, Tee(r, s) PROVE Stored'
    <2>1. CASE Exists(r)
      <3> DEFINE e == Captured(r, s, Fold(r, entries[rec[r].id]))
      <3>1. e \in Entry  BY <2>1, RecorderFields, CapturedFields
      <3>2. Mutated(rec[r].id, e) /\ rec[r].id \in DOMAIN entries  BY <1>3, <2>1 DEF Tee, Exists
      <3> HIDE DEF e
      <3> QED BY <3>1, <3>2, MutatedStored
    <2>2. CASE ~Exists(r)  BY <1>3, <2>2, StoreUnchanged DEF Tee
    <2> QED BY <2>1, <2>2
  <1>4. ASSUME NEW r \in Recs, NEW e, Update(r, e), Exists(r) => e \in Entry PROVE Stored'
    <2>1. CASE Exists(r)
      BY <1>4, <2>1, MutatedStored DEF Update, Exists
    <2>2. CASE ~Exists(r)  BY <1>4, <2>2, StoreUnchanged DEF Update
    <2> QED BY <2>1, <2>2
  <1>5. ASSUME NEW r \in Recs, Response(r) PROVE Stored'
    BY <1>4, <1>5, RecorderFields DEF Response
  <1>6. ASSUME NEW r \in Recs, End(r) PROVE Stored'
    <2>1. Exists(r) => Ended(r) \in Entry
      <3> DEFINE partial == rec[r].seen["req"] < Size[r]["req"]
                 lacking == ~rec[r].complete \/ (rec[r].declared /\ partial)
                 unknown == ~rec[r].declared /\ partial
      <3>1. rec[r].fed \in BOOLEAN /\ rec[r].complete \in BOOLEAN /\ rec[r].declared \in BOOLEAN
        BY RecorderFields DEF Recorder
      <3>2. lacking \in BOOLEAN /\ unknown \in BOOLEAN  BY <3>1
      <3>3. Ended(r) = [Fold(r, entries[rec[r].id]) EXCEPT !.done = TRUE, !.incomplete = lacking,
                          !.settled = rec[r].fed, !.cut = unknown]
        BY DEF Ended
      <3> HIDE DEF lacking, unknown
      <3> QED BY <3>1, <3>2, <3>3, RecorderFields DEF Fold, Entry
    <2>2. Update(r, IF Exists(r) THEN Ended(r) ELSE <<>>)  BY <1>6 DEF End, Ended
    <2> QED BY <1>4, <2>1, <2>2
  <1>7. ASSUME NEW r \in Recs,
               \/ \E s \in Sides : TeeBusy(r, s)
               \/ RequestEnd(r) \/ Fed(r) \/ Gone(r) \/ FlagDropped(r)
        PROVE  Stored'
    BY <1>7, StoreUnchanged DEF TeeBusy, RequestEnd, Fed, Gone, FlagDropped
  <1>8. ASSUME NEW a \in Recs \cup {"clear"}, Publish(a) PROVE Stored'
    BY <1>8, StoreUnchanged DEF Publish
  <1>9. CASE Receive  BY <1>9, StoreUnchanged DEF Receive
  <1>12. ASSUME NEW l \in Loads, Subscribe(l) \/ List(l) \/ Loaded(l) \/ LoadFails(l)
         PROVE  Stored'
    BY <1>12, StoreUnchanged DEF Subscribe, List, Loaded, LoadFails
  <1>10. CASE UNCHANGED inspectorVars  BY <1>10, StoreUnchanged DEF inspectorVars
  <1>11. CASE Clear  BY <1>11, ClearStored
  <1> QED
    BY <1>1, <1>2, <1>3, <1>5, <1>6, <1>7, <1>8, <1>9, <1>10, <1>11, <1>12
       DEF InspectorNext

LEMMA InitStored == InspectorInit => Stored
  <1> SUFFICES ASSUME InspectorInit PROVE Stored  OBVIOUS
  <1>1. entries = [id \in {} |-> <<>>] /\ order = <<>> /\ total = 0  BY DEF InspectorInit
  <1>2. EntryTypes(entries) /\ \A id \in EntryIds : BytesOf(entries)[id] = 0
    BY <1>1 DEF EntryTypes, BytesOf
  <1>3. Bytes(entries) = 0
    <2>1. BytesOf(entries) \in [EntryIds -> Nat] /\ Bytes(entries) = SumFunction(BytesOf(entries))
      BY <1>2, BytesAreCounted
    <2> QED BY <1>2, <2>1, IdsAreFinite, SumOfZeros
  <1>4. Listed(entries, order) /\ Len(order) <= MaxEntries /\ Within(entries, total)
    BY <1>1, InspectorAssumption DEF Listed, Within
  <1> QED BY <1>1, <1>3, <1>4 DEF Stored

\* For any limits: the store never has more entries than it may, its order lists
\* exactly them, its total is what they hold, and beyond the limit on bytes
\* only headers are left, though entries are evicted under their recorders.
THEOREM StoreStaysBounded == InspectorSpec => []StoreBounded
  <1> DEFINE Inv == RecordersInv /\ Stored
  <1>1. InspectorInit => Inv  BY InitFollows, InitStored
  <1>2. Inv /\ [InspectorNext]_inspectorVars => Inv'  BY NextFollows, NextStored
  <1>3. Inv => StoreBounded  BY DEF Stored, Listed, Within, StoreBounded
  <1> QED BY <1>1, <1>2, <1>3, PTL DEF InspectorSpec

\* However a body is captured, copied or evicted it stays within its cap, and a
\* subscriber's channel within its capacity.
BodyCapped(e) == \A s \in Sides : Len(e.body[s]) <= MaxBodyCapture
AllCapped(es) == \A id \in DOMAIN es : BodyCapped(es[id])
Capped == AllCapped(entries) /\ Len(channel) <= EVENTS

LEMMA EvictionKeepsCap ==
  ASSUME NEW es, EntryTypes(es), AllCapped(es), NEW ord \in Seq(EntryIds), NEW sum,
         SetStore(EvictLocked(Store(es, ord, sum)))
  PROVE  AllCapped(entries')
  <1>1. Remnant(es, entries')  BY StoreStep
  <1>2. ASSUME NEW id \in DOMAIN entries' PROVE BodyCapped(entries'[id])
    <2>1. id \in DOMAIN es /\ es[id] \in Entry /\ BodyCapped(es[id])
      BY <1>1 DEF Remnant, EntryTypes, AllCapped
    <2>2. BodyCapped(Emptied(es[id]))
      BY <2>1, EmptiedFields, InspectorAssumption DEF BodyCapped
    <2> QED BY <1>1, <2>1, <2>2 DEF Remnant
  <1> QED BY <1>2 DEF AllCapped

LEMMA MutatedKeepsCap ==
  ASSUME RecordersInv, AllCapped(entries), NEW id \in DOMAIN entries, NEW e \in Entry,
         BodyCapped(e), Mutated(id, e)
  PROVE  AllCapped(entries')
  <1> DEFINE es == [entries EXCEPT ![id] = e]
             sum == total + BodyBytes(e) - BodyBytes(entries[id])
  <1>1. EntryTypes(entries) /\ order \in Seq(EntryIds)
    BY DEF RecordersInv, InspectorShapes
  <1>2. SetStore(EvictLocked(Store(es, order, sum)))  BY DEF Mutated
  <1>3. DOMAIN es = DOMAIN entries /\ es[id] = e /\ \A k \in DOMAIN entries \ {id} : es[k] = entries[k]
    OBVIOUS
  <1> HIDE DEF es, sum
  <1>4. EntryTypes(es)  BY <1>1, <1>3 DEF EntryTypes
  <1>5. AllCapped(es)  BY <1>3 DEF AllCapped
  <1> QED BY <1>1, <1>2, <1>4, <1>5, EvictionKeepsCap

LEMMA AddKeepsCap ==
  ASSUME RecordersInv, AllCapped(entries), NEW r, NEW e \in Entry, BodyCapped(e), Add(r, e)
  PROVE  AllCapped(entries')
  <1> DEFINE id == nextID + 1
             es == [i \in DOMAIN entries \cup {id} |-> IF i = id THEN e ELSE entries[i]]
             ord == Append(order, id)
             sum == total + BodyBytes(e)
  <1>1. EntryTypes(entries) /\ order \in Seq(EntryIds)
    BY DEF RecordersInv, InspectorShapes
  <1>2. id \in EntryIds
    BY InspectorAssumption DEF Add, RecordersInv, InspectorShapes, EntryIds
  <1>3. SetStore(EvictLocked(Store(es, ord, sum)))  BY DEF Add
  <1>4. /\ DOMAIN es = DOMAIN entries \cup {id}
        /\ \A k \in DOMAIN es : es[k] = e \/ (k \in DOMAIN entries /\ es[k] = entries[k])
    OBVIOUS
  <1>5. ord \in Seq(EntryIds)  BY <1>1, <1>2
  <1> HIDE DEF es, ord, sum, id
  <1>6. EntryTypes(es)  BY <1>1, <1>2, <1>4 DEF EntryTypes
  <1>7. AllCapped(es)  BY <1>4 DEF AllCapped
  <1> QED BY <1>3, <1>5, <1>6, <1>7, EvictionKeepsCap

LEMMA FoldKeepsBody ==
  ASSUME NEW r, NEW e \in Entry
  PROVE  Fold(r, e).body = e.body
  BY DEF Fold, Entry

LEMMA CapturedKeepsCap ==
  ASSUME NEW r, NEW s \in Sides, NEW e \in Entry, BodyCapped(e)
  PROVE  BodyCapped(Captured(r, s, e))
  <1>1. CASE e.evicted  BY <1>1 DEF Captured
  <1>2. CASE ~e.evicted /\ Len(e.body[s]) >= MaxBodyCapture
    BY <1>2 DEF Captured, BodyCapped, Entry
  <1>3. CASE ~e.evicted /\ ~(Len(e.body[s]) >= MaxBodyCapture)
    <2> DEFINE more == Append(e.body[s], rec[r].seen[s] + 1)
               b == [e.body EXCEPT ![s] = more]
               hint == IF s = "req" /\ rec[r].declared THEN e.hint \cup {s} ELSE e.hint
    <2>1. Captured(r, s, e) = [e EXCEPT !.body = b, !.hint = hint]
      BY <1>3 DEF Captured, Entry
    <2>2. e.body \in [Sides -> Seq(Nat)] /\ e.body[s] \in Seq(Nat)  BY DEF Entry
    <2>3. Len(more) = Len(e.body[s]) + 1 /\ Len(e.body[s]) \in Nat  BY <2>2
    <2> HIDE DEF more
    <2>4. Len(more) <= MaxBodyCapture
      BY <1>3, <2>3, InspectorAssumption
    <2>5. \A t \in Sides : b[t] = more \/ b[t] = e.body[t]  BY <2>2
    <2> HIDE DEF b, hint
    <2>6. Captured(r, s, e).body = b  BY <2>1 DEF Entry
    <2> QED BY <2>4, <2>5, <2>6 DEF BodyCapped
  <1> QED BY <1>1, <1>2, <1>3

LEMMA NextCapped ==
  ASSUME RecordersInv, Capped, [InspectorNext]_inspectorVars
  PROVE  Capped'
  <1>a. AllCapped(entries) /\ Len(channel) <= EVENTS  BY DEF Capped
  <1>b. EVENTS \in Nat \ {0} /\ MaxBodyCapture \in Nat  BY InspectorAssumption
  <1>c. channel \in Seq(Event)  BY DEF RecordersInv, InspectorShapes
  <1>d. ASSUME NEW r \in Recs, Exists(r)
        PROVE  /\ rec[r].id \in DOMAIN entries /\ entries[rec[r].id] \in Entry
               /\ BodyCapped(entries[rec[r].id])
               /\ Fold(r, entries[rec[r].id]) \in Entry
               /\ BodyCapped(Fold(r, entries[rec[r].id]))
    <2>1. rec[r].id \in DOMAIN entries /\ entries[rec[r].id] \in Entry
      BY <1>d DEF Exists, RecordersInv, InspectorShapes, EntryTypes
    <2>2. BodyCapped(entries[rec[r].id])  BY <1>a, <2>1 DEF AllCapped
    <2>3. Fold(r, entries[rec[r].id]) \in Entry  BY <1>d, RecorderFields
    <2> QED BY <2>1, <2>2, <2>3, FoldKeepsBody DEF BodyCapped
  <1>e. CASE AllCapped(entries') /\ UNCHANGED channel
    BY <1>a, <1>e DEF Capped, AllCapped, BodyCapped
  <1>f. CASE UNCHANGED <<entries, channel>>
    BY <1>a, <1>f DEF Capped, AllCapped, BodyCapped
  <1>1. ASSUME NEW r \in Recs, Begin(r) PROVE Capped'
    <2>1. NewEntry(r, <<>>, FALSE) \in Entry /\ BodyCapped(NewEntry(r, <<>>, FALSE))
      BY <1>b DEF NewEntry, Entry, Sides, BodyCapped
    <2>2. Add(r, NewEntry(r, <<>>, FALSE)) /\ UNCHANGED channel  BY <1>1 DEF Begin
    <2> QED BY <1>a, <1>e, <2>1, <2>2, AddKeepsCap
  <1>2. ASSUME NEW r \in Recs, NEW id \in EntryIds, Replay(id, r) PROVE Capped'
    <2> DEFINE body == entries[id].body["req"]
    <2>1. body \in Seq(Nat) /\ Len(body) <= MaxBodyCapture
      BY <1>a, <1>2
         DEF Replay, RecordersInv, InspectorShapes, EntryTypes, Entry, Sides, AllCapped,
             BodyCapped
    <2>2. Add(r, NewEntry(r, body, TRUE)) /\ UNCHANGED channel  BY <1>2 DEF Replay
    <2> HIDE DEF body
    <2>3. NewEntry(r, body, TRUE) \in Entry /\ BodyCapped(NewEntry(r, body, TRUE))
      BY <1>b, <2>1 DEF NewEntry, Entry, Sides, BodyCapped
    <2> QED BY <1>a, <1>e, <2>2, <2>3, AddKeepsCap
  <1>3. ASSUME NEW r \in Recs, NEW s \in Sides, Tee(r, s) PROVE Capped'
    <2>1. CASE Exists(r)
      <3> DEFINE f == Fold(r, entries[rec[r].id])
      <3>1. f \in Entry /\ BodyCapped(f) /\ rec[r].id \in DOMAIN entries  BY <1>d, <2>1
      <3>2. Captured(r, s, f) \in Entry  BY <3>1, CapturedFields
      <3>3. Mutated(rec[r].id, Captured(r, s, f)) /\ UNCHANGED channel
        BY <1>3, <2>1 DEF Tee
      <3> HIDE DEF f
      <3>4. BodyCapped(Captured(r, s, f))  BY <3>1, CapturedKeepsCap
      <3> QED BY <1>a, <1>e, <3>1, <3>2, <3>3, <3>4, MutatedKeepsCap
    <2>2. CASE ~Exists(r)  BY <1>3, <1>f, <2>2 DEF Tee
    <2> QED BY <2>1, <2>2
  <1>4. ASSUME NEW r \in Recs, NEW e, Update(r, e), UNCHANGED channel,
               Exists(r) => e \in Entry /\ BodyCapped(e)
        PROVE  Capped'
    <2>1. CASE Exists(r)
      BY <1>a, <1>e, <1>4, <2>1, MutatedKeepsCap DEF Update, Exists
    <2>2. CASE ~Exists(r)  BY <1>4, <1>f, <2>2 DEF Update
    <2> QED BY <2>1, <2>2
  <1>5. ASSUME NEW r \in Recs, Response(r) PROVE Capped'
    BY <1>4, <1>5, <1>d DEF Response
  <1>6. ASSUME NEW r \in Recs, End(r) PROVE Capped'
    <2>1. ASSUME Exists(r) PROVE Ended(r) \in Entry /\ BodyCapped(Ended(r))
      <3> DEFINE partial == rec[r].seen["req"] < Size[r]["req"]
                 lacking == ~rec[r].complete \/ (rec[r].declared /\ partial)
                 unknown == ~rec[r].declared /\ partial
                 f == Fold(r, entries[rec[r].id])
      <3>1. rec[r].fed \in BOOLEAN /\ rec[r].complete \in BOOLEAN /\ rec[r].declared \in BOOLEAN
        BY RecorderFields DEF Recorder
      <3>2. lacking \in BOOLEAN /\ unknown \in BOOLEAN  BY <3>1
      <3>3. Ended(r) = [f EXCEPT !.done = TRUE, !.incomplete = lacking, !.settled = rec[r].fed,
                                 !.cut = unknown]
        BY DEF Ended
      <3>4. f \in Entry /\ BodyCapped(f)  BY <1>d, <2>1
      <3> HIDE DEF lacking, unknown, f
      <3>5. Ended(r) \in Entry /\ Ended(r).body = f.body  BY <3>1, <3>2, <3>3, <3>4 DEF Entry
      <3> QED BY <3>4, <3>5 DEF BodyCapped
    <2>2. Update(r, IF Exists(r) THEN Ended(r) ELSE <<>>) /\ UNCHANGED channel
      BY <1>6 DEF End, Ended
    <2> QED BY <1>4, <2>1, <2>2
  <1>7. ASSUME NEW r \in Recs,
               \/ \E s \in Sides : TeeBusy(r, s)
               \/ RequestEnd(r) \/ Fed(r) \/ Gone(r) \/ FlagDropped(r)
        PROVE  Capped'
    BY <1>7, <1>f DEF TeeBusy, RequestEnd, Fed, Gone, FlagDropped
  <1>8. ASSUME NEW a \in Recs \cup {"clear"}, Publish(a) PROVE Capped'
    <2>1. UNCHANGED entries  BY <1>8 DEF Publish
    <2>2. publishing[a] \in Event
      BY DEF RecordersInv, InspectorShapes
    <2>3. \/ channel' = channel
          \/ Len(channel) < EVENTS /\ channel' = Append(channel, publishing[a])
      BY <1>8 DEF Publish, RecordersInv, InspectorShapes
    <2>4. Len(channel') <= EVENTS
      <3>1. CASE Len(channel) < EVENTS /\ channel' = Append(channel, publishing[a])
        BY <1>b, <1>c, <2>2, <3>1, AppendFits
      <3> QED BY <1>a, <1>b, <2>3, <3>1
    <2> QED BY <1>a, <2>1, <2>4 DEF Capped, AllCapped, BodyCapped
  <1>9. ASSUME NEW l \in Loads, Subscribe(l) \/ List(l) \/ Loaded(l) \/ LoadFails(l)
        PROVE  Capped'
    BY <1>9, <1>f DEF Subscribe, List, Loaded, LoadFails
  <1>10. CASE Receive
    <2>1. channel # <<>> /\ channel' = Tail(channel) /\ UNCHANGED entries
      BY <1>10 DEF Receive
    <2>2. Len(channel') <= EVENTS  BY <1>a, <1>b, <1>c, <2>1, TailFits
    <2> QED BY <1>a, <2>1, <2>2 DEF Capped, AllCapped, BodyCapped
  <1>11. CASE UNCHANGED inspectorVars  BY <1>11, <1>f DEF inspectorVars
  <1>12. CASE Clear
    BY <1>a, <1>12 DEF Clear, SetStore, Store, Capped, AllCapped
  <1> QED
    BY <1>1, <1>2, <1>3, <1>5, <1>6, <1>7, <1>8, <1>9, <1>10, <1>11, <1>12 DEF InspectorNext

InspectorTyped == RecordersInv /\ Stored /\ Capped

LEMMA InspectorStaysTyped ==
  /\ InspectorInit => InspectorTyped
  /\ InspectorTyped /\ [InspectorNext]_inspectorVars => InspectorTyped'
  <1>1. InspectorInit => Capped
    BY InspectorAssumption DEF InspectorInit, Capped, AllCapped
  <1> QED
    BY <1>1, InitFollows, InitStored, NextFollows, NextStored, NextCapped DEF InspectorTyped

LEMMA InspectorTypes == InspectorTyped => InspectorTypeOK
  <1> SUFFICES ASSUME InspectorTyped PROVE InspectorTypeOK
    OBVIOUS
  <1> USE DEF InspectorTyped
  <1>1. EntryTypes(entries)  BY DEF RecordersInv, InspectorShapes
  <1>2. total \in Nat  BY <1>1, BytesAreCounted DEF Stored
  <1>3. ASSUME NEW id \in DOMAIN entries
        PROVE  /\ entries[id].trunc \subseteq Sides /\ entries[id].hint \subseteq Sides
               /\ \A s \in Sides : Len(entries[id].body[s]) <= MaxBodyCapture
    BY <1>1 DEF EntryTypes, Entry, Capped, AllCapped, BodyCapped
  <1>4. ASSUME NEW r \in Recs
        PROVE  /\ rec[r].id \in 0 .. MAX_ENTRY_ID
               /\ rec[r].at \in {"new", "open", "answered", "over"}
               /\ rec[r].losing \in BOOLEAN /\ rec[r].dropped \subseteq Sides
    BY DEF RecordersInv, InspectorShapes, Recorder
  <1> QED
    BY <1>1, <1>2, <1>3, <1>4
       DEF RecordersInv, InspectorShapes, EntryTypes, Event, Capped, InspectorTypeOK

\* The type invariant: the number of entries, the number of events waiting and the
\* bodies' lengths stay within their limits, for any limits and streams.
THEOREM InspectorStaysWellTyped == InspectorSpec => []InspectorTypeOK
  <1> QED BY InspectorStaysTyped, InspectorTypes, PTL DEF InspectorSpec

=============================================================================
