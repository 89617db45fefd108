--------------------------- MODULE HiSLIPLinkProofs ---------------------------
(***************************************************************************)
(* HiSLIPLink for every number of messages, every queue depth, every       *)
(* client and every outcome of the handlers.  In three parts: its type     *)
(* invariant; the order of the commands from the client's socket through   *)
(* the queue to the handler (InOrder), and the refinement QueueIsPipeline; *)
(* the two promises of sync mode, that the receive loop is at most one     *)
(* command ahead (SyncWindow) and that the answers reach the client in the *)
(* order of its commands (SyncAnswersInOrder).                             *)
(***************************************************************************)
EXTENDS HiSLIPLink, SequenceTheorems, TLAPS

USE DEF loopVars, doneVars, clearVars, statusVars, sendVars, recvVars,
        dispVars, asyncVars, histVars, sessionVars, clientVars

-----------------------------------------------------------------------------
(* What the helpers of SessionState do to the types.                       *)

\* Sending keeps the frames that are held or written well typed.
LEMMA SendType ==
    ASSUME NEW t \in Tasks, NEW f \in OutFrames, SessionTypeOK, Send(t, f)
    PROVE  /\ sendQ' \in Seq(Writers)
           /\ outSync' \in Seq(OutFrames)
  BY AppendProperties DEF SessionTypeOK, Send, Wire, Writers

\* So does giving the lock to the next task.
LEMMA DrainedType ==
    ASSUME NEW t \in Tasks, SessionTypeOK, Drained(t)
    PROVE  /\ sendQ' \in Seq(Writers)
           /\ outSync' \in Seq(OutFrames)
  <1>1. sendQ' \in Seq(Writers)
    BY HeadTailProperties DEF SessionTypeOK, Drained
  <1>2. CASE Len(sendQ) > 1
    <2>1. sendQ[2] \in Writers
      <3>1. sendQ \in Seq(Writers) /\ Len(sendQ) \in Nat /\ 2 \in 1..Len(sendQ)
        BY <1>2, LenProperties DEF SessionTypeOK
      <3> QED BY <3>1, ElementOfSeq
    <2>2. sendQ[2].frame \in OutFrames
      BY <2>1 DEF Writers
    <2> QED BY <1>2, <2>2, AppendProperties DEF SessionTypeOK, Drained, Wire
  <1>3. CASE ~(Len(sendQ) > 1)
    BY <1>3 DEF SessionTypeOK, Drained
  <1> QED BY <1>1, <1>2, <1>3

\* A message read by the receive loop is a frame; all but DEVICE_CLEAR_ACK
\* carry an id.
LEMMA ReceiveType ==
    ASSUME NEW k \in SyncIn, SessionTypeOK, Receive(k)
    PROVE  /\ toSync' \in Seq(InFrames)
           /\ k # "clearAck" => Head(toSync).id \in Ids
  <1>1. Head(toSync) \in InFrames /\ toSync' \in Seq(InFrames)
    BY HeadTailProperties DEF SessionTypeOK, Receive
  <1> QED BY <1>1 DEF InFrames, Receive, Frame

\* A frame the session builds is one of those it sends.
LEMMA FrameType ==
    ASSUME NEW k \in SyncOut, NEW i \in Ids \cup {NoId}
    PROVE  Frame(k, i) \in OutFrames
  BY DEF Frame, OutFrames

\* Every step of the receive loop keeps the session's types.
LEMMA ReceiveStepType == SessionTypeOK /\ ReceiveNext => SessionTypeOK'
<1> SUFFICES ASSUME SessionTypeOK, ReceiveNext PROVE SessionTypeOK'
  OBVIOUS
<1> USE DEF SessionTypeOK, recvFrame, RecvPcs, Tasks, SyncIn
<1>1. CASE RecvData
  BY <1>1, ReceiveType DEF RecvData
<1>2. CASE RecvCommand
  <2> DEFINE i == Head(toSync).id
  <2>1. i \in Ids /\ toSync' \in Seq(InFrames)
    BY <1>2, ReceiveType DEF RecvCommand
  <2>2. queue' = Append(queue, i) /\ Len(queue) < QueueDepth
    BY <1>2, SessionAssumption, LenProperties DEF RecvCommand, QueueFull
  <2>3. queue' \in Seq(Ids) /\ Len(queue') <= QueueDepth
    BY <2>1, <2>2, AppendProperties, SessionAssumption, LenProperties
  <2>4. body' \in [Ids -> SUBSET Ids] /\ fate' \in [Ids -> Fates]
    BY <1>2, <2>1 DEF RecvCommand, TakeBuffer, Fates
  <2>5. /\ syncDone' \in Ids \cup {NoId} /\ syncSet' \in BOOLEAN
        /\ recvPc' \in RecvPcs
    BY <1>2, <2>1 DEF RecvCommand, AfterPut
  <2>6. cmdBuf' = {}
    BY <1>2 DEF RecvCommand, TakeBuffer
  <2> QED
    BY <1>2, <2>1, <2>3, <2>4, <2>5, <2>6 DEF RecvCommand
<1>3. CASE RecvOverflow
  <2> DEFINE i == Head(toSync).id
  <2>1. i \in Ids /\ toSync' \in Seq(InFrames)
    BY <1>3, ReceiveType DEF RecvOverflow
  <2>2. Frame("overflow", i) \in OutFrames
    BY <2>1, FrameType DEF SyncOut
  <2>3. /\ sendQ' \in Seq(Writers)
        /\ outSync' \in Seq(OutFrames)
    BY <1>3, <2>2, SendType DEF RecvOverflow
  <2>4. body' \in [Ids -> SUBSET Ids] /\ fate' \in [Ids -> Fates]
    BY <1>3, <2>1 DEF RecvOverflow, TakeBuffer, Fates
  <2> QED
    BY <1>3, <2>1, <2>3, <2>4 DEF RecvOverflow, TakeBuffer
<1>4. CASE RecvWake
  BY <1>4 DEF RecvWake
<1>5. CASE RecvTrigger
  <2>1. toSync' \in Seq(InFrames) /\ Frame("reply", Head(toSync).id) \in OutFrames
    BY <1>5, ReceiveType, FrameType DEF RecvTrigger, SyncOut
  <2>2. /\ sendQ' \in Seq(Writers)
        /\ outSync' \in Seq(OutFrames)
    BY <1>5, <2>1, SendType DEF RecvTrigger
  <2> QED BY <1>5, <2>1, <2>2 DEF RecvTrigger
<1>6. CASE RecvOther
  <2>1. toSync' \in Seq(InFrames) /\ Frame("error", NoId) \in OutFrames
    BY <1>6, ReceiveType, FrameType DEF RecvOther, SyncOut
  <2>2. /\ sendQ' \in Seq(Writers)
        /\ outSync' \in Seq(OutFrames)
    BY <1>6, <2>1, SendType DEF RecvOther
  <2> QED BY <1>6, <2>1, <2>2 DEF RecvOther
<1>7. CASE RecvSent
  <2>1. /\ sendQ' \in Seq(Writers)
        /\ outSync' \in Seq(OutFrames)
    BY <1>7, DrainedType DEF RecvSent
  <2> QED BY <1>7, <2>1 DEF RecvSent
<1>8. CASE RecvClearAck
  <2>1. toSync' \in Seq(InFrames)
    BY <1>8, ReceiveType DEF RecvClearAck
  <2>2. fate' \in [Ids -> Fates]
    BY <1>8 DEF RecvClearAck, DrainQueue, Fates
  <2>3. queue' \in Seq(Ids) /\ Len(queue') <= QueueDepth
    BY <1>8, SessionAssumption DEF RecvClearAck, DrainQueue
  <2> QED
    BY <1>8, <2>1, <2>2, <2>3 DEF RecvClearAck, ClearBuffer, EndPending
<1>9. CASE RecvClsDone
  <2>1. Frame("reply", NoId) \in OutFrames
    BY FrameType DEF SyncOut
  <2>2. /\ sendQ' \in Seq(Writers)
        /\ outSync' \in Seq(OutFrames)
    BY <1>9, <2>1, SendType DEF RecvClsDone
  <2> QED BY <1>9, <2>2 DEF RecvClsDone
<1>10. CASE RecvClsSent
  <2>1. /\ sendQ' \in Seq(Writers)
        /\ outSync' \in Seq(OutFrames)
    BY <1>10, DrainedType DEF RecvClsSent
  <2> QED BY <1>10, <2>1 DEF RecvClsSent
<1>11. CASE RecvStop
  BY <1>11 DEF RecvStop, PutSentinel
<1>12. CASE RunClose
  <2>1. recvPc' \in RecvPcs /\ connected' \in BOOLEAN
    BY <1>12 DEF RunClose
  <2>2. UNCHANGED <<overlapMode, loopVars, doneVars, clearVars, statusVars,
                    sendVars, cmdBuf, dispVars, asyncVars, toSync, histVars>>
    BY <1>12 DEF RunClose
  <2> QED BY <2>1, <2>2
<1> QED
  BY <1>1, <1>2, <1>3, <1>4, <1>5, <1>6, <1>7, <1>8, <1>9, <1>10, <1>11, <1>12
  DEF ReceiveNext

\* Every step of the dispatch loop does.
LEMMA DispatchStepType == SessionTypeOK /\ DispatchNext => SessionTypeOK'
<1> SUFFICES ASSUME SessionTypeOK, DispatchNext PROVE SessionTypeOK'
  OBVIOUS
<1> USE DEF SessionTypeOK, dispFrame, DispPcs, Tasks
<1>q. ASSUME queue # << >>
      PROVE  /\ Head(queue) \in Ids
             /\ Tail(queue) \in Seq(Ids) /\ Len(Tail(queue)) <= QueueDepth
  BY <1>q, HeadTailProperties, LenProperties, SessionAssumption
<1>1. CASE DispRun
  <2>1. fate' \in [Ids -> Fates]
    BY <1>1, <1>q DEF DispRun, Fates
  <2> QED BY <1>1, <1>q, <2>1 DEF DispRun, Take
<1>2. CASE DispSkip
  <2>1. fate' \in [Ids -> Fates]
    BY <1>2, <1>q DEF DispSkip, Fates
  <2> QED BY <1>2, <1>q, <2>1 DEF DispSkip, Take, Signal
<1>3. CASE DispStop
  BY <1>3 DEF DispStop
<1>4. ASSUME NEW outcome \in Outcomes, DispFinish(outcome)
      PROVE  SessionTypeOK'
  <2>1. CASE outcome = "reply"
    <3>1. Frame("reply", cur) \in OutFrames
      BY FrameType DEF SyncOut
    <3>2. sendQ' \in Seq(Writers) /\ outSync' \in Seq(OutFrames)
      BY <1>4, <2>1, <3>1, SendType DEF DispFinish
    <3> QED BY <1>4, <2>1, <3>2 DEF DispFinish
  <2>2. CASE outcome = "silent"
    <3>1. fate' \in [Ids -> Fates]
      BY <1>4, <2>2 DEF DispFinish, Fates
    <3>2. syncSet' \in BOOLEAN /\ syncDone' = syncDone /\ dispPc' = "get"
      BY <1>4, <2>2 DEF DispFinish, Signal
    <3>3. sendQ' = sendQ /\ outSync' = outSync
      BY <1>4, <2>2 DEF DispFinish
    <3> QED BY <1>4, <3>1, <3>2, <3>3 DEF DispFinish
  <2>3. CASE outcome = "crash"
    <3>1. fate' \in [Ids -> Fates]
      BY <1>4, <2>3 DEF DispFinish, Fates
    <3>2. /\ UNCHANGED <<doneVars, sendVars>>
          /\ dispPc' = "crashed"
      BY <1>4, <2>3 DEF DispFinish
    <3> QED BY <1>4, <3>1, <3>2 DEF DispFinish
  <2> QED BY <2>1, <2>2, <2>3, OutcomesAssumption
<1>5. CASE DispReplied
  <2>1. sendQ' \in Seq(Writers) /\ outSync' \in Seq(OutFrames)
    BY <1>5, DrainedType DEF DispReplied
  <2>2. outAsync' \in Seq(AFrames)
    <3>1. AFrame("srq", TRUE) \in AFrames
      BY DEF AFrame, AFrames, AsyncOut
    <3> QED BY <1>5, <3>1, AppendProperties DEF DispReplied, EmitSrq
  <2>3. fate' \in [Ids -> Fates]
    BY <1>5 DEF DispReplied, Fates
  <2> QED BY <1>5, <2>1, <2>2, <2>3 DEF DispReplied, Signal
<1> QED
  BY <1>1, <1>2, <1>3, <1>4, <1>5 DEF DispatchNext

-----------------------------------------------------------------------------
\* The channel takes a message off its socket.
LEMMA AsyncReceiveType ==
    ASSUME NEW k, SessionTypeOK, AsyncReceive(k)
    PROVE  toAsync' \in Seq(AsyncIn)
  BY HeadTailProperties DEF SessionTypeOK, AsyncReceive

\* A message the channel sends joins the ones on their way.
LEMMA ASendType ==
    ASSUME NEW k \in AsyncOut, NEW b \in BOOLEAN, SessionTypeOK,
           ASend(AFrame(k, b))
    PROVE  outAsync' \in Seq(AFrames)
<1>1. AFrame(k, b) \in AFrames
  BY DEF AFrame, AFrames
<1> QED
  BY <1>1, AppendProperties DEF SessionTypeOK, ASend

\* Every step of the async channel does, and so does opening it.
LEMMA AsyncStepType ==
    SessionTypeOK /\ (AsyncNext \/ AsyncStart) => SessionTypeOK'
<1> SUFFICES ASSUME SessionTypeOK, AsyncNext \/ AsyncStart
             PROVE  SessionTypeOK'
  OBVIOUS
<1> USE DEF SessionTypeOK, asyncFrame, AsyncPcs, Tasks
<1>1. CASE AsyncStart
  BY <1>1 DEF AsyncStart
<1>2. CASE AsyncStop
  BY <1>2 DEF AsyncStop
<1>3. ASSUME NEW kind \in AsyncIn, AsyncStatusQuery(kind)
      PROVE  SessionTypeOK'
  <2>1. toAsync' \in Seq(AsyncIn)
    BY <1>3, AsyncReceiveType DEF AsyncStatusQuery
  <2>2. outAsync' \in Seq(AFrames)
    BY <1>3, ASendType DEF AsyncStatusQuery, StatusByte, AsyncOut
  <2> QED BY <1>3, <2>1, <2>2 DEF AsyncStatusQuery, AsyncReceive
<1>4. ASSUME NEW kind \in AsyncIn, AsyncRemoteLocal(kind)
      PROVE  SessionTypeOK'
  <2>1. toAsync' \in Seq(AsyncIn)
    BY <1>4, AsyncReceiveType DEF AsyncRemoteLocal
  <2>2. outAsync' \in Seq(AFrames)
    BY <1>4, ASendType DEF AsyncRemoteLocal, AsyncOut
  <2> QED BY <1>4, <2>1, <2>2 DEF AsyncRemoteLocal, AsyncReceive
<1>5. CASE AsyncOther
  <2>1. toAsync' \in Seq(AsyncIn)
    BY <1>5, AsyncReceiveType DEF AsyncOther
  <2>2. outAsync' \in Seq(AFrames)
    BY <1>5, ASendType DEF AsyncOther, AsyncOut
  <2> QED BY <1>5, <2>1, <2>2 DEF AsyncOther, AsyncReceive
<1>6. CASE AsyncClear
  <2>1. toAsync' \in Seq(AsyncIn) /\ asyncPc = "read"
    BY <1>6, AsyncReceiveType DEF AsyncClear, AsyncReceive
  <2>2. /\ sendQ' \in Seq(Writers) /\ outSync' \in Seq(OutFrames)
        /\ outAsync' \in Seq(AFrames) /\ asyncPc' \in AsyncPcs
    <3>1. CASE SyncOpen
      <4>1. Frame("complete", NoId) \in OutFrames
        BY FrameType DEF SyncOut
      <4> QED BY <1>6, <3>1, <4>1, SendType DEF AsyncClear
    <3>2. CASE ~SyncOpen
      BY <1>6, <3>2, ASendType DEF AsyncClear, AsyncOut
    <3> QED BY <3>1, <3>2
  <2>3. /\ clearPending' \in BOOLEAN /\ clearDone' \in BOOLEAN
        /\ syncSet' \in BOOLEAN /\ syncDone' = syncDone
        /\ timedOut' = timedOut
    BY <1>6, Zenon DEF AsyncClear, StartDeviceClear
  <2>4. interrupts' = interrupts \/ interrupts' = interrupts + 1
    BY <1>6 DEF AsyncClear, StartDeviceClear
  <2>5. interrupts' \in Nat
    BY <2>4
  <2> QED BY <1>6, <2>1, <2>2, <2>3, <2>5 DEF AsyncClear
<1>7. CASE AsyncCompleteSent
  <2>1. sendQ' \in Seq(Writers) /\ outSync' \in Seq(OutFrames)
    BY <1>7, DrainedType DEF AsyncCompleteSent
  <2> QED BY <1>7, <2>1 DEF AsyncCompleteSent
<1>8. CASE AsyncAcked
  <2>1. outAsync' \in Seq(AFrames)
    BY <1>8, ASendType DEF AsyncAcked, AsyncOut
  <2> QED BY <1>8, <2>1 DEF AsyncAcked
<1>9. CASE AsyncTimeout
  <2>1. outAsync' \in Seq(AFrames)
    BY <1>9, ASendType DEF AsyncTimeout, AsyncOut
  <2> QED BY <1>9, <2>1 DEF AsyncTimeout
<1> QED
  BY <1>1, <1>2, <1>3, <1>4, <1>5, <1>6, <1>7, <1>8, <1>9 DEF AsyncNext

-----------------------------------------------------------------------------
\* What the client puts on the sync socket is a frame.
LEMMA PutType ==
    ASSUME NEW k \in SyncIn \ {"clearAck"}, TypeOK, MaySend, Put(k)
    PROVE  /\ toSync' \in Seq(InFrames)
           /\ nextId + 1 \in 1..(MaxMsgs + 1)
<1>1. nextId \in Ids /\ nextId + 1 \in 1..(MaxMsgs + 1)
  BY SessionAssumption DEF TypeOK, ClientTypeOK, MaySend, Ids
<1>2. Frame(k, nextId) \in InFrames
  BY <1>1 DEF Frame, InFrames
<1> QED
  BY <1>1, <1>2, AppendProperties DEF TypeOK, SessionTypeOK, Put


\* The client leaves alone what is not a socket.
StreamTypes ==
    /\ toSync \in Seq(InFrames) /\ outSync \in Seq(OutFrames)
    /\ toAsync \in Seq(AsyncIn) /\ outAsync \in Seq(AFrames)
    /\ connected \in BOOLEAN /\ aConnected \in BOOLEAN

\* What the client leaves alone keeps its type.
LEMMA ClientRestType ==
    SessionTypeOK /\ UNCHANGED clientRest /\ StreamTypes' => SessionTypeOK'
  BY DEF SessionTypeOK, StreamTypes, clientRest

\* Every step of the client keeps the types.
LEMMA ClientStepType == TypeOK /\ ClientNext => TypeOK'
<1> SUFFICES ASSUME TypeOK, ClientNext
             PROVE  UNCHANGED clientRest /\ StreamTypes' /\ ClientTypeOK'
  BY ClientRestType DEF TypeOK
<1>a. StreamTypes /\ ClientTypeOK
  BY DEF StreamTypes, TypeOK, SessionTypeOK
<1> USE DEF StreamTypes
<1>1. CASE ClientFragment
  <2>1. toSync' \in Seq(InFrames) /\ nextId <= MaxMsgs
    BY <1>1, PutType DEF ClientFragment, SyncIn, MaySend
  <2> QED BY <1>1, <1>a, <2>1 DEF ClientFragment, ClientTypeOK
<1>2. CASE ClientCommand
  <2>1. toSync' \in Seq(InFrames) /\ nextId' \in 1..(MaxMsgs + 1)
    BY <1>2, PutType DEF ClientCommand, SyncIn
  <2> QED BY <1>2, <1>a, <2>1 DEF ClientCommand, ClientTypeOK
<1>3. ASSUME NEW kind \in {"trigger", "other", "bad"}, ClientMessage(kind)
      PROVE  UNCHANGED clientRest /\ StreamTypes' /\ ClientTypeOK'
  <2>1. toSync' \in Seq(InFrames) /\ nextId' \in 1..(MaxMsgs + 1)
    BY <1>3, PutType DEF ClientMessage, SyncIn
  <2> QED BY <1>3, <1>a, <2>1 DEF ClientMessage, ClientTypeOK
<1>4. CASE ClientRead
  <2>1. outSync' \in Seq(OutFrames)
    BY <1>4, <1>a, HeadTailProperties DEF ClientRead
  <2>2. CASE Head(outSync).kind = "complete"
    <3>1. Frame("clearAck", NoId) \in InFrames
      BY DEF InFrames
    <3>2. toSync' = Append(toSync, Frame("clearAck", NoId))
      BY <1>4, <2>2 DEF ClientRead
    <3>3. toSync' \in Seq(InFrames)
      BY <1>a, <3>1, <3>2, AppendProperties
    <3> QED BY <1>4, <1>a, <2>1, <2>2, <3>3 DEF ClientRead, ClientTypeOK
  <2>3. CASE Head(outSync).kind # "complete"
    BY <1>4, <1>a, <2>1, <2>3 DEF ClientRead, ClientTypeOK
  <2> QED BY <2>2, <2>3
<1>5. CASE ClientClear
  <2>1. toAsync' \in Seq(AsyncIn)
    BY <1>5, <1>a, AppendProperties DEF ClientClear, AsyncIn
  <2>2. nextId' \in 1..(MaxMsgs + 1)
    <3>1. CASE partial
      BY <1>5, <1>a, <3>1, SessionAssumption DEF ClientClear, ClientTypeOK
    <3>2. CASE ~partial
      BY <1>5, <1>a, <3>2, SessionAssumption DEF ClientClear, ClientTypeOK
    <3> QED BY <3>1, <3>2
  <2>3. clearFrom' \in 0..MaxMsgs /\ clears' \in Nat
    BY <1>5, <1>a, <2>2, SessionAssumption DEF ClientClear, ClientTypeOK
  <2>4. /\ clearing' = TRUE /\ completeDue' = connected /\ partial' = FALSE
        /\ UNCHANGED <<clientRest, toSync, outSync, connected, outAsync,
                       aConnected, polls>>
    BY <1>5 DEF ClientClear
  <2> QED BY <1>a, <2>1, <2>2, <2>3, <2>4 DEF ClientTypeOK
<1>6. ASSUME NEW kind \in AsyncKinds, ClientPoll(kind)
      PROVE  UNCHANGED clientRest /\ StreamTypes' /\ ClientTypeOK'
  <2>1. toAsync' \in Seq(AsyncIn)
    BY <1>6, <1>a, AppendProperties, ClientAssumption DEF ClientPoll
  <2> QED BY <1>6, <1>a, <2>1 DEF ClientPoll, ClientTypeOK
<1>7. CASE ClientReadAsync
  <2>1. outAsync' \in Seq(AFrames)
    BY <1>7, <1>a, HeadTailProperties DEF ClientReadAsync
  <2> QED BY <1>7, <1>a, <2>1 DEF ClientReadAsync, ClientTypeOK
<1>8. CASE ClientLeave
  BY <1>8, <1>a DEF ClientLeave, ClientTypeOK
<1>9. CASE ClientLeaveAsync
  BY <1>9, <1>a DEF ClientLeaveAsync, ClientTypeOK
<1> QED
  BY <1>1, <1>2, <1>3, <1>4, <1>5, <1>6, <1>7, <1>8, <1>9 DEF ClientNext

\* The types are preserved by every step of the composition.
LEMMA TypeStep == TypeOK /\ [Next]_vars => TypeOK'
<1> SUFFICES ASSUME TypeOK, [Next]_vars PROVE TypeOK'
  OBVIOUS
<1>1. ASSUME UNCHANGED clientVars PROVE ClientTypeOK'
  BY <1>1 DEF TypeOK, ClientTypeOK
<1>2. CASE ServerNext
  BY <1>1, <1>2, ReceiveStepType, DispatchStepType, AsyncStepType
  DEF ServerNext, TypeOK
<1>3. CASE Connect
  BY <1>1, <1>3, AsyncStepType DEF Connect, TypeOK
<1>4. CASE ClientNext
  BY <1>4, ClientStepType
<1>5. CASE UNCHANGED vars
  <2>1. UNCHANGED sessionVars /\ UNCHANGED clientVars
    BY <1>5 DEF vars
  <2> QED BY <1>1, <2>1 DEF TypeOK, SessionTypeOK
<1> QED
  BY <1>2, <1>3, <1>4, <1>5 DEF Next, Over

\* The type invariant, for every client, every number of messages, every
\* queue depth and every outcome of the handlers.
THEOREM TypeCorrect == Spec => []TypeOK
<1>1. Init => TypeOK
  <2> SUFFICES ASSUME SessionInit, ClientInit
               PROVE  SessionTypeOK /\ ClientTypeOK
    BY DEF Init, TypeOK
  <2>1. queue \in Seq(Ids) /\ Len(queue) <= QueueDepth
    BY SessionAssumption DEF SessionInit
  <2>2. /\ sendQ \in Seq(Writers)
        /\ toSync \in Seq(InFrames) /\ outSync \in Seq(OutFrames)
        /\ toAsync \in Seq(AsyncIn) /\ outAsync \in Seq(AFrames)
    BY DEF SessionInit
  <2>3. body \in [Ids -> SUBSET Ids] /\ fate \in [Ids -> Fates]
    BY DEF SessionInit, Fates
  <2>4. recvPc \in RecvPcs /\ dispPc \in DispPcs /\ asyncPc \in AsyncPcs
    BY DEF SessionInit, RecvPcs, DispPcs, AsyncPcs
  <2>5. SessionTypeOK
    BY <2>1, <2>2, <2>3, <2>4 DEF SessionInit, SessionTypeOK
  <2>6. nextId \in 1..(MaxMsgs + 1) /\ clearFrom \in 0..MaxMsgs
    BY SessionAssumption DEF ClientInit, NoId
  <2>7. clears \in Nat /\ polls \in Nat
    BY DEF ClientInit
  <2>8. ClientTypeOK
    BY <2>6, <2>7, Zenon DEF ClientInit, ClientTypeOK
  <2> QED BY <2>5, <2>8
<1> QED
  BY <1>1, TypeStep, PTL DEF Spec

-----------------------------------------------------------------------------
(* The elements of a sequence that lost its head or gained an element.     *)

\* The elements a tail has.
LEMMA TailElements ==
    ASSUME NEW S, NEW s \in Seq(S), s # << >>
    PROVE  /\ Tail(s) \in Seq(S) /\ Len(s) \in Nat \ {0}
           /\ DOMAIN s = 1..Len(s) /\ 1 \in DOMAIN s
           /\ Head(s) = s[1] /\ s[1] \in S
           /\ DOMAIN Tail(s) = 1..(Len(s) - 1)
           /\ Len(Tail(s)) = Len(s) - 1
           /\ \A k \in DOMAIN Tail(s) :
                 k \in Nat \ {0} /\ k + 1 \in DOMAIN s /\ Tail(s)[k] = s[k + 1]
<1>1. /\ Tail(s) \in Seq(S) /\ Len(s) \in Nat /\ Len(Tail(s)) = Len(s) - 1
      /\ \A i \in 1..Len(Tail(s)) : Tail(s)[i] = s[i + 1]
  BY HeadTailProperties, LenProperties
<1>2. Len(s) # 0 /\ DOMAIN s = 1..Len(s)
  BY LenProperties, EmptySeq
<1>3. DOMAIN Tail(s) = 1..(Len(s) - 1)
  BY <1>1, LenProperties
<1>4. 1 \in DOMAIN s /\ Head(s) = s[1] /\ s[1] \in S
  <2>1. 1 \in 1..Len(s)
    BY <1>1, <1>2
  <2> QED BY <1>2, <2>1, ElementOfSeq
<1>5. \A k \in DOMAIN Tail(s) :
         k \in Nat \ {0} /\ k + 1 \in DOMAIN s /\ Tail(s)[k] = s[k + 1]
  BY <1>1, <1>2, <1>3
<1> QED BY <1>1, <1>2, <1>3, <1>4, <1>5

\* The elements an extended sequence has.
LEMMA AppendElements ==
    ASSUME NEW S, NEW s \in Seq(S), NEW e \in S
    PROVE  /\ Append(s, e) \in Seq(S) /\ Len(s) \in Nat
           /\ DOMAIN s = 1..Len(s)
           /\ DOMAIN Append(s, e) = 1..(Len(s) + 1)
           /\ Append(s, e)[Len(s) + 1] = e
           /\ \A k \in DOMAIN s : Append(s, e)[k] = s[k]
           /\ \A k \in DOMAIN Append(s, e) :
                 k \in DOMAIN s \/ (k = Len(s) + 1 /\ \A j \in DOMAIN s : j < k)
<1>1. /\ Append(s, e) \in Seq(S) /\ Len(Append(s, e)) = Len(s) + 1
      /\ \A k \in 1..Len(s) : Append(s, e)[k] = s[k]
      /\ Append(s, e)[Len(s) + 1] = e
  BY AppendProperties
<1>2. Len(s) \in Nat /\ DOMAIN s = 1..Len(s)
  BY LenProperties
<1>3. DOMAIN Append(s, e) = 1..(Len(s) + 1)
  BY <1>1, LenProperties
<1> QED BY <1>1, <1>2, <1>3

-----------------------------------------------------------------------------
(* The inductive invariant.                                                *)

\* DEVICE_CLEAR_ACK is the only frame that carries no command's id.
Numbered(f) == f.kind # "clearAck"

\* The frames the client has sent carry ids it has used, in order; only the
\* fragments of a command share its id.
SocketOrder ==
    /\ \A k \in DOMAIN toSync : Numbered(toSync[k]) =>
          \/ toSync[k].id < nextId
          \/ toSync[k].id = nextId /\ partial /\ toSync[k].kind = "data"
    /\ \A j, k \in DOMAIN toSync :
          j < k /\ Numbered(toSync[j]) /\ Numbered(toSync[k]) =>
              /\ toSync[j].id <= toSync[k].id
              /\ toSync[j].kind # "data" => toSync[j].id < toSync[k].id

\* The queue is sorted, behind the command last taken, ahead of the socket.
QueueOrder ==
    /\ cur < nextId
    /\ \A k \in DOMAIN queue : cur < queue[k] /\ queue[k] < nextId
    /\ \A j, k \in DOMAIN queue : j < k => queue[j] < queue[k]
    /\ \A k \in DOMAIN toSync : Numbered(toSync[k]) =>
          cur < toSync[k].id /\ \A j \in DOMAIN queue : queue[j] < toSync[k].id

\* The history agrees with the state: what runs is the command last taken,
\* what is queued is in the queue, and the rest is new until it is read.
FateAgrees ==
    /\ \A i \in Ids :
          fate[i] = "running" <=> dispPc \in {"run", "send"} /\ i = cur
    /\ \A i \in Ids : fate[i] = "queued" <=> \E k \in DOMAIN queue : queue[k] = i
    /\ \A k \in DOMAIN toSync :
          toSync[k].kind = "dataEnd" => fate[toSync[k].id] = "new"
    /\ \A i \in Ids : i >= nextId => fate[i] = "new"
    /\ dispPc \in {"run", "send"} => cur \in Ids

OrderInv == SocketOrder /\ QueueOrder /\ FateAgrees

orderVars == <<toSync, queue, cur, fate, dispPc, nextId, partial>>

-----------------------------------------------------------------------------
\* What the types say of the numbers that OrderInv compares.
LEMMA NumbersTyped ==
    ASSUME TypeOK
    PROVE  /\ nextId \in Nat /\ cur \in Nat /\ Ids \subseteq Nat
           /\ NoId \notin Ids
           /\ \A k \in DOMAIN queue : queue[k] \in Ids
           /\ DOMAIN queue \subseteq Nat /\ DOMAIN toSync \subseteq Nat
           /\ \A k \in DOMAIN toSync :
                 /\ toSync[k].id \in Nat /\ toSync[k].kind \in SyncIn
                 /\ Numbered(toSync[k]) => toSync[k].id \in Ids
<1>1. nextId \in Nat /\ cur \in Nat /\ Ids \subseteq Nat /\ NoId \notin Ids
  BY SessionAssumption DEF TypeOK, SessionTypeOK, ClientTypeOK, Ids, NoId
<1>2. \A k \in DOMAIN queue : queue[k] \in Ids
  BY ElementOfSeq, LenProperties DEF TypeOK, SessionTypeOK
<1>3. DOMAIN queue \subseteq Nat /\ DOMAIN toSync \subseteq Nat
  BY LenProperties DEF TypeOK, SessionTypeOK
<1>4. ASSUME NEW k \in DOMAIN toSync
      PROVE  /\ toSync[k].id \in Nat /\ toSync[k].kind \in SyncIn
             /\ Numbered(toSync[k]) => toSync[k].id \in Ids
  <2>1. toSync[k] \in InFrames
    BY <1>4, ElementOfSeq, LenProperties DEF TypeOK, SessionTypeOK
  <2>2. CASE toSync[k] \in [kind : SyncIn \ {"clearAck"}, id : Ids]
    BY <1>1, <2>2
  <2>3. CASE toSync[k] = Frame("clearAck", NoId)
    BY <2>3 DEF Frame, NoId, SyncIn, Numbered
  <2> QED BY <2>1, <2>2, <2>3 DEF InFrames
<1> QED BY <1>1, <1>2, <1>3, <1>4

\* A step that touches none of it keeps the order.
LEMMA OrderSame == OrderInv /\ UNCHANGED orderVars => OrderInv'
  BY DEF OrderInv, SocketOrder, QueueOrder, FateAgrees, orderVars

\* Reading the head of the socket keeps what is said of the socket.
LEMMA SocketTail ==
    ASSUME TypeOK, SocketOrder, toSync # << >>, toSync' = Tail(toSync),
           UNCHANGED <<nextId, partial>>
    PROVE  SocketOrder'
<1> DEFINE t == Tail(toSync)
<1>1. \A k \in DOMAIN t :
         k \in Nat \ {0} /\ k + 1 \in DOMAIN toSync /\ t[k] = toSync[k + 1]
  BY TailElements DEF TypeOK, SessionTypeOK
<1> HIDE DEF t
<1>2. \A k \in DOMAIN t : Numbered(t[k]) =>
          \/ t[k].id < nextId
          \/ t[k].id = nextId /\ partial /\ t[k].kind = "data"
  BY <1>1 DEF SocketOrder
<1>3. ASSUME NEW j \in DOMAIN t, NEW k \in DOMAIN t,
             j < k, Numbered(t[j]), Numbered(t[k])
      PROVE  t[j].id <= t[k].id /\ (t[j].kind # "data" => t[j].id < t[k].id)
  <2>1. j + 1 < k + 1
    BY <1>1, <1>3
  <2> QED BY <1>1, <1>3, <2>1 DEF SocketOrder
<1>4. t = toSync' /\ nextId' = nextId /\ partial' = partial
  BY DEF t
<1> QED BY <1>2, <1>3, <1>4 DEF SocketOrder, Numbered

\* Reading a message that is no end of a command keeps the order.
LEMMA OrderTail ==
    ASSUME TypeOK, OrderInv, toSync # << >>, toSync' = Tail(toSync),
           UNCHANGED <<queue, cur, fate, dispPc, nextId, partial>>
    PROVE  OrderInv'
<1>1. SocketOrder'
  BY SocketTail DEF OrderInv
<1>2. \A k \in DOMAIN toSync' :
         k + 1 \in DOMAIN toSync /\ toSync'[k] = toSync[k + 1]
  BY TailElements DEF TypeOK, SessionTypeOK
<1>3. QueueOrder' /\ FateAgrees'
  BY <1>2 DEF OrderInv, QueueOrder, FateAgrees, Numbered
<1> QED BY <1>1, <1>3 DEF OrderInv

-----------------------------------------------------------------------------
(* The receive loop.                                                       *)

\* The command at the head of the socket comes after all that was taken and
\* before all that was not.
LEMMA HeadOrder ==
    ASSUME TypeOK, OrderInv, NEW kind \in SyncIn \ {"clearAck", "data"},
           Receive(kind)
    PROVE  /\ toSync # << >> /\ toSync' = Tail(toSync)
           /\ 1 \in DOMAIN toSync /\ Head(toSync) = toSync[1]
           /\ Head(toSync).kind = kind
           /\ Head(toSync).id \in Ids
           /\ Head(toSync).id < nextId
           /\ cur < Head(toSync).id
           /\ \A j \in DOMAIN queue : queue[j] < Head(toSync).id
           /\ \A k \in DOMAIN toSync' :
                 /\ k \in Nat \ {0}
                 /\ k + 1 \in DOMAIN toSync /\ toSync'[k] = toSync[k + 1]
                 /\ Numbered(toSync'[k]) => Head(toSync).id < toSync'[k].id
<1>1. toSync # << >> /\ toSync' = Tail(toSync) /\ Head(toSync).kind = kind
  BY DEF Receive
<1>2. /\ 1 \in DOMAIN toSync /\ Head(toSync) = toSync[1]
      /\ \A k \in DOMAIN toSync' :
            k \in Nat \ {0} /\ k + 1 \in DOMAIN toSync /\ toSync'[k] = toSync[k + 1]
  BY <1>1, TailElements DEF TypeOK, SessionTypeOK
<1>3. Numbered(toSync[1]) /\ toSync[1].kind # "data"
  BY <1>1, <1>2 DEF Numbered
<1>4. /\ Head(toSync).id \in Ids /\ Head(toSync).id < nextId
      /\ cur < Head(toSync).id
      /\ \A j \in DOMAIN queue : queue[j] < Head(toSync).id
  BY <1>2, <1>3, NumbersTyped DEF OrderInv, SocketOrder, QueueOrder
<1>5. ASSUME NEW k \in DOMAIN toSync', Numbered(toSync'[k])
      PROVE  Head(toSync).id < toSync'[k].id
  <2>1. 1 < k + 1 /\ k + 1 \in DOMAIN toSync /\ Numbered(toSync[k + 1])
    BY <1>2, <1>5
  <2> QED BY <1>2, <1>3, <2>1 DEF OrderInv, SocketOrder
<1> QED BY <1>1, <1>2, <1>4, <1>5

\* A command joins the queue, or finds it full.
LEMMA RecvCommandOrder ==
    ASSUME TypeOK, OrderInv, RecvCommand, UNCHANGED clientVars
    PROVE  OrderInv'
<1> DEFINE i == Head(toSync).id
<1>h. /\ toSync # << >> /\ toSync' = Tail(toSync) /\ i \in Ids /\ i < nextId
      /\ 1 \in DOMAIN toSync /\ Head(toSync) = toSync[1]
      /\ Head(toSync).kind = "dataEnd"
      /\ cur < i /\ \A j \in DOMAIN queue : queue[j] < i
      /\ \A k \in DOMAIN toSync' :
            /\ k + 1 \in DOMAIN toSync /\ toSync'[k] = toSync[k + 1]
            /\ Numbered(toSync'[k]) => i < toSync'[k].id
  BY HeadOrder DEF RecvCommand, SyncIn
<1>s. /\ queue' = Append(queue, i) /\ fate' = [fate EXCEPT ![i] = "queued"]
      /\ UNCHANGED <<cur, dispPc, nextId, partial>>
  BY DEF RecvCommand, recvFrame
<1>q. /\ DOMAIN queue = 1..Len(queue) /\ Len(queue) \in Nat
      /\ DOMAIN queue' = 1..(Len(queue) + 1)
      /\ queue'[Len(queue) + 1] = i
      /\ \A k \in DOMAIN queue : queue'[k] = queue[k]
      /\ \A k \in DOMAIN queue' : k \in DOMAIN queue \/
            (k = Len(queue) + 1 /\ \A j \in DOMAIN queue : j < k)
  BY <1>h, <1>s, AppendElements DEF TypeOK, SessionTypeOK
<1>t. /\ nextId \in Nat /\ cur \in Nat /\ Ids \subseteq Nat
      /\ fate \in [Ids -> Fates]
      /\ \A k \in DOMAIN queue : queue[k] \in Ids
      /\ \A k \in DOMAIN toSync : toSync[k].id \in Nat
  BY NumbersTyped DEF TypeOK, SessionTypeOK
<1> HIDE DEF i
<1>1. SocketOrder'
  BY <1>h, <1>s, SocketTail DEF OrderInv
<1>2. QueueOrder'
  <2>1. \A k \in DOMAIN queue' : cur' < queue'[k] /\ queue'[k] < nextId'
    BY <1>h, <1>s, <1>q DEF OrderInv, QueueOrder
  <2>2. ASSUME NEW j \in DOMAIN queue', NEW k \in DOMAIN queue', j < k
        PROVE  queue'[j] < queue'[k]
    <3>1. j \in DOMAIN queue
      BY <1>q, <2>2
    <3> QED BY <1>h, <1>q, <2>2, <3>1 DEF OrderInv, QueueOrder
  <2>3. ASSUME NEW k \in DOMAIN toSync', Numbered(toSync'[k])
        PROVE  /\ cur' < toSync'[k].id
               /\ \A j \in DOMAIN queue' : queue'[j] < toSync'[k].id
    BY <1>h, <1>s, <1>q, <2>3 DEF OrderInv, QueueOrder
  <2>4. cur' < nextId'
    BY <1>s DEF OrderInv, QueueOrder
  <2> QED BY <2>1, <2>2, <2>3, <2>4 DEF QueueOrder, Numbered
<1>3. FateAgrees'
  <2>1. fate[i] = "new"
    BY <1>h DEF OrderInv, FateAgrees, i
  <2>2. \A m \in Ids :
           fate'[m] = "running" <=> dispPc' \in {"run", "send"} /\ m = cur'
    BY <1>h, <1>s, <1>t DEF OrderInv, FateAgrees
  <2>3. ASSUME NEW m \in Ids
        PROVE  fate'[m] = "queued" <=> \E k \in DOMAIN queue' : queue'[k] = m
    <3>1. CASE m = i
      <4>1. Len(queue) + 1 \in DOMAIN queue'
        BY <1>q
      <4> QED BY <1>q, <1>s, <1>t, <3>1, <4>1
    <3>2. CASE m # i
      <4>1. fate'[m] = fate[m]
        BY <1>s, <1>t, <3>2
      <4>2. (\E k \in DOMAIN queue' : queue'[k] = m)
            <=> \E k \in DOMAIN queue : queue[k] = m
        BY <1>q, <3>2
      <4> QED BY <4>1, <4>2 DEF OrderInv, FateAgrees
    <3> QED BY <3>1, <3>2
  <2>4. ASSUME NEW k \in DOMAIN toSync', toSync'[k].kind = "dataEnd"
        PROVE  fate'[toSync'[k].id] = "new"
    <3>1. i < toSync'[k].id /\ k + 1 \in DOMAIN toSync
          /\ toSync'[k] = toSync[k + 1] /\ toSync[k + 1].id \in Nat
      BY <1>h, <1>t, <2>4 DEF Numbered
    <3>2. i # toSync[k + 1].id
      BY <1>h, <1>t, <3>1
    <3> QED BY <1>s, <1>t, <2>4, <3>1, <3>2 DEF OrderInv, FateAgrees
  <2>5. \A m \in Ids : m >= nextId' => fate'[m] = "new"
    BY <1>h, <1>s, <1>t DEF OrderInv, FateAgrees
  <2>6. dispPc' \in {"run", "send"} => cur' \in Ids
    BY <1>s DEF OrderInv, FateAgrees
  <2> QED BY <2>2, <2>3, <2>4, <2>5, <2>6 DEF FateAgrees
<1> QED BY <1>1, <1>2, <1>3 DEF OrderInv

\* A command the full queue turns away is recorded as lost.
LEMMA RecvOverflowOrder ==
    ASSUME TypeOK, OrderInv, RecvOverflow, UNCHANGED clientVars
    PROVE  OrderInv'
<1> DEFINE i == Head(toSync).id
<1>h. /\ toSync # << >> /\ toSync' = Tail(toSync) /\ i \in Ids /\ i < nextId
      /\ 1 \in DOMAIN toSync /\ Head(toSync) = toSync[1]
      /\ Head(toSync).kind = "dataEnd"
      /\ \A k \in DOMAIN toSync' :
            /\ k + 1 \in DOMAIN toSync /\ toSync'[k] = toSync[k + 1]
            /\ Numbered(toSync'[k]) => i < toSync'[k].id
  BY HeadOrder DEF RecvOverflow, SyncIn
<1>s. /\ fate' = [fate EXCEPT ![i] = "rejected"]
      /\ UNCHANGED <<queue, cur, dispPc, nextId, partial>>
  BY DEF RecvOverflow, recvFrame
<1>t. /\ nextId \in Nat /\ Ids \subseteq Nat /\ fate \in [Ids -> Fates]
      /\ \A k \in DOMAIN toSync : toSync[k].id \in Nat
  BY NumbersTyped DEF TypeOK, SessionTypeOK
<1>n. fate[i] = "new"
  BY <1>h DEF OrderInv, FateAgrees
<1> HIDE DEF i
<1>1. SocketOrder'
  BY <1>h, <1>s, SocketTail DEF OrderInv
<1>2. QueueOrder'
  BY <1>h, <1>s DEF OrderInv, QueueOrder, Numbered
<1>3. FateAgrees'
  <2>1. \A m \in Ids :
           /\ fate'[m] = "running" <=> fate[m] = "running"
           /\ fate'[m] = "queued" <=> fate[m] = "queued"
    BY <1>s, <1>t, <1>n
  <2>2. ASSUME NEW k \in DOMAIN toSync', toSync'[k].kind = "dataEnd"
        PROVE  fate'[toSync'[k].id] = "new"
    <3>1. i < toSync'[k].id /\ k + 1 \in DOMAIN toSync
          /\ toSync'[k] = toSync[k + 1] /\ toSync[k + 1].id \in Nat
      BY <1>h, <1>t, <2>2 DEF Numbered
    <3>2. i # toSync[k + 1].id
      BY <1>h, <1>t, <3>1
    <3> QED BY <1>s, <1>t, <2>2, <3>1, <3>2 DEF OrderInv, FateAgrees
  <2>3. \A m \in Ids : m >= nextId' => fate'[m] = "new"
    BY <1>h, <1>s, <1>t DEF OrderInv, FateAgrees
  <2> QED BY <1>s, <2>1, <2>2, <2>3 DEF OrderInv, FateAgrees
<1> QED BY <1>1, <1>2, <1>3 DEF OrderInv

\* DEVICE_CLEAR_ACK empties the queue.
LEMMA RecvClearAckOrder ==
    ASSUME TypeOK, OrderInv, RecvClearAck, UNCHANGED clientVars
    PROVE  OrderInv'
<1>s. /\ toSync # << >> /\ toSync' = Tail(toSync) /\ DrainQueue
      /\ UNCHANGED <<cur, dispPc, nextId, partial>>
  BY DEF RecvClearAck, Receive, recvFrame
<1>q. queue' = << >> /\ DOMAIN queue' = {}
  BY <1>s DEF DrainQueue
<1>h. \A k \in DOMAIN toSync' :
         k + 1 \in DOMAIN toSync /\ toSync'[k] = toSync[k + 1]
  BY <1>s, TailElements DEF TypeOK, SessionTypeOK
<1>f. \A m \in Ids : fate'[m] = IF fate[m] = "queued" THEN "flushed" ELSE fate[m]
  BY <1>s DEF DrainQueue, OrderInv, FateAgrees
<1>1. SocketOrder'
  BY <1>s, SocketTail DEF OrderInv
<1>2. QueueOrder'
  BY <1>s, <1>q, <1>h DEF OrderInv, QueueOrder, Numbered
<1>3. FateAgrees'
  <2>1. ASSUME NEW k \in DOMAIN toSync', toSync'[k].kind = "dataEnd"
        PROVE  fate'[toSync'[k].id] = "new"
    <3>1. toSync[k + 1].id \in Ids
      BY <1>h, <2>1, NumbersTyped DEF Numbered
    <3> QED BY <1>h, <1>f, <2>1, <3>1 DEF OrderInv, FateAgrees
  <2>2. \A m \in Ids : fate'[m] # "queued"
    BY <1>f
  <2>3. \A m \in Ids : fate'[m] = "running" <=> fate[m] = "running"
    BY <1>f
  <2>4. \A m \in Ids : fate[m] = "new" => fate'[m] = "new"
    BY <1>f
  <2> QED BY <1>s, <1>q, <2>1, <2>2, <2>3, <2>4 DEF OrderInv, FateAgrees
<1> QED BY <1>1, <1>2, <1>3 DEF OrderInv

\* Every step of the receive loop keeps the order.
LEMMA ReceiveOrder ==
    TypeOK /\ OrderInv /\ ReceiveNext /\ UNCHANGED clientVars => OrderInv'
<1> SUFFICES ASSUME TypeOK, OrderInv, ReceiveNext, UNCHANGED clientVars
             PROVE  OrderInv'
  OBVIOUS
<1> USE DEF recvFrame
<1>1. CASE RecvData \/ RecvTrigger \/ RecvOther
  <2>1. /\ toSync # << >> /\ toSync' = Tail(toSync)
        /\ UNCHANGED <<queue, cur, fate, dispPc, nextId, partial>>
    BY <1>1 DEF RecvData, RecvTrigger, RecvOther, Receive
  <2> QED BY <2>1, OrderTail
<1>2. CASE RecvWake \/ RecvSent \/ RecvClsDone \/ RecvClsSent \/ RecvStop
           \/ RunClose
  <2>1. UNCHANGED orderVars
    BY <1>2
    DEF RecvWake, RecvSent, RecvClsDone, RecvClsSent, RecvStop, RunClose,
        orderVars
  <2> QED BY <2>1, OrderSame
<1> QED
  BY <1>1, <1>2, RecvCommandOrder, RecvOverflowOrder, RecvClearAckOrder
  DEF ReceiveNext

-----------------------------------------------------------------------------
(* The dispatch loop.                                                      *)

\* Taking the head of the queue leaves what came behind it.
LEMMA TakeElements ==
    ASSUME TypeOK, OrderInv, queue # << >>, Take
    PROVE  /\ 1 \in DOMAIN queue /\ Head(queue) = queue[1]
           /\ Head(queue) \in Ids
           /\ \A k \in DOMAIN queue' :
                 /\ k \in Nat \ {0}
                 /\ k + 1 \in DOMAIN queue /\ queue'[k] = queue[k + 1]
                 /\ Head(queue) < queue'[k]
           /\ \A m \in Ids :
                 (\E k \in DOMAIN queue' : queue'[k] = m)
                 <=> m # Head(queue) /\ \E k \in DOMAIN queue : queue[k] = m
<1>1. /\ 1 \in DOMAIN queue /\ Head(queue) = queue[1] /\ Head(queue) \in Ids
      /\ DOMAIN queue = 1..Len(queue) /\ Len(queue) \in Nat
      /\ DOMAIN queue' = 1..(Len(queue) - 1)
      /\ \A k \in DOMAIN queue' :
            k \in Nat \ {0} /\ k + 1 \in DOMAIN queue /\ queue'[k] = queue[k + 1]
  BY TailElements DEF TypeOK, SessionTypeOK, Take
<1>2. ASSUME NEW k \in DOMAIN queue' PROVE Head(queue) < queue'[k]
  <2>1. 1 < k + 1 /\ k + 1 \in DOMAIN queue
    BY <1>1, <1>2
  <2> QED BY <1>1, <1>2, <2>1 DEF OrderInv, QueueOrder
<1>3. ASSUME NEW m \in Ids
      PROVE  (\E k \in DOMAIN queue' : queue'[k] = m)
             <=> m # Head(queue) /\ \E k \in DOMAIN queue : queue[k] = m
  <2>1. ASSUME NEW k \in DOMAIN queue', queue'[k] = m
        PROVE  m # Head(queue) /\ \E n \in DOMAIN queue : queue[n] = m
    <3>1. Head(queue) < m /\ Head(queue) \in Nat /\ m \in Nat
      BY <1>1, <1>2, <2>1, NumbersTyped
    <3> QED BY <1>1, <2>1, <3>1
  <2>2. ASSUME NEW k \in DOMAIN queue, queue[k] = m, m # Head(queue)
        PROVE  \E n \in DOMAIN queue' : queue'[n] = m
    <3>1. k # 1 /\ k - 1 \in DOMAIN queue' /\ (k - 1) + 1 = k
      BY <1>1, <2>2
    <3> QED BY <1>1, <2>2, <3>1
  <2> QED BY <2>1, <2>2
<1> QED BY <1>1, <1>2, <1>3

\* The command at the head of the queue is the next to run.
LEMMA DispRunOrder ==
    ASSUME TypeOK, OrderInv, DispRun, UNCHANGED clientVars
    PROVE  OrderInv'
<1> DEFINE i == Head(queue)
<1>s. /\ queue # << >> /\ Take /\ cur' = i /\ dispPc = "get"
      /\ dispPc' = "run" /\ fate' = [fate EXCEPT ![i] = "running"]
      /\ UNCHANGED <<toSync, nextId, partial>>
  BY DEF DispRun, dispFrame
<1>q. /\ 1 \in DOMAIN queue /\ i = queue[1] /\ i \in Ids
      /\ \A k \in DOMAIN queue' :
            /\ k \in Nat \ {0}
            /\ k + 1 \in DOMAIN queue /\ queue'[k] = queue[k + 1]
            /\ i < queue'[k]
      /\ \A m \in Ids : (\E k \in DOMAIN queue' : queue'[k] = m)
                        <=> m # i /\ \E k \in DOMAIN queue : queue[k] = m
  BY <1>s, TakeElements
<1>t. /\ fate \in [Ids -> Fates] /\ Ids \subseteq Nat /\ nextId \in Nat
      /\ \A k \in DOMAIN toSync : Numbered(toSync[k]) => toSync[k].id \in Ids
      /\ \A k \in DOMAIN toSync : toSync[k].kind = "dataEnd" => Numbered(toSync[k])
  BY NumbersTyped DEF TypeOK, SessionTypeOK, Numbered
<1>n. fate[i] = "queued"
  BY <1>q DEF OrderInv, FateAgrees
<1>f. \A m \in Ids : fate'[m] = IF m = i THEN "running" ELSE fate[m]
  BY <1>s, <1>q, <1>t
<1> HIDE DEF i
<1>1. SocketOrder'
  BY <1>s DEF OrderInv, SocketOrder
<1>2. QueueOrder'
  <2>1. \A j, k \in DOMAIN queue' : j < k => queue'[j] < queue'[k]
    <3> SUFFICES ASSUME NEW j \in DOMAIN queue', NEW k \in DOMAIN queue', j < k
                 PROVE  queue'[j] < queue'[k]
      OBVIOUS
    <3>1. j + 1 < k + 1
      BY <1>q
    <3> QED BY <1>q, <3>1 DEF OrderInv, QueueOrder
  <2> QED BY <1>s, <1>q, <2>1 DEF OrderInv, QueueOrder
<1>3. FateAgrees'
  <2>1. \A m \in Ids :
           fate'[m] = "running" <=> dispPc' \in {"run", "send"} /\ m = cur'
    BY <1>s, <1>f DEF OrderInv, FateAgrees
  <2>2. \A m \in Ids :
           fate'[m] = "queued" <=> \E k \in DOMAIN queue' : queue'[k] = m
    BY <1>q, <1>f DEF OrderInv, FateAgrees
  <2>3. \A m \in Ids : fate[m] = "new" => fate'[m] = "new"
    BY <1>f, <1>n
  <2> QED BY <1>s, <1>q, <1>t, <2>1, <2>2, <2>3 DEF OrderInv, FateAgrees
<1> QED BY <1>1, <1>2, <1>3 DEF OrderInv

\* The command at the head of the queue is given up.
LEMMA DispSkipOrder ==
    ASSUME TypeOK, OrderInv, DispSkip, UNCHANGED clientVars
    PROVE  OrderInv'
<1> DEFINE i == Head(queue)
<1>s. /\ queue # << >> /\ Take /\ fate' = [fate EXCEPT ![i] = "skipped"]
      /\ UNCHANGED <<cur, dispPc, toSync, nextId, partial>>
  BY DEF DispSkip, dispFrame
<1>q. /\ 1 \in DOMAIN queue /\ i = queue[1] /\ i \in Ids
      /\ \A k \in DOMAIN queue' :
            /\ k \in Nat \ {0}
            /\ k + 1 \in DOMAIN queue /\ queue'[k] = queue[k + 1]
      /\ \A m \in Ids : (\E k \in DOMAIN queue' : queue'[k] = m)
                        <=> m # i /\ \E k \in DOMAIN queue : queue[k] = m
  BY <1>s, TakeElements
<1>t. fate \in [Ids -> Fates]
      /\ \A k \in DOMAIN toSync : toSync[k].kind = "dataEnd" =>
            toSync[k].id \in Ids
  BY NumbersTyped DEF TypeOK, SessionTypeOK, Numbered
<1>n. fate[i] = "queued"
  BY <1>q DEF OrderInv, FateAgrees
<1>f. \A m \in Ids : fate'[m] = IF m = i THEN "skipped" ELSE fate[m]
  BY <1>s, <1>q, <1>t
<1> HIDE DEF i
<1>1. SocketOrder'
  BY <1>s DEF OrderInv, SocketOrder
<1>2. QueueOrder'
  <2>1. \A j, k \in DOMAIN queue' : j < k => queue'[j] < queue'[k]
    <3> SUFFICES ASSUME NEW j \in DOMAIN queue', NEW k \in DOMAIN queue', j < k
                 PROVE  queue'[j] < queue'[k]
      OBVIOUS
    <3>1. j + 1 < k + 1
      BY <1>q
    <3> QED BY <1>q, <3>1 DEF OrderInv, QueueOrder
  <2> QED BY <1>s, <1>q, <2>1 DEF OrderInv, QueueOrder
<1>3. FateAgrees'
  <2>1. \A m \in Ids : fate'[m] = "running" <=> fate[m] = "running"
    BY <1>f, <1>n
  <2>2. \A m \in Ids :
           fate'[m] = "queued" <=> \E k \in DOMAIN queue' : queue'[k] = m
    BY <1>q, <1>f DEF OrderInv, FateAgrees
  <2>3. \A m \in Ids : fate[m] = "new" => fate'[m] = "new"
    BY <1>f, <1>n
  <2> QED BY <1>s, <1>t, <2>1, <2>2, <2>3 DEF OrderInv, FateAgrees
<1> QED BY <1>1, <1>2, <1>3 DEF OrderInv

\* A command that ends leaves the order of the others alone.
LEMMA SettledOrder ==
    ASSUME TypeOK, OrderInv, dispPc \in {"run", "send"},
           dispPc' \notin {"run", "send"},
           NEW f \in Fates \ {"new", "queued", "running"},
           fate' = [fate EXCEPT ![cur] = f],
           UNCHANGED <<toSync, queue, cur, nextId, partial>>
    PROVE  OrderInv'
<1>t. fate \in [Ids -> Fates] /\ cur \in Ids /\ fate[cur] = "running"
      /\ \A k \in DOMAIN toSync : toSync[k].kind = "dataEnd" =>
            toSync[k].id \in Ids
  BY NumbersTyped DEF TypeOK, SessionTypeOK, Numbered, OrderInv, FateAgrees
<1>f. \A m \in Ids : fate'[m] = IF m = cur THEN f ELSE fate[m]
  BY <1>t
<1>1. SocketOrder' /\ QueueOrder'
  BY DEF OrderInv, SocketOrder, QueueOrder
<1>2. \A m \in Ids : fate'[m] # "running"
  BY <1>f DEF OrderInv, FateAgrees
<1>3. \A m \in Ids : fate'[m] = "queued" <=> fate[m] = "queued"
  BY <1>f, <1>t
<1>4. \A m \in Ids : fate[m] = "new" => fate'[m] = "new"
  BY <1>f, <1>t
<1>5. FateAgrees'
  BY <1>t, <1>2, <1>3, <1>4 DEF OrderInv, FateAgrees
<1> QED BY <1>1, <1>5 DEF OrderInv

\* Every step of the dispatch loop keeps the order.
LEMMA DispatchOrder ==
    TypeOK /\ OrderInv /\ DispatchNext /\ UNCHANGED clientVars => OrderInv'
<1> SUFFICES ASSUME TypeOK, OrderInv, DispatchNext, UNCHANGED clientVars
             PROVE  OrderInv'
  OBVIOUS
<1> USE DEF dispFrame
<1>1. CASE DispStop
  <2>1. /\ dispPc \notin {"run", "send"} /\ dispPc' \notin {"run", "send"}
        /\ UNCHANGED <<toSync, queue, cur, fate, nextId, partial>>
    BY <1>1 DEF DispStop
  <2> QED
    BY <2>1 DEF OrderInv, SocketOrder, QueueOrder, FateAgrees
<1>2. ASSUME NEW outcome \in Outcomes, DispFinish(outcome) PROVE OrderInv'
  <2>0. dispPc = "run" /\ UNCHANGED <<toSync, queue, cur, nextId, partial>>
    BY <1>2 DEF DispFinish
  <2>1. CASE outcome = "reply"
    <3>1. dispPc' = "send" /\ fate' = fate
      BY <1>2, <2>1 DEF DispFinish
    <3> QED
      BY <2>0, <3>1 DEF OrderInv, SocketOrder, QueueOrder, FateAgrees
  <2>2. CASE outcome = "silent"
    <3>1. dispPc' = "get" /\ fate' = [fate EXCEPT ![cur] = "silent"]
      BY <1>2, <2>2 DEF DispFinish
    <3> QED BY <2>0, <3>1, SettledOrder DEF Fates
  <2>3. CASE outcome = "crash"
    <3>1. dispPc' = "crashed" /\ fate' = [fate EXCEPT ![cur] = "crashed"]
      BY <1>2, <2>3 DEF DispFinish
    <3> QED BY <2>0, <3>1, SettledOrder DEF Fates
  <2> QED BY <2>1, <2>2, <2>3, OutcomesAssumption
<1>3. CASE DispReplied
  <2>1. /\ dispPc = "send" /\ dispPc' = "get"
        /\ fate' = [fate EXCEPT ![cur] = "replied"]
        /\ UNCHANGED <<toSync, queue, cur, nextId, partial>>
    BY <1>3 DEF DispReplied
  <2> QED BY <2>1, SettledOrder DEF Fates
<1> QED
  BY <1>1, <1>2, <1>3, DispRunOrder, DispSkipOrder DEF DispatchNext

-----------------------------------------------------------------------------
(* The async channel and the client.                                       *)

\* No step of the async channel touches a command.
LEMMA AsyncKeepsCommands ==
    AsyncNext \/ AsyncStart =>
        UNCHANGED <<overlapMode, loopVars, recvVars, dispVars, toSync,
                    connected>>
  BY DEF AsyncNext, AsyncStart, AsyncStop, AsyncStatusQuery, AsyncRemoteLocal,
         AsyncOther, AsyncClear, AsyncCompleteSent, AsyncAcked, AsyncTimeout,
         asyncFrame

\* A frame that the client puts on the sync socket goes behind the others.
LEMMA OrderPut ==
    ASSUME TypeOK, OrderInv, NEW kind \in SyncIn \ {"clearAck"},
           MaySend, Put(kind), UNCHANGED <<queue, cur, fate, dispPc>>,
           partial => kind # "data",
           IF kind = "data" THEN nextId' = nextId /\ partial' = TRUE
                            ELSE nextId' = nextId + 1 /\ partial' = FALSE
    PROVE  OrderInv'
<1> DEFINE f == Frame(kind, nextId)
           n == Len(toSync) + 1
<1>t. /\ nextId \in Nat /\ nextId \in Ids /\ cur \in Nat /\ Ids \subseteq Nat
      /\ \A k \in DOMAIN queue : queue[k] \in Ids
      /\ DOMAIN toSync \subseteq Nat
      /\ \A k \in DOMAIN toSync :
            /\ toSync[k].id \in Nat
            /\ Numbered(toSync[k]) => toSync[k].id \in Ids
  BY NumbersTyped, SessionAssumption
  DEF TypeOK, ClientTypeOK, MaySend, Ids
<1>f. f \in InFrames /\ f.kind = kind /\ f.id = nextId /\ Numbered(f)
  BY <1>t DEF Frame, InFrames, Numbered
<1>s. /\ DOMAIN toSync' = 1..n /\ toSync'[n] = f /\ n \in Nat
      /\ DOMAIN toSync = 1..Len(toSync) /\ Len(toSync) \in Nat
      /\ \A k \in DOMAIN toSync : toSync'[k] = toSync[k]
      /\ \A k \in DOMAIN toSync' : k \in DOMAIN toSync \/
            (k = n /\ \A j \in DOMAIN toSync : j < k)
  BY <1>f, AppendElements DEF TypeOK, SessionTypeOK, Put
<1>b. nextId' >= nextId /\ nextId' \in Nat
      /\ (kind # "data" => nextId' = nextId + 1)
      /\ (kind = "data" => nextId' = nextId /\ partial' = TRUE)
  BY <1>t
<1> HIDE DEF f, n
<1>1. SocketOrder'
  <2>1. ASSUME NEW k \in DOMAIN toSync', Numbered(toSync'[k])
        PROVE  \/ toSync'[k].id < nextId'
               \/ /\ toSync'[k].id = nextId' /\ partial'
                  /\ toSync'[k].kind = "data"
    <3>1. CASE k \in DOMAIN toSync
      <4>1. \/ toSync[k].id < nextId
            \/ toSync[k].id = nextId /\ partial /\ toSync[k].kind = "data"
        BY <1>s, <2>1, <3>1 DEF OrderInv, SocketOrder
      <4>2. CASE toSync[k].id < nextId
        BY <1>s, <1>b, <1>t, <3>1, <4>2
      <4>3. CASE toSync[k].id = nextId /\ partial
        BY <1>s, <1>b, <1>t, <3>1, <4>3
      <4> QED BY <4>1, <4>2, <4>3
    <3>2. CASE k = n
      BY <1>s, <1>f, <1>b, <1>t, <3>2
    <3> QED BY <1>s, <3>1, <3>2
  <2>2. ASSUME NEW j \in DOMAIN toSync', NEW k \in DOMAIN toSync', j < k,
               Numbered(toSync'[j]), Numbered(toSync'[k])
        PROVE  /\ toSync'[j].id <= toSync'[k].id
               /\ toSync'[j].kind # "data" => toSync'[j].id < toSync'[k].id
    <3>1. j \in DOMAIN toSync
      BY <1>s, <2>2
    <3>2. CASE k \in DOMAIN toSync
      BY <1>s, <2>2, <3>1, <3>2 DEF OrderInv, SocketOrder
    <3>3. CASE k = n
      <4>1. toSync[j].id <= nextId
            /\ (toSync[j].kind # "data" => toSync[j].id < nextId)
        BY <1>s, <1>t, <2>2, <3>1 DEF OrderInv, SocketOrder
      <4> QED BY <1>s, <1>f, <3>1, <3>3, <4>1
    <3> QED BY <1>s, <3>2, <3>3
  <2> QED BY <2>1, <2>2 DEF SocketOrder, Numbered
<1>2. QueueOrder'
  <2>1. ASSUME NEW k \in DOMAIN toSync', Numbered(toSync'[k])
        PROVE  /\ cur < toSync'[k].id
               /\ \A j \in DOMAIN queue : queue[j] < toSync'[k].id
    BY <1>s, <1>f, <2>1 DEF OrderInv, QueueOrder
  <2>2. cur < nextId'
    <3>1. cur < nextId
      BY DEF OrderInv, QueueOrder
    <3> QED BY <1>b, <1>t, <3>1
  <2>3. ASSUME NEW j \in DOMAIN queue PROVE queue[j] < nextId'
    <3>1. queue[j] < nextId /\ queue[j] \in Nat
      BY <1>t DEF OrderInv, QueueOrder
    <3> QED BY <1>b, <1>t, <3>1
  <2> QED BY <2>1, <2>2, <2>3 DEF OrderInv, QueueOrder, Numbered
<1>3. FateAgrees'
  <2>1. ASSUME NEW k \in DOMAIN toSync', toSync'[k].kind = "dataEnd"
        PROVE  fate[toSync'[k].id] = "new"
    BY <1>s, <1>f, <1>t, <2>1 DEF OrderInv, FateAgrees
  <2>2. ASSUME NEW m \in Ids, m >= nextId' PROVE fate[m] = "new"
    <3>1. m >= nextId
      BY <1>b, <1>t, <2>2
    <3> QED BY <3>1 DEF OrderInv, FateAgrees
  <2> QED BY <2>1, <2>2 DEF OrderInv, FateAgrees
<1> QED BY <1>1, <1>2, <1>3 DEF OrderInv

\* DEVICE_CLEAR_ACK carries no id and disturbs nothing.
LEMMA OrderAck ==
    ASSUME TypeOK, OrderInv, toSync' = Append(toSync, Frame("clearAck", NoId)),
           UNCHANGED <<queue, cur, fate, dispPc, nextId, partial>>
    PROVE  OrderInv'
<1> DEFINE f == Frame("clearAck", NoId)
<1>f. f \in InFrames /\ ~Numbered(f) /\ f.kind # "dataEnd"
  BY DEF Frame, InFrames, Numbered
<1>s. /\ \A k \in DOMAIN toSync' : k \in DOMAIN toSync \/ toSync'[k] = f
      /\ \A k \in DOMAIN toSync : toSync'[k] = toSync[k]
  BY <1>f, AppendElements DEF TypeOK, SessionTypeOK
<1> HIDE DEF f
<1>1. SocketOrder'
  BY <1>f, <1>s DEF OrderInv, SocketOrder, Numbered
<1>2. QueueOrder' /\ FateAgrees'
  BY <1>f, <1>s DEF OrderInv, QueueOrder, FateAgrees, Numbered
<1> QED BY <1>1, <1>2 DEF OrderInv

\* A device clear gives up the id of a command of which only a fragment went.
LEMMA ClientClearOrder ==
    ASSUME TypeOK, OrderInv, ClientClear
    PROVE  OrderInv'
<1>t. /\ nextId \in Nat /\ cur \in Nat
      /\ \A k \in DOMAIN queue : queue[k] \in Nat
      /\ \A k \in DOMAIN toSync : toSync[k].id \in Nat
      /\ Ids \subseteq Nat
  BY NumbersTyped DEF TypeOK, ClientTypeOK
<1>s. /\ UNCHANGED <<toSync, queue, cur, fate, dispPc>>
      /\ nextId' = IF partial THEN nextId + 1 ELSE nextId
  BY <1>t DEF ClientClear, clientRest
<1>b. nextId' \in Nat /\ nextId' >= nextId
  BY <1>s, <1>t
<1>p. partial => nextId' > nextId
  BY <1>s, <1>t
<1>1. SocketOrder'
  <2>1. ASSUME NEW k \in DOMAIN toSync, Numbered(toSync[k])
        PROVE  toSync[k].id < nextId'
    <3>1. toSync[k].id < nextId \/ (toSync[k].id = nextId /\ partial)
      BY <2>1 DEF OrderInv, SocketOrder
    <3> QED BY <1>b, <1>p, <1>t, <3>1
  <2> QED BY <1>s, <2>1 DEF OrderInv, SocketOrder, Numbered
<1>2. QueueOrder'
  <2>1. cur < nextId' /\ \A k \in DOMAIN queue : queue[k] < nextId'
    BY <1>b, <1>t DEF OrderInv, QueueOrder
  <2> QED BY <1>s, <2>1 DEF OrderInv, QueueOrder
<1>3. FateAgrees'
  <2>1. ASSUME NEW m \in Ids, m >= nextId' PROVE fate[m] = "new"
    <3>1. m >= nextId
      BY <1>b, <1>t, <2>1
    <3> QED BY <3>1 DEF OrderInv, FateAgrees
  <2> QED BY <1>s, <2>1 DEF OrderInv, FateAgrees
<1> QED BY <1>1, <1>2, <1>3 DEF OrderInv

\* Every step of the client keeps the order.
LEMMA ClientOrder == TypeOK /\ OrderInv /\ ClientNext => OrderInv'
<1> SUFFICES ASSUME TypeOK, OrderInv, ClientNext PROVE OrderInv'
  OBVIOUS
<1> USE DEF clientRest
<1>1. CASE ClientFragment
  BY <1>1, OrderPut DEF ClientFragment, SyncIn
<1>2. CASE ClientCommand
  BY <1>2, OrderPut DEF ClientCommand, SyncIn
<1>3. ASSUME NEW kind \in {"trigger", "other", "bad"}, ClientMessage(kind)
      PROVE  OrderInv'
  <2>1. ~partial' /\ partial' \in BOOLEAN
    BY <1>3 DEF ClientMessage, TypeOK, ClientTypeOK
  <2> QED BY <1>3, <2>1, OrderPut DEF ClientMessage, SyncIn
<1>4. CASE ClientRead
  <2>1. CASE Head(outSync).kind = "complete"
    BY <1>4, <2>1, OrderAck DEF ClientRead
  <2>2. CASE Head(outSync).kind # "complete"
    BY <1>4, <2>2, OrderSame DEF ClientRead, orderVars
  <2> QED BY <2>1, <2>2
<1>5. CASE ClientClear
  BY <1>5, ClientClearOrder
<1>6. ASSUME NEW kind \in AsyncKinds, ClientPoll(kind) PROVE OrderInv'
  BY <1>6, OrderSame DEF ClientPoll, orderVars
<1>7. CASE ClientReadAsync \/ ClientLeave \/ ClientLeaveAsync
  BY <1>7, OrderSame
  DEF ClientReadAsync, ClientLeave, ClientLeaveAsync, orderVars
<1> QED
  BY <1>1, <1>2, <1>3, <1>4, <1>5, <1>6, <1>7 DEF ClientNext

-----------------------------------------------------------------------------
\* The order holds initially.
LEMMA OrderInit == Init => OrderInv
  BY DEF Init, SessionInit, ClientInit, OrderInv, SocketOrder, QueueOrder,
         FateAgrees, NoId

\* Every step keeps the order.
LEMMA OrderStep == TypeOK /\ OrderInv /\ [Next]_vars => OrderInv'
<1> SUFFICES ASSUME TypeOK, OrderInv, [Next]_vars PROVE OrderInv'
  OBVIOUS
<1>1. CASE ServerNext
  <2>1. ASSUME AsyncNext, UNCHANGED clientVars PROVE OrderInv'
    BY <2>1, AsyncKeepsCommands, OrderSame DEF orderVars
  <2> QED BY <1>1, <2>1, ReceiveOrder, DispatchOrder DEF ServerNext
<1>2. CASE Connect
  BY <1>2, AsyncKeepsCommands, OrderSame DEF Connect, orderVars
<1>3. CASE ClientNext
  BY <1>3, ClientOrder
<1>4. CASE UNCHANGED vars
  BY <1>4, OrderSame DEF vars, orderVars
<1> QED BY <1>1, <1>2, <1>3, <1>4 DEF Next, Over

\* The order holds in every reachable state.
LEMMA OrderAlways == Spec => [](TypeOK /\ OrderInv)
<1>1. Init => OrderInv
  BY OrderInit
<1>2. TypeOK /\ OrderInv /\ [Next]_vars => OrderInv'
  BY OrderStep
<1> QED BY <1>1, <1>2, TypeCorrect, PTL DEF Spec

\* In both modes the commands are run in the order in which the client sent
\* them: the queue is sorted, behind the command last taken and ahead of the
\* socket.
THEOREM CommandsInOrder == Spec => []InOrder
<1>1. OrderInv => InOrder
  BY DEF OrderInv, QueueOrder, InOrder, Numbered
<1> QED BY <1>1, OrderAlways, PTL

-----------------------------------------------------------------------------
(* The refinement: the queue with the history of its commands implements   *)
(* CommandPipeline.                                                        *)

\* The commands that CommandPipeline sees as running and as settled.
RunningSet == {i \in Ids : fate[i] = "running"}
SettledSet == {i \in Ids : fate[i] \notin {"new", "queued", "running"}}

\* Every step maps to a step of the pipeline or to none.
PipelineStep == [Pipeline!PipeNext]_(Pipeline!pipeVars)

\* A step that moves no command is a stutter of the pipeline.
LEMMA PipelineSame == UNCHANGED <<queue, fate>> => PipelineStep
  BY DEF PipelineStep, Pipeline!pipeVars

\* RecvCommand admits a command, RecvOverflow turns one away.
LEMMA ReceiveAdmits ==
    ASSUME TypeOK, OrderInv, RecvCommand PROVE Pipeline!PipeNext
<1> DEFINE i == Head(toSync).id
<1>1. i \in Ids /\ fate[i] = "new"
  <2>1. /\ 1 \in DOMAIN toSync /\ Head(toSync) = toSync[1] /\ i \in Ids
        /\ Head(toSync).kind = "dataEnd"
    BY HeadOrder DEF RecvCommand, SyncIn
  <2> QED BY <2>1 DEF OrderInv, FateAgrees
<1>2. /\ queue' = Append(queue, i) /\ fate' = [fate EXCEPT ![i] = "queued"]
      /\ Len(queue) < QueueDepth
  BY SessionAssumption, LenProperties
  DEF RecvCommand, QueueFull, TypeOK, SessionTypeOK
<1>3. fate \in [Ids -> Fates]
  BY DEF TypeOK, SessionTypeOK
<1> HIDE DEF i
<1>4. i \notin RunningSet /\ i \notin SettledSet
      /\ i \notin {queue[k] : k \in DOMAIN queue}
  BY <1>1 DEF RunningSet, SettledSet, OrderInv, FateAgrees
<1>5. RunningSet' = RunningSet /\ SettledSet' = SettledSet
  BY <1>1, <1>2, <1>3 DEF RunningSet, SettledSet
<1>6. Pipeline!Admit(i)
  BY <1>1, <1>2, <1>4, <1>5
  DEF Pipeline!Admit, Pipeline!Fresh, RunningSet, SettledSet
<1> QED BY <1>1, <1>6 DEF Pipeline!PipeNext

\* RecvOverflow turns a command away.
LEMMA ReceiveTurnsAway ==
    ASSUME TypeOK, OrderInv, RecvOverflow PROVE Pipeline!PipeNext
<1>1. /\ 1 \in DOMAIN toSync /\ Head(toSync) = toSync[1]
      /\ Head(toSync).id \in Ids /\ Head(toSync).kind = "dataEnd"
  BY HeadOrder DEF RecvOverflow, SyncIn
<1>2. PICK i \in Ids : i = Head(toSync).id
  BY <1>1
<1>3. /\ queue' = queue /\ fate' = [fate EXCEPT ![i] = "rejected"]
      /\ Len(queue) = QueueDepth
  BY <1>2, SessionAssumption, LenProperties
  DEF RecvOverflow, QueueFull, TypeOK, SessionTypeOK
<1>4. fate \in [Ids -> Fates] /\ fate[i] = "new"
  BY <1>1, <1>2 DEF TypeOK, SessionTypeOK, OrderInv, FateAgrees
<1>5. i \notin RunningSet /\ i \notin SettledSet
      /\ i \notin {queue[k] : k \in DOMAIN queue}
  BY <1>4 DEF RunningSet, SettledSet, OrderInv, FateAgrees
<1>6. RunningSet' = RunningSet /\ SettledSet' = SettledSet \cup {i}
  BY <1>3, <1>4 DEF RunningSet, SettledSet
<1>7. Pipeline!TurnAway(i)
  BY <1>3, <1>5, <1>6
  DEF Pipeline!TurnAway, Pipeline!Fresh, RunningSet, SettledSet
<1> QED BY <1>7 DEF Pipeline!PipeNext

\* DEVICE_CLEAR_ACK drops the whole line.
LEMMA ClearDropsAll ==
    ASSUME TypeOK, OrderInv, RecvClearAck PROVE Pipeline!PipeNext
<1>1. /\ queue' = << >>
      /\ fate' = [i \in Ids |-> IF \E k \in DOMAIN queue : queue[k] = i
                                THEN "flushed" ELSE fate[i]]
  BY DEF RecvClearAck, DrainQueue
<1>2. \A k \in DOMAIN queue : queue[k] \in Ids
  BY NumbersTyped
<1>3. \A i \in Ids : fate[i] = "queued" <=> \E k \in DOMAIN queue : queue[k] = i
  BY DEF OrderInv, FateAgrees
<1>4. RunningSet' = RunningSet
  BY <1>1, <1>3 DEF RunningSet
<1>5. SettledSet' = SettledSet \cup {queue[k] : k \in DOMAIN queue}
  BY <1>1, <1>2, <1>3 DEF SettledSet
<1>6. Pipeline!DropAll
  BY <1>1, <1>4, <1>5 DEF Pipeline!DropAll, RunningSet, SettledSet
<1> QED BY <1>6 DEF Pipeline!PipeNext

\* DispRun starts the head of the line, DispSkip drops it.
LEMMA RunStarts ==
    ASSUME TypeOK, OrderInv, DispRun PROVE Pipeline!PipeNext
<1>1. /\ queue # << >> /\ queue' = Tail(queue) /\ dispPc = "get"
      /\ fate' = [fate EXCEPT ![Head(queue)] = "running"]
  BY DEF DispRun, Take
<1>2. Head(queue) \in Ids /\ fate[Head(queue)] = "queued"
  BY <1>1, TakeElements DEF Take, OrderInv, FateAgrees
<1>3. fate \in [Ids -> Fates]
  BY DEF TypeOK, SessionTypeOK
<1>4. RunningSet = {} /\ RunningSet' = {Head(queue)}
  BY <1>1, <1>2, <1>3 DEF RunningSet, OrderInv, FateAgrees
<1>5. SettledSet' = SettledSet
  BY <1>1, <1>2, <1>3 DEF SettledSet
<1>6. Pipeline!Start
  BY <1>1, <1>4, <1>5 DEF Pipeline!Start, RunningSet, SettledSet
<1> QED BY <1>6 DEF Pipeline!PipeNext

\* DispSkip drops the command at the head.
LEMMA SkipDropsHead ==
    ASSUME TypeOK, OrderInv, DispSkip PROVE Pipeline!PipeNext
<1>1. /\ queue # << >> /\ queue' = Tail(queue) /\ dispPc = "get"
      /\ fate' = [fate EXCEPT ![Head(queue)] = "skipped"]
  BY DEF DispSkip, Take
<1>2. Head(queue) \in Ids /\ fate[Head(queue)] = "queued"
  BY <1>1, TakeElements DEF Take, OrderInv, FateAgrees
<1>3. fate \in [Ids -> Fates]
  BY DEF TypeOK, SessionTypeOK
<1>4. RunningSet = {} /\ RunningSet' = RunningSet
  BY <1>1, <1>2, <1>3 DEF RunningSet, OrderInv, FateAgrees
<1>5. SettledSet' = SettledSet \cup {Head(queue)}
  BY <1>1, <1>2, <1>3 DEF SettledSet
<1>6. Pipeline!DropHead
  BY <1>1, <1>4, <1>5 DEF Pipeline!DropHead, RunningSet, SettledSet
<1> QED BY <1>6 DEF Pipeline!PipeNext

\* The end of a command, however it ends, finishes it.
LEMMA EndFinishes ==
    ASSUME TypeOK, OrderInv, dispPc \in {"run", "send"},
           NEW f \in Fates \ {"new", "queued", "running"},
           fate' = [fate EXCEPT ![cur] = f], UNCHANGED queue
    PROVE  Pipeline!PipeNext
<1>1. cur \in Ids /\ fate \in [Ids -> Fates] /\ RunningSet = {cur}
  BY DEF RunningSet, OrderInv, FateAgrees, TypeOK, SessionTypeOK
<1>2. RunningSet' = {} /\ SettledSet' = SettledSet \cup RunningSet
  <2>1. \A i \in Ids : fate'[i] = IF i = cur THEN f ELSE fate[i]
    BY <1>1
  <2> QED BY <1>1, <2>1 DEF RunningSet, SettledSet
<1>3. Pipeline!Finish
  BY <1>1, <1>2 DEF Pipeline!Finish, RunningSet, SettledSet
<1> QED BY <1>3 DEF Pipeline!PipeNext

\* Every step of the link is one of the pipeline, or a stutter.
LEMMA PipelineSteps == TypeOK /\ OrderInv /\ [Next]_vars => PipelineStep
<1> SUFFICES ASSUME TypeOK, OrderInv, [Next]_vars PROVE PipelineStep
  OBVIOUS
<1>1. CASE ReceiveNext
  <2>1. CASE RecvCommand \/ RecvOverflow \/ RecvClearAck
    BY <2>1, ReceiveAdmits, ReceiveTurnsAway, ClearDropsAll DEF PipelineStep
  <2>2. CASE ~(RecvCommand \/ RecvOverflow \/ RecvClearAck)
    BY <1>1, <2>2, PipelineSame
    DEF ReceiveNext, RecvData, RecvWake, RecvTrigger, RecvOther, RecvSent,
        RecvClsDone, RecvClsSent, RecvStop, RunClose
  <2> QED BY <2>1, <2>2
<1>2. CASE DispatchNext
  <2>1. CASE DispRun \/ DispSkip
    BY <2>1, RunStarts, SkipDropsHead DEF PipelineStep
  <2>2. CASE DispStop
    BY <2>2, PipelineSame DEF DispStop
  <2>3. ASSUME NEW outcome \in Outcomes, DispFinish(outcome) PROVE PipelineStep
    <3>1. CASE outcome = "reply"
      <4>1. UNCHANGED <<queue, fate>>
        BY <2>3, <3>1 DEF DispFinish
      <4> QED BY <4>1, PipelineSame
    <3>2. CASE outcome = "silent"
      <4>1. /\ dispPc = "run" /\ UNCHANGED queue
            /\ fate' = [fate EXCEPT ![cur] = "silent"]
        BY <2>3, <3>2 DEF DispFinish
      <4> QED BY <4>1, EndFinishes DEF Fates, PipelineStep
    <3>3. CASE outcome = "crash"
      <4>1. /\ dispPc = "run" /\ UNCHANGED queue
            /\ fate' = [fate EXCEPT ![cur] = "crashed"]
        BY <2>3, <3>3 DEF DispFinish
      <4> QED BY <4>1, EndFinishes DEF Fates, PipelineStep
    <3> QED BY <3>1, <3>2, <3>3, OutcomesAssumption
  <2>4. CASE DispReplied
    <3>1. /\ dispPc = "send" /\ UNCHANGED queue
          /\ fate' = [fate EXCEPT ![cur] = "replied"]
      BY <2>4 DEF DispReplied
    <3> QED BY <3>1, EndFinishes DEF Fates, PipelineStep
  <2> QED BY <1>2, <2>1, <2>2, <2>3, <2>4 DEF DispatchNext
<1>3. CASE AsyncNext \/ AsyncStart
  BY <1>3, AsyncKeepsCommands, PipelineSame
<1>4. CASE ClientNext
  BY <1>4, PipelineSame
  DEF ClientNext, ClientFragment, ClientCommand, ClientMessage, ClientRead,
      ClientClear, ClientPoll, ClientReadAsync, ClientLeave, ClientLeaveAsync,
      clientRest
<1>5. CASE UNCHANGED vars
  BY <1>5, PipelineSame DEF vars
<1> QED
  BY <1>1, <1>2, <1>3, <1>4, <1>5 DEF Next, ServerNext, Connect, Over

\* The command queue, its two loops, the device clear and the client, in
\* every order, implement CommandPipeline: a bounded line, one command at a
\* time, and no command that is settled twice or comes back.
THEOREM QueueRefinesPipeline == Spec => QueueIsPipeline
<1>1. Init => Pipeline!PipeInit
  BY DEF Init, SessionInit, Pipeline!PipeInit
<1>2. TypeOK /\ OrderInv /\ [Next]_vars => [Pipeline!PipeNext]_(Pipeline!pipeVars)
  BY PipelineSteps DEF PipelineStep
<1> QED
  BY <1>1, <1>2, OrderAlways, PTL
  DEF Spec, QueueIsPipeline, Pipeline!PipeSpec

-----------------------------------------------------------------------------
(* SyncWindow.  It is inductive by itself once the types are known: each   *)
(* step that adds a command makes the receive loop wait for it, and each   *)
(* step that ends the wait has settled that command or counts as an        *)
(* interrupt.                                                              *)

\* What SyncWindow allows to be outstanding.
Allowed == interrupts + Awaited

\* A bound on frames is a number,
LEMMA AllowedType == ASSUME interrupts \in Nat PROVE Allowed \in Nat
<1>1. Awaited \in {0, 1}
  BY DEF Awaited
<1> QED BY <1>1 DEF Allowed

\* also after a step.
LEMMA AllowedTypeNext == ASSUME interrupts' \in Nat PROVE Allowed' \in Nat
<1>1. Awaited' = 0 \/ Awaited' = 1
  BY DEF Awaited
<1> QED BY <1>1 DEF Allowed

\* SyncWindow survives a step that does not bring the commands outstanding
\* nearer to what is allowed.
LEMMA WindowKept ==
    ASSUME TypeOK, TypeOK', SyncWindow, UNCHANGED overlapMode,
           Len(queue') + InHand' - Len(queue) - InHand <= Allowed' - Allowed
    PROVE  SyncWindow'
<1>1. /\ Len(queue) \in Nat /\ InHand \in Nat /\ Allowed \in Nat
      /\ Len(queue') \in Nat /\ InHand' \in Nat /\ Allowed' \in Nat
  <2>1. Len(queue) \in Nat /\ Len(queue') \in Nat
    BY LenProperties DEF TypeOK, SessionTypeOK
  <2>2. InHand \in Nat /\ InHand' \in Nat
    BY DEF InHand
  <2>3. interrupts \in Nat /\ interrupts' \in Nat
    BY DEF TypeOK, SessionTypeOK
  <2>4. Allowed \in Nat /\ Allowed' \in Nat
    BY <2>3, AllowedType, AllowedTypeNext
  <2> QED BY <2>1, <2>2, <2>4
<1>2. overlapMode \/ Len(queue) + InHand <= Allowed
  BY DEF SyncWindow, Outstanding, InHand, Allowed
<1>3. overlapMode' \/ Len(queue') + InHand' <= Allowed'
  BY <1>1, <1>2
<1> QED
  BY <1>3 DEF SyncWindow, Outstanding, InHand, Allowed

\* In particular a step that only adds to what is allowed ...
LEMMA WindowWider ==
    ASSUME TypeOK, TypeOK', SyncWindow,
           UNCHANGED <<overlapMode, queue, dispPc>>, Allowed' >= Allowed
    PROVE  SyncWindow'
<1>1. Outstanding' = Outstanding /\ Outstanding \in Nat
  <2>1. Len(queue) \in Nat
    BY LenProperties DEF TypeOK, SessionTypeOK
  <2> QED BY <2>1 DEF Outstanding, InHand
<1>2. Allowed \in Nat
  BY AllowedType DEF TypeOK, SessionTypeOK
<1>3. Allowed' \in Nat
  BY AllowedTypeNext DEF TypeOK, SessionTypeOK
<1>4. overlapMode \/ Outstanding <= Allowed
  BY DEF SyncWindow, Allowed
<1>5. overlapMode' \/ Outstanding' <= Allowed'
  BY <1>1, <1>2, <1>3, <1>4
<1> QED
  BY <1>5 DEF SyncWindow, Allowed

\* ... or a step that changes none of it.
LEMMA WindowUntouched ==
    ASSUME TypeOK, TypeOK', SyncWindow,
           UNCHANGED <<overlapMode, queue, dispPc, interrupts, syncSet>>,
           recvPc = "waitDone" <=> recvPc' = "waitDone"
    PROVE  SyncWindow'
  BY DEF SyncWindow, Outstanding, InHand, Awaited

\* The event of the command being waited for is set at most once: setting
\* any event takes at most one from what is allowed.
LEMMA SignalWindow ==
    ASSUME TypeOK, NEW i, Signal(i), UNCHANGED <<recvPc, interrupts>>
    PROVE  Allowed' \in {Allowed, Allowed - 1}
<1>1. interrupts \in Nat
  BY DEF TypeOK, SessionTypeOK
<1>2. Awaited' = Awaited \/ (Awaited' = 0 /\ Awaited = 1)
  BY DEF Signal, Awaited
<1>3. Awaited \in {0, 1}
  BY DEF Awaited
<1> QED
  BY <1>1, <1>2, <1>3 DEF Allowed

\* SyncWindow is preserved by the receive loop ...
LEMMA ReceiveWindow ==
    TypeOK /\ TypeOK' /\ SyncWindow /\ ReceiveNext => SyncWindow'
<1> SUFFICES ASSUME TypeOK, TypeOK', SyncWindow, ReceiveNext PROVE SyncWindow'
  OBVIOUS
<1> USE DEF recvFrame
<1>t. queue \in Seq(Ids) /\ Len(queue) \in Nat /\ interrupts \in Nat
  BY LenProperties DEF TypeOK, SessionTypeOK
<1>1. CASE RecvData \/ RecvOverflow \/ RecvTrigger \/ RecvOther \/ RecvSent
           \/ RecvClsDone \/ RecvClsSent \/ RecvStop \/ RunClose
  BY <1>1, WindowUntouched
  DEF RecvData, RecvOverflow, RecvTrigger, RecvOther, RecvSent, RecvClsDone,
      RecvClsSent, RecvStop, RunClose, Receive
<1>2. CASE RecvWake
  BY <1>2 DEF RecvWake, SyncWindow, Outstanding, InHand, Awaited
<1>3. CASE RecvClearAck
  <2>1. Len(queue') = 0 /\ UNCHANGED <<overlapMode, dispPc, interrupts>>
    BY <1>3 DEF RecvClearAck, DrainQueue
  <2>2. Allowed' = Allowed
    BY <1>3 DEF RecvClearAck, Receive, Allowed, Awaited
  <2>3. InHand' = InHand /\ InHand \in Nat /\ Allowed \in Nat
    BY <1>t, <2>1, AllowedType DEF InHand
  <2> QED
    BY <1>t, <2>1, <2>2, <2>3, WindowKept
<1>4. CASE RecvCommand
  <2> DEFINE i == Head(toSync).id
  <2>1. i \in Ids
    BY <1>4, ReceiveType DEF RecvCommand, TypeOK, SyncIn
  <2>2. /\ UNCHANGED <<overlapMode, dispPc, interrupts>>
        /\ queue' = Append(queue, i) /\ recvPc = "read" /\ AfterPut(i)
    BY <1>4 DEF RecvCommand, Receive
  <2>3. Len(queue') = Len(queue) + 1
    BY <1>t, <2>1, <2>2, AppendProperties
  <2>4. CASE overlapMode
    BY <2>2, <2>4 DEF SyncWindow
  <2>5. CASE ~overlapMode
    <3>1. Allowed = interrupts /\ Allowed' = interrupts + 1
      BY <1>t, <2>2, <2>5 DEF Allowed, Awaited, AfterPut
    <3>2. InHand' = InHand /\ InHand \in Nat
      BY <2>2 DEF InHand
    <3> QED
      BY <1>t, <2>2, <2>3, <3>1, <3>2, WindowKept
  <2> QED BY <2>4, <2>5
<1> QED
  BY <1>1, <1>2, <1>3, <1>4 DEF ReceiveNext

\* ... by the dispatch loop ...
LEMMA DispatchWindow ==
    TypeOK /\ TypeOK' /\ SyncWindow /\ DispatchNext => SyncWindow'
<1> SUFFICES ASSUME TypeOK, TypeOK', SyncWindow, DispatchNext
             PROVE  SyncWindow'
  OBVIOUS
<1> USE DEF dispFrame
<1>t. queue \in Seq(Ids) /\ Len(queue) \in Nat /\ interrupts \in Nat
      /\ Allowed \in Nat
  BY LenProperties, AllowedType DEF TypeOK, SessionTypeOK
<1>q. ASSUME queue # << >> PROVE Len(Tail(queue)) = Len(queue) - 1
  BY <1>q, <1>t, HeadTailProperties
<1>1. CASE DispRun
  <2>1. Len(queue') = Len(queue) - 1 /\ InHand' = 1 /\ InHand = 0
    BY <1>1, <1>q DEF DispRun, Take, InHand
  <2>2. Allowed' = Allowed /\ UNCHANGED overlapMode
    BY <1>1 DEF DispRun, Allowed, Awaited
  <2> QED BY <1>t, <2>1, <2>2, WindowKept
<1>2. CASE DispSkip
  <2>1. Len(queue') = Len(queue) - 1 /\ InHand' = 0 /\ InHand = 0
    BY <1>2, <1>q DEF DispSkip, Take, InHand
  <2>2. Allowed' \in {Allowed, Allowed - 1} /\ UNCHANGED overlapMode
    BY <1>2, SignalWindow DEF DispSkip
  <2> QED BY <1>t, <2>1, <2>2, WindowKept
<1>3. CASE DispStop
  BY <1>3 DEF DispStop, SyncWindow, Outstanding, InHand, Awaited
<1>4. ASSUME NEW outcome \in Outcomes, DispFinish(outcome) PROVE SyncWindow'
  <2>0. UNCHANGED <<overlapMode, queue, recvPc, interrupts>> /\ InHand = 1
    BY <1>4 DEF DispFinish, InHand
  <2>1. CASE outcome = "reply"
    <3>1. InHand' = 1 /\ Allowed' = Allowed
      BY <1>4, <2>0, <2>1 DEF DispFinish, InHand, Allowed, Awaited
    <3> QED BY <1>t, <2>0, <3>1, WindowKept
  <2>2. CASE outcome = "silent"
    <3>1. InHand' = 0 /\ Signal(cur)
      BY <1>4, <2>2 DEF DispFinish, InHand
    <3>2. Allowed' \in {Allowed, Allowed - 1}
      BY <2>0, <3>1, SignalWindow
    <3> QED BY <1>t, <2>0, <3>1, <3>2, WindowKept
  <2>3. CASE outcome = "crash"
    <3>1. InHand' = 0 /\ Allowed' = Allowed
      BY <1>4, <2>0, <2>3 DEF DispFinish, InHand, Allowed, Awaited
    <3> QED BY <1>t, <2>0, <3>1, WindowKept
  <2> QED BY <2>1, <2>2, <2>3, OutcomesAssumption
<1>5. CASE DispReplied
  <2>1. UNCHANGED <<overlapMode, queue, recvPc, interrupts>>
        /\ InHand = 1 /\ InHand' = 0 /\ Signal(cur)
    BY <1>5 DEF DispReplied, InHand
  <2>2. Allowed' \in {Allowed, Allowed - 1}
    BY <2>1, SignalWindow
  <2> QED BY <1>t, <2>1, <2>2, WindowKept
<1> QED
  BY <1>1, <1>2, <1>3, <1>4, <1>5 DEF DispatchNext

\* ... and by the async channel.
LEMMA AsyncWindow ==
    TypeOK /\ TypeOK' /\ SyncWindow /\ (AsyncNext \/ AsyncStart) => SyncWindow'
<1> SUFFICES ASSUME TypeOK, TypeOK', SyncWindow, AsyncNext \/ AsyncStart
             PROVE  SyncWindow'
  OBVIOUS
<1> USE DEF asyncFrame
<1>t. Len(queue) \in Nat /\ interrupts \in Nat /\ syncSet \in BOOLEAN
  BY LenProperties DEF TypeOK, SessionTypeOK
<1>1. CASE AsyncStart \/ AsyncStop \/ AsyncOther \/ AsyncCompleteSent
           \/ AsyncAcked \/ AsyncTimeout
  BY <1>1, WindowUntouched
  DEF AsyncStart, AsyncStop, AsyncOther, AsyncCompleteSent, AsyncAcked,
      AsyncTimeout
<1>2. ASSUME NEW kind \in AsyncIn,
             AsyncStatusQuery(kind) \/ AsyncRemoteLocal(kind)
      PROVE  SyncWindow'
  BY <1>2, WindowUntouched DEF AsyncStatusQuery, AsyncRemoteLocal
<1>3. CASE AsyncClear
  <2>1. UNCHANGED <<overlapMode, queue, dispPc, recvPc>> /\ StartDeviceClear
    BY <1>3 DEF AsyncClear
  <2>2. Allowed' >= Allowed
    <3>1. CASE syncDone # NoId /\ ~syncSet
      <4>1. interrupts' = interrupts + 1
        BY <2>1, <3>1 DEF StartDeviceClear
      <4> QED BY <1>t, <4>1 DEF Allowed, Awaited
    <3>2. CASE syncDone = NoId \/ syncSet
      <4>1. interrupts' = interrupts
        BY <1>t, <2>1, <3>2 DEF StartDeviceClear
      <4>2. syncSet' = syncSet
        BY <1>t, <2>1, <3>2 DEF StartDeviceClear
      <4> QED BY <1>t, <2>1, <4>1, <4>2 DEF Allowed, Awaited
    <3> QED BY <3>1, <3>2
  <2> QED BY <2>1, <2>2, WindowWider
<1> QED
  BY <1>1, <1>2, <1>3 DEF AsyncNext

\* In sync mode the receive loop is never more than one command ahead of
\* the dispatch loop, but for one more for each device clear that cut its
\* wait short: for every client and every schedule of the three tasks.
THEOREM SyncWindowAlways == Spec => []SyncWindow
<1>1. Init => SyncWindow
  BY DEF Init, SessionInit, SyncWindow, Outstanding, InHand, Awaited
<1>2. TypeOK /\ SyncWindow /\ [Next]_vars => SyncWindow'
  <2> SUFFICES ASSUME TypeOK, SyncWindow, [Next]_vars PROVE SyncWindow'
    OBVIOUS
  <2>1. TypeOK'
    BY TypeStep
  <2>2. CASE ServerNext
    BY <2>1, <2>2, ReceiveWindow, DispatchWindow, AsyncWindow DEF ServerNext
  <2>3. CASE Connect
    BY <2>1, <2>3, AsyncWindow DEF Connect
  <2>4. CASE ClientNext
    <3>1. UNCHANGED clientRest
      BY <2>4
      DEF ClientNext, ClientFragment, ClientCommand, ClientMessage, ClientRead,
          ClientClear, ClientPoll, ClientReadAsync, ClientLeave,
          ClientLeaveAsync
    <3> QED BY <2>1, <3>1, WindowUntouched DEF clientRest
  <2>5. CASE UNCHANGED vars
    BY <2>5 DEF vars, SyncWindow, Outstanding, InHand, Awaited
  <2> QED BY <2>2, <2>3, <2>4, <2>5 DEF Next, Over
<1> QED
  BY <1>1, <1>2, TypeCorrect, PTL DEF Spec

-----------------------------------------------------------------------------
(* What is on its way to the client.  A frame that is sent goes behind the *)
(* frames on their way, and giving up _send_lock moves none of them as     *)
(* long as the client is there.                                            *)

\* The frames of the tasks that wait behind the holder of _send_lock.
Pending(q) == SubSeq([k \in DOMAIN q |-> q[k].frame], 2, Len(q))

\* The frames of the writers that wait, one by one.
LEMMA PendingElements ==
    ASSUME NEW q \in Seq(Writers)
    PROVE  /\ Pending(q) \in Seq(OutFrames)
           /\ Len(q) \in Nat /\ Len(Pending(q)) \in Nat
           /\ Len(q) <= 1 => Len(Pending(q)) = 0
           /\ Len(q) >= 2 => Len(Pending(q)) = Len(q) - 1
           /\ \A k \in 2..Len(q) : Pending(q)[k - 1] = q[k].frame
<1> DEFINE f == [k \in DOMAIN q |-> q[k].frame]
<1>1. Len(q) \in Nat /\ DOMAIN q = 1..Len(q)
  BY LenProperties
<1>2. \A k \in 2..Len(q) : f[k] = q[k].frame /\ f[k] \in OutFrames
  <2> SUFFICES ASSUME NEW k \in 2..Len(q)
               PROVE  f[k] = q[k].frame /\ f[k] \in OutFrames
    OBVIOUS
  <2>1. k \in 1..Len(q)
    BY <1>1
  <2>2. q[k] \in Writers
    BY <2>1, ElementOfSeq
  <2> QED BY <1>1, <2>1, <2>2 DEF Writers
<1>3. Pending(q) = SubSeq(f, 2, Len(q))
  BY DEF Pending
<1> HIDE DEF f
<1>4. /\ Pending(q) \in Seq(OutFrames)
      /\ Len(Pending(q)) = IF 2 <= Len(q) THEN Len(q) - 2 + 1 ELSE 0
      /\ \A k \in 1..(Len(q) - 2 + 1) : Pending(q)[k] = f[2 + k - 1]
  BY <1>1, <1>2, <1>3, SubSeqProperties
<1>5. ASSUME NEW k \in 2..Len(q) PROVE Pending(q)[k - 1] = q[k].frame
  <2>1. k - 1 \in 1..(Len(q) - 2 + 1) /\ 2 + (k - 1) - 1 = k
    BY <1>1, <1>5
  <2>2. Pending(q)[k - 1] = f[2 + (k - 1) - 1]
    BY <1>4, <2>1
  <2> QED BY <1>2, <1>5, <2>1, <2>2
<1>n. Len(q) \in Nat
  BY <1>1
<1>6. Len(q) <= 1 => Len(Pending(q)) = 0
  BY <1>n, <1>4
<1>7. Len(q) >= 2 => Len(Pending(q)) = Len(q) - 1
  BY <1>n, <1>4
<1>8. Len(Pending(q)) \in Nat
  BY <1>4, LenProperties
<1> QED BY <1>1, <1>4, <1>5, <1>6, <1>7, <1>8

\* The frames of the socket, then those of the tasks that wait.
OutgoingOf(o, q) == o \o Pending(q)

\* The frames on their way, written or waiting, one by one.
LEMMA OutgoingElements ==
    ASSUME NEW o \in Seq(OutFrames), NEW q \in Seq(Writers)
    PROVE  /\ OutgoingOf(o, q) \in Seq(OutFrames)
           /\ Len(o) \in Nat /\ Len(q) \in Nat
           /\ Len(q) <= 1 => Len(OutgoingOf(o, q)) = Len(o)
           /\ Len(q) >= 2 => Len(OutgoingOf(o, q)) = Len(o) + Len(q) - 1
           /\ \A k \in 1..Len(o) : OutgoingOf(o, q)[k] = o[k]
           /\ \A k \in 2..Len(q) : OutgoingOf(o, q)[Len(o) + k - 1] = q[k].frame
<1>1. /\ Pending(q) \in Seq(OutFrames)
      /\ Len(o) \in Nat /\ Len(q) \in Nat /\ Len(Pending(q)) \in Nat
      /\ Len(q) <= 1 => Len(Pending(q)) = 0
      /\ Len(q) >= 2 => Len(Pending(q)) = Len(q) - 1
      /\ \A k \in 2..Len(q) : Pending(q)[k - 1] = q[k].frame
  BY PendingElements, LenProperties
<1>2. /\ OutgoingOf(o, q) \in Seq(OutFrames)
      /\ Len(OutgoingOf(o, q)) = Len(o) + Len(Pending(q))
      /\ \A k \in 1..(Len(o) + Len(Pending(q))) :
            OutgoingOf(o, q)[k] = IF k <= Len(o) THEN o[k]
                                  ELSE Pending(q)[k - Len(o)]
  BY <1>1, ConcatProperties DEF OutgoingOf
<1>3. \A k \in 1..Len(o) : OutgoingOf(o, q)[k] = o[k]
  BY <1>1, <1>2
<1>4. ASSUME NEW k \in 2..Len(q)
      PROVE  OutgoingOf(o, q)[Len(o) + k - 1] = q[k].frame
  <2>1. Len(Pending(q)) = Len(q) - 1
    BY <1>1
  <2>2. /\ Len(o) + k - 1 \in 1..(Len(o) + Len(Pending(q)))
        /\ ~(Len(o) + k - 1 <= Len(o)) /\ (Len(o) + k - 1) - Len(o) = k - 1
    BY <1>1, <2>1
  <2>3. OutgoingOf(o, q)[Len(o) + k - 1] = Pending(q)[(Len(o) + k - 1) - Len(o)]
    BY <1>2, <2>2
  <2> QED BY <1>1, <2>2, <2>3
<1>5. Len(q) <= 1 => Len(OutgoingOf(o, q)) = Len(o)
  BY <1>1, <1>2
<1>6. Len(q) >= 2 => Len(OutgoingOf(o, q)) = Len(o) + Len(q) - 1
  BY <1>1, <1>2
<1> QED BY <1>1, <1>2, <1>3, <1>4, <1>5, <1>6

\* They are frames, in a sequence.
LEMMA OutgoingType ==
    ASSUME TypeOK
    PROVE  /\ outSync \in Seq(OutFrames) /\ sendQ \in Seq(Writers)
           /\ Outgoing = OutgoingOf(outSync, sendQ)
           /\ Outgoing \in Seq(OutFrames)
           /\ DOMAIN Outgoing = 1..Len(Outgoing) /\ Len(Outgoing) \in Nat
           /\ \A k \in DOMAIN Outgoing : Outgoing[k] \in OutFrames
<1>1. /\ outSync \in Seq(OutFrames) /\ sendQ \in Seq(Writers)
      /\ Outgoing = OutgoingOf(outSync, sendQ)
  BY DEF TypeOK, SessionTypeOK, Outgoing, OutgoingOf, Pending
<1>2. Outgoing \in Seq(OutFrames)
  BY <1>1, OutgoingElements
<1> QED BY <1>1, <1>2, LenProperties, ElementOfSeq

\* Nothing is on its way at first.
LEMMA NothingSent ==
    outSync = << >> /\ sendQ = << >> => DOMAIN Outgoing = {}
<1> SUFFICES ASSUME outSync = << >>, sendQ = << >> PROVE DOMAIN Outgoing = {}
  OBVIOUS
<1>1. /\ outSync \in Seq(OutFrames) /\ sendQ \in Seq(Writers)
      /\ Len(outSync) = 0 /\ Len(sendQ) = 0
  OBVIOUS
<1>2. Outgoing = OutgoingOf(outSync, sendQ)
  BY DEF Outgoing, OutgoingOf, Pending
<1>3. /\ OutgoingOf(outSync, sendQ) \in Seq(OutFrames)
      /\ Len(sendQ) <= 1 => Len(OutgoingOf(outSync, sendQ)) = Len(outSync)
  BY <1>1, OutgoingElements
<1>4. Len(Outgoing) = 0 /\ Outgoing \in Seq(OutFrames)
  BY <1>1, <1>2, <1>3
<1> QED BY <1>4, LenProperties

\* A frame that is sent becomes the last on its way.
LEMMA SendOutgoing ==
    ASSUME TypeOK, NEW t \in Tasks, NEW f \in OutFrames, Send(t, f)
    PROVE  \/ Outgoing' = Append(Outgoing, f)
           \/ ~connected /\ Outgoing' = Outgoing
<1> DEFINE v == [task |-> t, frame |-> f]
<1>v. v \in Writers /\ v.frame = f
  BY DEF Writers
<1> HIDE DEF v
<1>w. PICK w \in Writers : w = v /\ w.frame = f
  BY <1>v
<1>1. /\ outSync \in Seq(OutFrames) /\ sendQ \in Seq(Writers)
      /\ Outgoing = OutgoingOf(outSync, sendQ)
  BY OutgoingType
<1>2. /\ sendQ' = Append(sendQ, w)
      /\ outSync' = IF sendQ = << >> THEN Wire(f) ELSE outSync
      /\ Outgoing' = OutgoingOf(outSync', sendQ')
  BY <1>w DEF Send, Outgoing, OutgoingOf, Pending, v
<1>3. /\ sendQ' \in Seq(Writers) /\ Len(sendQ') = Len(sendQ) + 1
      /\ Len(sendQ) \in Nat /\ Len(outSync) \in Nat
      /\ \A k \in 1..Len(sendQ) : sendQ'[k] = sendQ[k]
      /\ sendQ'[Len(sendQ) + 1] = w
  BY <1>1, <1>2, AppendProperties, LenProperties
<1>4. /\ Append(outSync, f) \in Seq(OutFrames)
      /\ Len(Append(outSync, f)) = Len(outSync) + 1
      /\ \A k \in 1..Len(outSync) : Append(outSync, f)[k] = outSync[k]
      /\ Append(outSync, f)[Len(outSync) + 1] = f
  BY <1>1, AppendProperties
<1>5. outSync' \in Seq(OutFrames)
  BY <1>1, <1>2, <1>4 DEF Wire
<1>6. /\ Outgoing \in Seq(OutFrames)
      /\ Len(sendQ) <= 1 => Len(Outgoing) = Len(outSync)
      /\ Len(sendQ) >= 2 => Len(Outgoing) = Len(outSync) + Len(sendQ) - 1
      /\ \A k \in 1..Len(outSync) : Outgoing[k] = outSync[k]
      /\ \A k \in 2..Len(sendQ) : Outgoing[Len(outSync) + k - 1] = sendQ[k].frame
  BY <1>1, OutgoingElements
<1>7. /\ Outgoing' \in Seq(OutFrames) /\ Len(outSync') \in Nat
      /\ Len(sendQ') <= 1 => Len(Outgoing') = Len(outSync')
      /\ Len(sendQ') >= 2 => Len(Outgoing') = Len(outSync') + Len(sendQ') - 1
      /\ \A k \in 1..Len(outSync') : Outgoing'[k] = outSync'[k]
      /\ \A k \in 2..Len(sendQ') :
            Outgoing'[Len(outSync') + k - 1] = sendQ'[k].frame
  BY <1>2, <1>3, <1>5, OutgoingElements
<1>8. /\ Append(Outgoing, f) \in Seq(OutFrames)
      /\ Len(Append(Outgoing, f)) = Len(Outgoing) + 1
      /\ \A k \in 1..Len(Outgoing) : Append(Outgoing, f)[k] = Outgoing[k]
      /\ Append(Outgoing, f)[Len(Outgoing) + 1] = f
  BY <1>6, AppendProperties
<1>9. CASE sendQ = << >>
  <2>1. Len(sendQ) = 0 /\ Len(sendQ') = 1
    BY <1>3, <1>9
  <2>2. CASE connected
    <3>1. outSync' = Append(outSync, f)
      BY <1>2, <1>9, <2>2 DEF Wire
    <3>2. Len(Outgoing') = Len(Append(Outgoing, f))
      BY <1>3, <1>4, <1>6, <1>7, <1>8, <2>1, <3>1
    <3>3. \A k \in 1..Len(Outgoing') : Outgoing'[k] = Append(Outgoing, f)[k]
      BY <1>3, <1>4, <1>6, <1>7, <1>8, <2>1, <3>1
    <3> QED BY <1>7, <1>8, <3>2, <3>3, SeqEqual
  <2>3. CASE ~connected
    <3>1. outSync' = outSync
      BY <1>2, <1>9, <2>3 DEF Wire
    <3>2. Len(Outgoing') = Len(Outgoing)
      BY <1>6, <1>7, <2>1, <3>1
    <3>3. \A k \in 1..Len(Outgoing') : Outgoing'[k] = Outgoing[k]
      BY <1>3, <1>6, <1>7, <2>1, <3>1
    <3> QED BY <1>6, <1>7, <2>3, <3>2, <3>3, SeqEqual
  <2> QED BY <2>2, <2>3
<1>10. CASE sendQ # << >>
  <2>1. Len(sendQ) >= 1
    BY <1>1, <1>3, <1>10, EmptySeq
  <2>2. outSync' = outSync
    BY <1>2, <1>10
  <2>3. Len(Outgoing') = Len(Append(Outgoing, f))
    BY <1>3, <1>6, <1>7, <1>8, <2>1, <2>2
  <2>4. ASSUME NEW k \in 1..Len(Outgoing')
        PROVE  Outgoing'[k] = Append(Outgoing, f)[k]
    <3>1. CASE k <= Len(outSync)
      <4>1. k \in 1..Len(outSync) /\ k \in 1..Len(Outgoing)
        BY <1>3, <1>6, <2>1, <3>1
      <4> QED BY <1>6, <1>7, <1>8, <2>2, <4>1
    <3>2. CASE k > Len(outSync) /\ k <= Len(Outgoing)
      <4> DEFINE m == k - Len(outSync) + 1
      <4>1. m \in 2..Len(sendQ) /\ m \in 2..Len(sendQ') /\ m \in 1..Len(sendQ)
            /\ Len(outSync) + m - 1 = k
        BY <1>3, <1>6, <2>1, <3>2
      <4>2. Outgoing[k] = sendQ[m].frame
        BY <1>6, <4>1
      <4>3. Outgoing'[k] = sendQ'[m].frame
        BY <1>7, <2>2, <4>1
      <4>4. sendQ'[m] = sendQ[m]
        BY <1>3, <4>1
      <4>5. k \in 1..Len(Outgoing)
        BY <3>2, <1>3, <1>6
      <4> QED BY <1>8, <4>2, <4>3, <4>4, <4>5
    <3>3. CASE k > Len(Outgoing)
      <4> DEFINE m == Len(sendQ) + 1
      <4>1. k = Len(Outgoing) + 1 /\ m \in 2..Len(sendQ')
            /\ Len(outSync) + m - 1 = k
        BY <1>3, <1>6, <1>8, <2>1, <2>3, <2>4, <3>3
      <4>2. Outgoing'[k] = w.frame
        BY <1>3, <1>7, <2>2, <4>1
      <4>3. Append(Outgoing, f)[k] = f
        BY <1>8, <4>1
      <4> QED BY <1>w, <4>2, <4>3
    <3>4. k \in Nat /\ Len(outSync) \in Nat /\ Len(Outgoing) \in Nat
      BY <1>3, <1>6, LenProperties
    <3>5. \/ k <= Len(outSync)
          \/ k > Len(outSync) /\ k <= Len(Outgoing)
          \/ k > Len(Outgoing)
      BY <3>4
    <3> QED BY <3>1, <3>2, <3>3, <3>5
  <2> QED BY <1>7, <1>8, <2>3, <2>4, SeqEqual
<1> QED BY <1>9, <1>10

\* Every frame of s is one of r, and two of them come in the order they had.
Within(s, r) ==
    /\ \A k \in DOMAIN s : \E m \in DOMAIN r : s[k] = r[m]
    /\ \A j, k \in DOMAIN s : j < k =>
          \E l, m \in DOMAIN r : l < m /\ s[j] = r[l] /\ s[k] = r[m]

\* A writer that goes on changes nothing on the way; on a connection that is
\* closed, frames are only lost.
LEMMA DrainedOutgoing ==
    ASSUME TypeOK, NEW t \in Tasks, Drained(t)
    PROVE  /\ connected => Outgoing' = Outgoing
           /\ Within(Outgoing', Outgoing)
<1>1. /\ outSync \in Seq(OutFrames) /\ sendQ \in Seq(Writers)
      /\ Outgoing = OutgoingOf(outSync, sendQ)
      /\ DOMAIN Outgoing = 1..Len(Outgoing) /\ Len(Outgoing) \in Nat
  BY OutgoingType
<1>2. /\ sendQ # << >> /\ sendQ' = Tail(sendQ)
      /\ outSync' = IF Len(sendQ) > 1 THEN Wire(sendQ[2].frame) ELSE outSync
      /\ Outgoing' = OutgoingOf(outSync', sendQ')
  BY DEF Drained, Outgoing, OutgoingOf, Pending
<1>3. /\ sendQ' \in Seq(Writers) /\ Len(sendQ') = Len(sendQ) - 1
      /\ Len(sendQ) \in Nat \ {0} /\ Len(outSync) \in Nat
      /\ \A k \in 1..(Len(sendQ) - 1) : sendQ'[k] = sendQ[k + 1]
  BY <1>1, <1>2, TailElements, LenProperties
<1>4. outSync' \in Seq(OutFrames)
  BY DrainedType DEF TypeOK
<1>6. /\ Len(sendQ) <= 1 => Len(Outgoing) = Len(outSync)
      /\ Len(sendQ) >= 2 => Len(Outgoing) = Len(outSync) + Len(sendQ) - 1
      /\ \A k \in 1..Len(outSync) : Outgoing[k] = outSync[k]
      /\ \A k \in 2..Len(sendQ) : Outgoing[Len(outSync) + k - 1] = sendQ[k].frame
      /\ Outgoing \in Seq(OutFrames)
  BY <1>1, OutgoingElements
<1>7. /\ Outgoing' \in Seq(OutFrames) /\ Len(outSync') \in Nat
      /\ Len(sendQ') <= 1 => Len(Outgoing') = Len(outSync')
      /\ Len(sendQ') >= 2 => Len(Outgoing') = Len(outSync') + Len(sendQ') - 1
      /\ \A k \in 1..Len(outSync') : Outgoing'[k] = outSync'[k]
      /\ \A k \in 2..Len(sendQ') :
            Outgoing'[Len(outSync') + k - 1] = sendQ'[k].frame
  BY <1>2, <1>3, <1>4, OutgoingElements
<1>8. DOMAIN Outgoing' = 1..Len(Outgoing') /\ Len(Outgoing') \in Nat
  BY <1>7, LenProperties
<1>w. ASSUME Outgoing' = Outgoing PROVE Within(Outgoing', Outgoing)
  BY <1>w, <1>1, <1>8 DEF Within
<1>9. CASE Len(sendQ) = 1
  <2>1. outSync' = outSync /\ Len(sendQ') = 0
    BY <1>2, <1>3, <1>9
  <2>2. Len(Outgoing') = Len(Outgoing)
    BY <1>6, <1>7, <1>9, <2>1
  <2>3. \A k \in 1..Len(Outgoing') : Outgoing'[k] = Outgoing[k]
    BY <1>3, <1>6, <1>7, <1>9, <2>1
  <2>4. Outgoing' = Outgoing
    BY <1>6, <1>7, <2>2, <2>3, SeqEqual
  <2> QED BY <1>w, <2>4
<1>10. CASE Len(sendQ) # 1
  <2>1. Len(sendQ) >= 2 /\ outSync' = Wire(sendQ[2].frame)
    BY <1>2, <1>3, <1>10
  <2>2. sendQ[2].frame \in OutFrames
    <3>1. 2 \in 1..Len(sendQ)
      BY <1>3, <2>1
    <3>2. sendQ[2] \in Writers
      BY <1>1, <3>1, ElementOfSeq
    <3> QED BY <3>2 DEF Writers
  <2>3. CASE connected
    <3>1. /\ Len(outSync') = Len(outSync) + 1
          /\ \A k \in 1..Len(outSync) : outSync'[k] = outSync[k]
          /\ outSync'[Len(outSync) + 1] = sendQ[2].frame
      BY <1>1, <2>1, <2>2, <2>3, AppendProperties DEF Wire
    <3>2. Len(Outgoing') = Len(Outgoing)
      BY <1>3, <1>6, <1>7, <2>1, <3>1
    <3>3. ASSUME NEW k \in 1..Len(Outgoing') PROVE Outgoing'[k] = Outgoing[k]
      <4>1. CASE k <= Len(outSync)
        <5>1. k \in 1..Len(outSync) /\ k \in 1..Len(outSync')
          BY <1>3, <1>8, <3>1, <4>1
        <5> QED BY <1>6, <1>7, <3>1, <5>1
      <4>2. CASE k = Len(outSync) + 1
        <5>1. Outgoing[k] = sendQ[2].frame
          <6>1. 2 \in 2..Len(sendQ) /\ Len(outSync) + 2 - 1 = k
            BY <1>3, <2>1, <4>2
          <6> QED BY <1>6, <6>1
        <5>2. Outgoing'[k] = sendQ[2].frame
          BY <1>3, <1>7, <3>1, <4>2
        <5> QED BY <5>1, <5>2
      <4>3. CASE k > Len(outSync) + 1
        <5> DEFINE m == k - Len(outSync)
        <5>1. /\ m \in 2..Len(sendQ') /\ m + 1 \in 2..Len(sendQ)
              /\ m \in 1..(Len(sendQ) - 1)
              /\ Len(outSync') + m - 1 = k /\ Len(outSync) + (m + 1) - 1 = k
          BY <1>3, <1>6, <2>1, <3>1, <3>2, <3>3, <4>3
        <5>2. Outgoing'[k] = sendQ'[m].frame
          BY <1>7, <5>1
        <5>3. Outgoing[k] = sendQ[m + 1].frame
          BY <1>6, <5>1
        <5>4. sendQ'[m] = sendQ[m + 1]
          BY <1>3, <5>1
        <5> QED BY <5>2, <5>3, <5>4
      <4> QED BY <4>1, <4>2, <4>3, <1>3, <1>8
    <3>4. Outgoing' = Outgoing
      BY <1>6, <1>7, <3>2, <3>3, SeqEqual
    <3> QED BY <1>w, <3>4
  <2>4. CASE ~connected
    <3>1. outSync' = outSync
      BY <2>1, <2>4 DEF Wire
    <3> DEFINE g(k) == IF k <= Len(outSync) THEN k ELSE k + 1
    <3>2. ASSUME NEW k \in DOMAIN Outgoing'
          PROVE  g(k) \in DOMAIN Outgoing /\ Outgoing'[k] = Outgoing[g(k)]
      <4>1. CASE k <= Len(outSync)
        BY <1>1, <1>3, <1>6, <1>7, <1>8, <3>1, <4>1
      <4>2. CASE k > Len(outSync)
        <5> DEFINE m == k - Len(outSync) + 1
        <5>0. /\ k \in Nat /\ Len(sendQ') >= 2
              /\ k <= Len(outSync) + Len(sendQ') - 1
          BY <1>3, <1>7, <1>8, <3>1, <4>2
        <5>a. m \in 2..Len(sendQ') /\ m + 1 \in 2..Len(sendQ)
              /\ m \in 1..(Len(sendQ) - 1)
          BY <1>3, <4>2, <5>0
        <5>b. k + 1 \in 1..Len(Outgoing)
          BY <1>3, <1>6, <2>1, <4>2, <5>0
        <5>1. /\ m \in 2..Len(sendQ') /\ m + 1 \in 2..Len(sendQ)
              /\ m \in 1..(Len(sendQ) - 1)
              /\ Len(outSync') + m - 1 = k /\ Len(outSync) + (m + 1) - 1 = k + 1
              /\ k + 1 \in 1..Len(Outgoing)
          <6>1. Len(outSync') = Len(outSync) /\ Len(outSync) \in Nat
            BY <1>3, <3>1
          <6>2. Len(outSync) + m - 1 = k /\ Len(outSync) + (m + 1) - 1 = k + 1
            BY <5>0, <6>1
          <6> QED BY <5>a, <5>b, <6>1, <6>2
        <5>2. Outgoing'[k] = sendQ'[m].frame
          BY <1>7, <5>1
        <5>3. Outgoing[k + 1] = sendQ[m + 1].frame
          BY <1>6, <5>1
        <5>4. sendQ'[m] = sendQ[m + 1]
          BY <1>3, <5>1
        <5>5. g(k) = k + 1
          BY <1>3, <1>8, <4>2
        <5> QED BY <1>1, <5>1, <5>2, <5>3, <5>4, <5>5
      <4> QED BY <4>1, <4>2, <1>3, <1>8
    <3>3. \A j, k \in DOMAIN Outgoing' : j < k => g(j) < g(k)
      BY <1>3, <1>8
    <3> HIDE DEF g
    <3>4. Within(Outgoing', Outgoing)
      BY <3>2, <3>3 DEF Within
    <3> QED BY <2>4, <3>4
  <2> QED BY <2>3, <2>4
<1> QED BY <1>9, <1>10

\* Reading takes the first of the frames on their way.
LEMMA ReadOutgoing ==
    ASSUME TypeOK, outSync # << >>, outSync' = Tail(outSync), UNCHANGED sendQ
    PROVE  /\ Outgoing # << >> /\ Head(Outgoing) = Head(outSync)
           /\ Outgoing' = Tail(Outgoing)
<1>1. /\ outSync \in Seq(OutFrames) /\ Outgoing = outSync \o Pending(sendQ)
      /\ Pending(sendQ) \in Seq(OutFrames)
  BY OutgoingType, PendingElements DEF OutgoingOf
<1>2. Outgoing' = Tail(outSync) \o Pending(sendQ)
  BY DEF Outgoing, Pending
<1>3. /\ Len(outSync) \in Nat \ {0} /\ Head(outSync) = outSync[1]
      /\ Tail(outSync) \in Seq(OutFrames)
      /\ Len(Tail(outSync)) = Len(outSync) - 1
      /\ \A k \in 1..(Len(outSync) - 1) : Tail(outSync)[k] = outSync[k + 1]
  BY <1>1, TailElements
<1>4. Len(Pending(sendQ)) \in Nat
  BY <1>1, LenProperties
<1>5. /\ Outgoing \in Seq(OutFrames)
      /\ Len(Outgoing) = Len(outSync) + Len(Pending(sendQ))
      /\ \A k \in 1..(Len(outSync) + Len(Pending(sendQ))) :
            Outgoing[k] = IF k <= Len(outSync) THEN outSync[k]
                          ELSE Pending(sendQ)[k - Len(outSync)]
  BY <1>1, ConcatProperties
<1>6. /\ Outgoing' \in Seq(OutFrames)
      /\ Len(Outgoing') = Len(Tail(outSync)) + Len(Pending(sendQ))
      /\ \A k \in 1..(Len(Tail(outSync)) + Len(Pending(sendQ))) :
            Outgoing'[k] = IF k <= Len(Tail(outSync)) THEN Tail(outSync)[k]
                           ELSE Pending(sendQ)[k - Len(Tail(outSync))]
  BY <1>1, <1>2, <1>3, ConcatProperties
<1>7. Len(Outgoing) \in Nat \ {0}
  BY <1>3, <1>4, <1>5
<1>8. Outgoing # << >>
  BY <1>7, EmptySeq
<1>9. /\ Tail(Outgoing) \in Seq(OutFrames) /\ Head(Outgoing) = Outgoing[1]
      /\ Len(Tail(Outgoing)) = Len(Outgoing) - 1
      /\ \A k \in 1..(Len(Outgoing) - 1) : Tail(Outgoing)[k] = Outgoing[k + 1]
  BY <1>5, <1>8, TailElements
<1>10. Outgoing[1] = outSync[1]
  BY <1>3, <1>4, <1>5
<1>11. Len(Outgoing') = Len(Tail(Outgoing))
  BY <1>3, <1>4, <1>5, <1>6, <1>9
<1>12. ASSUME NEW k \in 1..Len(Outgoing') PROVE Outgoing'[k] = Tail(Outgoing)[k]
  <2>1. /\ k \in Nat \ {0} /\ k + 1 \in 1..(Len(outSync) + Len(Pending(sendQ)))
        /\ k \in 1..(Len(Tail(outSync)) + Len(Pending(sendQ)))
        /\ k \in 1..(Len(Outgoing) - 1)
    BY <1>3, <1>4, <1>5, <1>6, <1>9, <1>11, <1>12
  <2>2. Tail(Outgoing)[k] = Outgoing[k + 1]
    BY <1>9, <2>1
  <2>3. CASE k <= Len(outSync) - 1
    <3>1. k \in 1..(Len(outSync) - 1) /\ k + 1 <= Len(outSync)
          /\ k <= Len(Tail(outSync))
      BY <1>3, <2>1, <2>3
    <3>2. Outgoing[k + 1] = outSync[k + 1]
      BY <1>5, <2>1, <3>1
    <3>3. Outgoing'[k] = Tail(outSync)[k]
      BY <1>6, <2>1, <3>1
    <3> QED BY <1>3, <2>2, <3>1, <3>2, <3>3
  <2>4. CASE k > Len(outSync) - 1
    <3>1. /\ ~(k <= Len(Tail(outSync))) /\ ~(k + 1 <= Len(outSync))
          /\ k - Len(Tail(outSync)) = (k + 1) - Len(outSync)
      BY <1>3, <2>1, <2>4
    <3>2. Outgoing[k + 1] = Pending(sendQ)[(k + 1) - Len(outSync)]
      BY <1>5, <2>1, <3>1
    <3>3. Outgoing'[k] = Pending(sendQ)[k - Len(Tail(outSync))]
      BY <1>6, <2>1, <3>1
    <3> QED BY <2>2, <3>1, <3>2, <3>3
  <2>5. k <= Len(outSync) - 1 \/ k > Len(outSync) - 1
    BY <1>3, <2>1
  <2> QED BY <2>3, <2>4, <2>5
<1>13. Outgoing' = Tail(Outgoing)
  BY <1>6, <1>9, <1>11, <1>12, SeqEqual
<1> QED BY <1>3, <1>8, <1>9, <1>10, <1>13

\* A step that neither sends nor delivers leaves them as they are.
LEMMA OutgoingSame == UNCHANGED <<outSync, sendQ>> => Outgoing' = Outgoing
  BY DEF Outgoing

\* A delivery leaves a part of what was on its way.
LEMMA WithinTail ==
    ASSUME NEW S, NEW s \in Seq(S), s # << >>
    PROVE  Within(Tail(s), s)
<1>1. \A k \in DOMAIN Tail(s) :
         k \in Nat /\ k + 1 \in DOMAIN s /\ Tail(s)[k] = s[k + 1]
  BY TailElements
<1>2. \A j, k \in DOMAIN Tail(s) : j < k => j + 1 < k + 1
  BY <1>1
<1> QED BY <1>1, <1>2 DEF Within

\* What happens to the frames on their way in a step that sends none.
LEMMA OutgoingOfStep ==
    ASSUME TypeOK,
           \/ UNCHANGED <<outSync, sendQ>>
           \/ \E t \in Tasks : Drained(t)
           \/ outSync # << >> /\ outSync' = Tail(outSync) /\ UNCHANGED sendQ
    PROVE  Within(Outgoing', Outgoing)
<1>t. DOMAIN Outgoing \subseteq Nat /\ Outgoing \in Seq(OutFrames)
  BY OutgoingType
<1>1. CASE UNCHANGED <<outSync, sendQ>>
  BY <1>1, <1>t, OutgoingSame DEF Within
<1>2. CASE \E t \in Tasks : Drained(t)
  BY <1>2, DrainedOutgoing
<1>3. CASE outSync # << >> /\ outSync' = Tail(outSync) /\ UNCHANGED sendQ
  BY <1>3, <1>t, ReadOutgoing, WithinTail
<1> QED BY <1>1, <1>2, <1>3

-----------------------------------------------------------------------------
(* SyncAnswersInOrder.                                                     *)

\* Id n comes before every command that has not been answered yet.
Behind(n) ==
    /\ n < nextId
    /\ \A j \in DOMAIN toSync : Numbered(toSync[j]) => n < toSync[j].id
    /\ \A j \in DOMAIN queue : n < queue[j]
    /\ dispPc = "run" => n < cur

\* In sync mode, until a clear cuts a wait short.
InStep == ~overlapMode /\ interrupts = 0

AnswersInv ==
    InStep =>
        /\ \A j, k \in DOMAIN Outgoing :
              j < k /\ Outgoing[j].id # NoId /\ Outgoing[k].id # NoId
              => Outgoing[j].id < Outgoing[k].id
        /\ \A k \in DOMAIN Outgoing : Behind(Outgoing[k].id)

\* What was answered stays behind, whatever step is taken.
BehindKept == \A n \in Nat : Behind(n) => Behind(n)'

\* It is preserved by a step that sends nothing ...
LEMMA AnswersKept ==
    ASSUME TypeOK, AnswersInv, Within(Outgoing', Outgoing), BehindKept,
           InStep' => InStep
    PROVE  AnswersInv'
<1> SUFFICES ASSUME InStep'
             PROVE  /\ \A j, k \in DOMAIN Outgoing' :
                          j < k /\ Outgoing'[j].id # NoId
                                /\ Outgoing'[k].id # NoId
                          => Outgoing'[j].id < Outgoing'[k].id
                    /\ \A k \in DOMAIN Outgoing' : Behind(Outgoing[k].id)'
  BY DEF AnswersInv
<1>1. \A k \in DOMAIN Outgoing : Outgoing[k].id \in Nat
  BY OutgoingType, NumbersTyped DEF OutFrames, NoId
<1>2. ASSUME NEW k \in DOMAIN Outgoing' PROVE Behind(Outgoing[k].id)'
  <2>1. PICK m \in DOMAIN Outgoing : Outgoing'[k] = Outgoing[m]
    BY <1>2 DEF Within
  <2>2. PICK n \in Nat : n = Outgoing[m].id
    BY <1>1
  <2>3. Behind(n)'
    BY <2>2 DEF AnswersInv, BehindKept
  <2> QED BY <2>1, <2>2, <2>3 DEF Behind
<1>3. \A j, k \in DOMAIN Outgoing' :
         j < k /\ Outgoing'[j].id # NoId /\ Outgoing'[k].id # NoId
         => Outgoing'[j].id < Outgoing'[k].id
  BY DEF Within, AnswersInv
<1> QED BY <1>2, <1>3

\* ... and by one that sends an answer that comes next.
LEMMA AnswersAdded ==
    ASSUME TypeOK, AnswersInv, NEW t \in Tasks, NEW f \in OutFrames, Send(t, f),
           BehindKept, InStep' => InStep,
           InStep => /\ Behind(f.id)'
                     /\ f.id # NoId =>
                           \A k \in DOMAIN Outgoing : Outgoing[k].id < f.id
    PROVE  AnswersInv'
<1>1. CASE Outgoing' = Outgoing
  <2>1. Within(Outgoing', Outgoing)
    BY <1>1, OutgoingType DEF Within
  <2> QED BY <2>1, AnswersKept
<1>2. CASE Outgoing' = Append(Outgoing, f)
  <2>1. /\ \A k \in DOMAIN Outgoing' : k \in DOMAIN Outgoing \/
              (Outgoing'[k] = f /\ \A j \in DOMAIN Outgoing : j < k)
        /\ \A k \in DOMAIN Outgoing : Outgoing'[k] = Outgoing[k]
        /\ \A j, k \in DOMAIN Outgoing' : j < k => j \in DOMAIN Outgoing
    <3>1. /\ Len(Outgoing) \in Nat
          /\ DOMAIN Outgoing = 1..Len(Outgoing)
          /\ DOMAIN Outgoing' = 1..(Len(Outgoing) + 1)
          /\ Outgoing'[Len(Outgoing) + 1] = f
          /\ \A k \in DOMAIN Outgoing : Outgoing'[k] = Outgoing[k]
          /\ \A k \in DOMAIN Outgoing' : k \in DOMAIN Outgoing \/
                (k = Len(Outgoing) + 1 /\ \A j \in DOMAIN Outgoing : j < k)
      BY <1>2, OutgoingType, AppendElements
    <3>2. \A j, k \in DOMAIN Outgoing' : j < k => j \in DOMAIN Outgoing
      BY <3>1
    <3> QED BY <3>1, <3>2
  <2>2. \A k \in DOMAIN Outgoing : Outgoing[k].id \in Nat
    BY OutgoingType, NumbersTyped DEF OutFrames, NoId
  <2> SUFFICES ASSUME InStep'
               PROVE  /\ \A j, k \in DOMAIN Outgoing' :
                            j < k /\ Outgoing'[j].id # NoId
                                  /\ Outgoing'[k].id # NoId
                            => Outgoing'[j].id < Outgoing'[k].id
                      /\ \A k \in DOMAIN Outgoing' : Behind(Outgoing[k].id)'
    BY DEF AnswersInv
  <2>3. ASSUME NEW k \in DOMAIN Outgoing' PROVE Behind(Outgoing[k].id)'
    <3>1. CASE k \in DOMAIN Outgoing
      <4>1. PICK n \in Nat : n = Outgoing[k].id
        BY <2>2, <3>1
      <4>2. Behind(n)'
        BY <3>1, <4>1 DEF AnswersInv, BehindKept
      <4> QED BY <2>1, <3>1, <4>1, <4>2 DEF Behind
    <3>2. CASE Outgoing'[k] = f
      BY <3>2 DEF Behind
    <3> QED BY <2>1, <3>1, <3>2
  <2>4. ASSUME NEW j \in DOMAIN Outgoing', NEW k \in DOMAIN Outgoing', j < k,
               Outgoing'[j].id # NoId, Outgoing'[k].id # NoId
        PROVE  Outgoing'[j].id < Outgoing'[k].id
    <3>1. j \in DOMAIN Outgoing
      BY <2>1, <2>4
    <3>2. CASE k \in DOMAIN Outgoing
      BY <2>1, <2>4, <3>1, <3>2 DEF AnswersInv
    <3>3. CASE Outgoing'[k] = f
      BY <2>1, <2>4, <3>1, <3>3
    <3> QED BY <2>1, <3>2, <3>3
  <2> QED BY <2>3, <2>4
<1> QED BY <1>1, <1>2, SendOutgoing

\* An answer without an id is behind everything.
LEMMA NoIdBehind ==
    ASSUME TypeOK, OrderInv PROVE Behind(NoId)
<1>1. /\ nextId \in Nat /\ nextId >= 1
      /\ \A k \in DOMAIN queue : queue[k] >= 1
      /\ \A k \in DOMAIN toSync : Numbered(toSync[k]) => toSync[k].id >= 1
      /\ dispPc = "run" => cur >= 1
  BY NumbersTyped, SessionAssumption
  DEF TypeOK, ClientTypeOK, OrderInv, FateAgrees, Ids
<1>2. /\ \A k \in DOMAIN queue : queue[k] \in Nat
      /\ \A k \in DOMAIN toSync : Numbered(toSync[k]) => toSync[k].id \in Nat
      /\ cur \in Nat
  BY NumbersTyped
<1> QED BY <1>1, <1>2 DEF Behind, NoId

\* While the receive loop reads, in step, no command is outstanding.
LEMMA NothingOutstanding ==
    ASSUME TypeOK, SyncWindow, InStep, recvPc = "read"
    PROVE  queue = << >> /\ dispPc \notin {"run", "send"}
<1>1. Len(queue) \in Nat /\ queue \in Seq(Ids)
  BY LenProperties DEF TypeOK, SessionTypeOK
<1>2. Awaited = 0 /\ Outstanding <= 0
  BY DEF SyncWindow, InStep, Awaited
<1>3. InHand \in {0, 1}
  BY DEF InHand
<1>4. Len(queue) = 0 /\ InHand = 0
  BY <1>1, <1>2, <1>3 DEF Outstanding
<1> QED BY <1>1, <1>4, EmptySeq DEF InHand

\* Reading the socket keeps the answers behind it.
LEMMA BehindTail ==
    ASSUME TypeOK, toSync # << >>, toSync' = Tail(toSync),
           UNCHANGED <<queue, cur, dispPc, nextId>>
    PROVE  BehindKept
<1>1. \A k \in DOMAIN toSync' :
         k + 1 \in DOMAIN toSync /\ toSync'[k] = toSync[k + 1]
  BY TailElements DEF TypeOK, SessionTypeOK
<1> QED BY <1>1 DEF BehindKept, Behind, Numbered

\* What can still be answered stays where it is.
LEMMA BehindSame == UNCHANGED <<toSync, queue, cur, dispPc, nextId>> => BehindKept
  BY DEF BehindKept, Behind

\* Every step of the receive loop keeps the answers in order.
LEMMA ReceiveAnswers ==
    TypeOK /\ OrderInv /\ SyncWindow /\ AnswersInv /\ ReceiveNext
    /\ UNCHANGED clientVars => AnswersInv'
<1> SUFFICES ASSUME TypeOK, OrderInv, SyncWindow, AnswersInv, ReceiveNext,
                    UNCHANGED clientVars
             PROVE  AnswersInv'
  OBVIOUS
<1> USE DEF recvFrame
<1>i. InStep' => InStep
  BY DEF ReceiveNext, RecvData, RecvCommand, RecvOverflow, RecvWake,
         RecvTrigger, RecvOther, RecvSent, RecvClearAck, RecvClsDone,
         RecvClsSent, RecvStop, RunClose, InStep
<1>1. CASE RecvData
  <2>1. BehindKept
    BY <1>1, BehindTail DEF RecvData, Receive
  <2>2. Within(Outgoing', Outgoing)
    BY <1>1, OutgoingOfStep DEF RecvData
  <2> QED BY <1>i, <2>1, <2>2, AnswersKept
<1>2. CASE RecvCommand
  <2> DEFINE i == Head(toSync).id
  <2>1. /\ i \in Ids /\ 1 \in DOMAIN toSync /\ Head(toSync) = toSync[1]
        /\ Numbered(toSync[1])
        /\ \A k \in DOMAIN toSync' :
              k + 1 \in DOMAIN toSync /\ toSync'[k] = toSync[k + 1]
    BY <1>2, HeadOrder DEF RecvCommand, SyncIn, Numbered
  <2>2. /\ queue' = Append(queue, i) /\ UNCHANGED <<cur, dispPc, nextId>>
    BY <1>2 DEF RecvCommand
  <2>3. /\ \A k \in DOMAIN queue' : k \in DOMAIN queue \/ queue'[k] = i
        /\ \A k \in DOMAIN queue : queue'[k] = queue[k]
    BY <2>1, <2>2, AppendElements DEF TypeOK, SessionTypeOK
  <2>4. BehindKept
    BY <2>1, <2>2, <2>3 DEF BehindKept, Behind, Numbered
  <2>5. Within(Outgoing', Outgoing)
    BY <1>2, OutgoingOfStep DEF RecvCommand
  <2> QED BY <1>i, <2>4, <2>5, AnswersKept
<1>3. CASE RecvOverflow
  <2>1. BehindKept
    BY <1>3, BehindTail DEF RecvOverflow, Receive
  <2>2. ~InStep
    <3>1. QueueFull /\ recvPc = "read"
      BY <1>3 DEF RecvOverflow, Receive
    <3>2. queue # << >>
      BY <3>1, SessionAssumption, EmptySeq DEF QueueFull
    <3> QED BY <3>1, <3>2, NothingOutstanding
  <2>3. Frame("overflow", Head(toSync).id) \in OutFrames
    BY <1>3, ReceiveType, FrameType DEF RecvOverflow, TypeOK, SyncIn, SyncOut
  <2>4. Send("recv", Frame("overflow", Head(toSync).id))
    BY <1>3 DEF RecvOverflow
  <2> QED BY <1>i, <2>1, <2>2, <2>3, <2>4, AnswersAdded DEF Tasks
<1>4. CASE RecvTrigger
  <2> DEFINE i == Head(toSync).id
  <2>1. BehindKept
    BY <1>4, BehindTail DEF RecvTrigger, Receive
  <2>2. /\ i \in Ids /\ i < nextId
        /\ 1 \in DOMAIN toSync /\ Head(toSync) = toSync[1]
        /\ Numbered(toSync[1])
        /\ \A k \in DOMAIN toSync' : Numbered(toSync'[k]) => i < toSync'[k].id
    BY <1>4, HeadOrder DEF RecvTrigger, SyncIn, Numbered
  <2>3. PICK f \in OutFrames : f.id = i /\ Send("recv", f)
    BY <1>4, <2>2, FrameType DEF RecvTrigger, SyncOut, Frame
  <2>4. UNCHANGED <<queue, dispPc, nextId>> /\ recvPc = "read"
    BY <1>4 DEF RecvTrigger, Receive
  <2>5. ASSUME InStep
        PROVE  /\ Behind(f.id)'
               /\ \A k \in DOMAIN Outgoing : Outgoing[k].id < f.id
    <3>1. queue' = << >> /\ dispPc' # "run"
      BY <2>4, <2>5, NothingOutstanding
    <3>2. Behind(f.id)'
      BY <2>2, <2>3, <2>4, <3>1 DEF Behind, Numbered
    <3>3. \A k \in DOMAIN Outgoing : Outgoing[k].id < f.id
      BY <2>2, <2>3, <2>5 DEF AnswersInv, Behind
    <3> QED BY <3>2, <3>3
  <2> QED BY <1>i, <2>1, <2>3, <2>5, AnswersAdded DEF Tasks
<1>5. CASE RecvOther \/ RecvClsDone
  <2>1. BehindKept
    <3>1. CASE RecvOther
      BY <3>1, BehindTail DEF RecvOther, Receive
    <3>2. CASE RecvClsDone
      BY <3>2, BehindSame DEF RecvClsDone
    <3> QED BY <1>5, <3>1, <3>2
  <2>2. PICK k \in {"error", "reply"} : Send("recv", Frame(k, NoId))
    BY <1>5 DEF RecvOther, RecvClsDone
  <2>3. Frame(k, NoId) \in OutFrames /\ Frame(k, NoId).id = NoId
    BY <2>2, FrameType DEF SyncOut, Frame
  <2>4. Behind(NoId)'
    BY <2>1, NoIdBehind DEF BehindKept, NoId
  <2> QED BY <1>i, <2>1, <2>2, <2>3, <2>4, AnswersAdded DEF Tasks, Behind
<1>6. CASE RecvSent \/ RecvClsSent
  <2>1. BehindKept
    BY <1>6, BehindSame DEF RecvSent, RecvClsSent
  <2>2. Drained("recv")
    BY <1>6 DEF RecvSent, RecvClsSent
  <2>3. Within(Outgoing', Outgoing)
    BY <2>2, OutgoingOfStep DEF Tasks
  <2> QED BY <1>i, <2>1, <2>3, AnswersKept
<1>7. CASE RecvWake \/ RecvStop \/ RunClose
  <2>1. BehindKept
    BY <1>7, BehindSame DEF RecvWake, RecvStop, RunClose
  <2>2. Within(Outgoing', Outgoing)
    BY <1>7, OutgoingOfStep DEF RecvWake, RecvStop, RunClose
  <2> QED BY <1>i, <2>1, <2>2, AnswersKept
<1>8. CASE RecvClearAck
  <2>1. /\ queue' = << >> /\ toSync # << >> /\ toSync' = Tail(toSync)
        /\ UNCHANGED <<cur, dispPc, nextId>>
    BY <1>8 DEF RecvClearAck, Receive, DrainQueue
  <2>2. \A k \in DOMAIN toSync' :
           k + 1 \in DOMAIN toSync /\ toSync'[k] = toSync[k + 1]
    BY <2>1, TailElements DEF TypeOK, SessionTypeOK
  <2>3. BehindKept
    BY <2>1, <2>2 DEF BehindKept, Behind, Numbered
  <2>4. Within(Outgoing', Outgoing)
    BY <1>8, OutgoingOfStep DEF RecvClearAck
  <2> QED BY <1>i, <2>3, <2>4, AnswersKept
<1> QED
  BY <1>1, <1>2, <1>3, <1>4, <1>5, <1>6, <1>7, <1>8 DEF ReceiveNext

\* Every step of the dispatch loop keeps the answers in order.
LEMMA DispatchAnswers ==
    TypeOK /\ OrderInv /\ AnswersInv /\ DispatchNext /\ UNCHANGED clientVars
    => AnswersInv'
<1> SUFFICES ASSUME TypeOK, OrderInv, AnswersInv, DispatchNext,
                    UNCHANGED clientVars
             PROVE  AnswersInv'
  OBVIOUS
<1> USE DEF dispFrame
<1>i. InStep' => InStep
  BY DEF DispatchNext, DispRun, DispSkip, DispStop, DispFinish, DispReplied,
         InStep
<1>1. CASE DispRun \/ DispSkip
  <2>1. queue # << >> /\ Take /\ UNCHANGED <<toSync, nextId, sendVars>>
    BY <1>1 DEF DispRun, DispSkip
  <2>2. /\ 1 \in DOMAIN queue /\ Head(queue) = queue[1]
        /\ \A k \in DOMAIN queue' :
              k + 1 \in DOMAIN queue /\ queue'[k] = queue[k + 1]
    BY <2>1, TakeElements
  <2>3. \/ cur' = Head(queue)
        \/ dispPc' = dispPc /\ cur' = cur
    BY <1>1 DEF DispRun, DispSkip
  <2>4. BehindKept
    BY <2>1, <2>2, <2>3 DEF BehindKept, Behind
  <2>5. Within(Outgoing', Outgoing)
    BY <2>1, OutgoingOfStep
  <2> QED BY <1>i, <2>4, <2>5, AnswersKept
<1>2. CASE DispStop
  <2>1. BehindKept
    BY <1>2 DEF DispStop, BehindKept, Behind
  <2>2. Within(Outgoing', Outgoing)
    BY <1>2, OutgoingOfStep DEF DispStop
  <2> QED BY <1>i, <2>1, <2>2, AnswersKept
<1>3. ASSUME NEW outcome \in Outcomes, DispFinish(outcome) PROVE AnswersInv'
  <2>0. dispPc = "run" /\ dispPc' # "run"
        /\ UNCHANGED <<queue, cur, toSync, nextId>>
    <3>1. dispPc' \in {"send", "get", "crashed"}
      BY <1>3, OutcomesAssumption DEF DispFinish
    <3> QED BY <1>3, <3>1 DEF DispFinish
  <2>1. BehindKept
    BY <2>0 DEF BehindKept, Behind
  <2>2. CASE outcome = "reply"
    <3>1. PICK f \in OutFrames : f.id = cur /\ Send("disp", f)
      BY <1>3, <2>2, FrameType
      DEF DispFinish, SyncOut, Frame, TypeOK, SessionTypeOK
    <3>2. Behind(f.id)'
      BY <2>0, <3>1 DEF Behind, OrderInv, QueueOrder
    <3>3. InStep => \A k \in DOMAIN Outgoing : Outgoing[k].id < f.id
      BY <2>0, <3>1 DEF AnswersInv, Behind
    <3> QED BY <1>i, <2>1, <3>1, <3>2, <3>3, AnswersAdded DEF Tasks
  <2>3. CASE outcome # "reply"
    <3>1. UNCHANGED sendVars
      BY <1>3, <2>3, OutcomesAssumption DEF DispFinish
    <3>2. Within(Outgoing', Outgoing)
      BY <3>1, OutgoingOfStep
    <3> QED BY <1>i, <2>1, <3>2, AnswersKept
  <2> QED BY <2>2, <2>3
<1>4. CASE DispReplied
  <2>1. BehindKept
    BY <1>4 DEF DispReplied, BehindKept, Behind
  <2>2. Within(Outgoing', Outgoing)
    BY <1>4, OutgoingOfStep DEF DispReplied, Tasks
  <2> QED BY <1>i, <2>1, <2>2, AnswersKept
<1> QED BY <1>1, <1>2, <1>3, <1>4 DEF DispatchNext

\* Every step of the channel keeps the answers in order.
LEMMA AsyncAnswers ==
    TypeOK /\ OrderInv /\ AnswersInv /\ (AsyncNext \/ AsyncStart)
    /\ UNCHANGED clientVars => AnswersInv'
<1> SUFFICES ASSUME TypeOK, OrderInv, AnswersInv, AsyncNext \/ AsyncStart,
                    UNCHANGED clientVars
             PROVE  AnswersInv'
  OBVIOUS
<1> USE DEF asyncFrame
<1>k. BehindKept
  <2>1. UNCHANGED <<toSync, queue, cur, dispPc, nextId>>
    BY DEF AsyncNext, AsyncStart, AsyncStop, AsyncStatusQuery,
           AsyncRemoteLocal, AsyncOther, AsyncClear, AsyncCompleteSent,
           AsyncAcked, AsyncTimeout
  <2> QED BY <2>1, BehindSame
<1>1. CASE AsyncClear
  <2>1. InStep' => InStep
    <3>1. interrupts \in Nat
      BY DEF TypeOK, SessionTypeOK
    <3>2. interrupts' \in {interrupts, interrupts + 1}
      BY <1>1, <3>1 DEF AsyncClear, StartDeviceClear
    <3>3. overlapMode' = overlapMode
      BY <1>1 DEF AsyncClear
    <3>4. interrupts' = 0 => interrupts = 0
      BY <3>1, <3>2
    <3> QED BY <3>3, <3>4 DEF InStep
  <2>2. CASE SyncOpen
    <3>1. Send("async", Frame("complete", NoId))
      BY <1>1, <2>2 DEF AsyncClear
    <3>2. /\ Frame("complete", NoId) \in OutFrames
          /\ Frame("complete", NoId).id = NoId
      BY FrameType DEF SyncOut, Frame
    <3>3. Behind(NoId)'
      BY <1>k, NoIdBehind DEF BehindKept, NoId
    <3> QED BY <1>k, <2>1, <3>1, <3>2, <3>3, AnswersAdded DEF Tasks, Behind
  <2>3. CASE ~SyncOpen
    <3>1. Within(Outgoing', Outgoing)
      BY <1>1, <2>3, OutgoingOfStep DEF AsyncClear
    <3> QED BY <1>k, <2>1, <3>1, AnswersKept
  <2> QED BY <2>2, <2>3
<1>2. CASE AsyncCompleteSent
  <2>1. Within(Outgoing', Outgoing)
    BY <1>2, OutgoingOfStep DEF AsyncCompleteSent, Tasks
  <2>2. InStep' => InStep
    BY <1>2 DEF AsyncCompleteSent, InStep
  <2> QED BY <1>k, <2>1, <2>2, AnswersKept
<1>3. CASE UNCHANGED <<sendVars, interrupts, overlapMode>>
  <2>1. Within(Outgoing', Outgoing)
    BY <1>3, OutgoingOfStep
  <2>2. InStep' => InStep
    BY <1>3 DEF InStep
  <2> QED BY <1>k, <2>1, <2>2, AnswersKept
<1>4. AsyncClear \/ AsyncCompleteSent
      \/ UNCHANGED <<sendVars, interrupts, overlapMode>>
  BY DEF AsyncNext, AsyncStart, AsyncStop, AsyncStatusQuery, AsyncRemoteLocal,
         AsyncOther, AsyncAcked, AsyncTimeout
<1> QED BY <1>1, <1>2, <1>3, <1>4

\* What the client sends next comes after every answer.
LEMMA BehindPut ==
    ASSUME TypeOK, NEW k \in SyncIn \ {"clearAck"}, MaySend, Put(k),
           nextId' \in {nextId, nextId + 1}, UNCHANGED <<queue, cur, dispPc>>
    PROVE  BehindKept
<1>1. nextId \in Nat /\ nextId \in Ids
  BY SessionAssumption DEF TypeOK, ClientTypeOK, MaySend, Ids
<1>2. PICK f \in InFrames : f.id = nextId /\ toSync' = Append(toSync, f)
  <2>1. Frame(k, nextId) \in InFrames
    BY <1>1 DEF Frame, InFrames
  <2> QED BY <2>1 DEF Put, Frame
<1>3. \A m \in DOMAIN toSync' :
         \/ m \in DOMAIN toSync /\ toSync'[m] = toSync[m]
         \/ toSync'[m] = f
  BY <1>2, AppendElements DEF TypeOK, SessionTypeOK
<1>4. \A n \in Nat : n < nextId => n < nextId'
  BY <1>1
<1> QED BY <1>2, <1>3, <1>4 DEF BehindKept, Behind, Numbered

\* Every step of the client keeps the answers in order.
LEMMA ClientAnswers ==
    TypeOK /\ OrderInv /\ AnswersInv /\ ClientNext => AnswersInv'
<1> SUFFICES ASSUME TypeOK, OrderInv, AnswersInv, ClientNext PROVE AnswersInv'
  OBVIOUS
<1> USE DEF clientRest
<1>i. InStep' => InStep
  BY DEF ClientNext, ClientFragment, ClientCommand, ClientMessage, ClientRead,
         ClientClear, ClientPoll, ClientReadAsync, ClientLeave,
         ClientLeaveAsync, InStep
<1>1. CASE \/ ClientFragment \/ ClientCommand
           \/ \E kind \in {"trigger", "other", "bad"} : ClientMessage(kind)
  <2>1. PICK k \in SyncIn \ {"clearAck"} : Put(k)
    BY <1>1 DEF ClientFragment, ClientCommand, ClientMessage, SyncIn
  <2>2. /\ MaySend /\ nextId' \in {nextId, nextId + 1}
        /\ UNCHANGED <<queue, cur, dispPc, outSync, sendQ>>
    BY <1>1 DEF ClientFragment, ClientCommand, ClientMessage
  <2>3. BehindKept
    BY <2>1, <2>2, BehindPut
  <2>4. Within(Outgoing', Outgoing)
    BY <2>2, OutgoingOfStep
  <2> QED BY <1>i, <2>3, <2>4, AnswersKept
<1>2. CASE ClientRead
  <2>1. Within(Outgoing', Outgoing)
    BY <1>2, OutgoingOfStep DEF ClientRead
  <2>2. UNCHANGED <<queue, cur, dispPc, nextId>>
    BY <1>2 DEF ClientRead
  <2>3. \A m \in DOMAIN toSync' :
           \/ m \in DOMAIN toSync /\ toSync'[m] = toSync[m]
           \/ ~Numbered(toSync'[m])
    <3>1. CASE toSync' = toSync
      BY <3>1
    <3>2. CASE toSync' = Append(toSync, Frame("clearAck", NoId))
      <4>1. Frame("clearAck", NoId) \in InFrames
        BY DEF InFrames
      <4>2. ~Numbered(Frame("clearAck", NoId))
        BY DEF Frame, Numbered
      <4> QED BY <3>2, <4>1, <4>2, AppendElements DEF TypeOK, SessionTypeOK
    <3> QED BY <1>2, <3>1, <3>2 DEF ClientRead
  <2>4. BehindKept
    BY <2>2, <2>3 DEF BehindKept, Behind, Numbered
  <2> QED BY <1>i, <2>1, <2>4, AnswersKept
<1>3. CASE ClientClear
  <2>1. Within(Outgoing', Outgoing)
    BY <1>3, OutgoingOfStep DEF ClientClear
  <2>2. nextId \in Nat /\ nextId' \in {nextId, nextId + 1}
    BY <1>3, NumbersTyped DEF ClientClear
  <2>3. \A n \in Nat : n < nextId => n < nextId'
    BY <2>2
  <2>4. BehindKept
    BY <1>3, <2>3 DEF ClientClear, BehindKept, Behind
  <2> QED BY <1>i, <2>1, <2>4, AnswersKept
<1>4. CASE \/ \E kind \in AsyncKinds : ClientPoll(kind)
           \/ ClientReadAsync \/ ClientLeave \/ ClientLeaveAsync
  <2>1. UNCHANGED <<toSync, queue, cur, dispPc, nextId, outSync, sendQ>>
    BY <1>4 DEF ClientPoll, ClientReadAsync, ClientLeave, ClientLeaveAsync
  <2> QED BY <1>i, <2>1, BehindSame, OutgoingOfStep, AnswersKept
<1> QED BY <1>1, <1>2, <1>3, <1>4 DEF ClientNext

\* Every step keeps the answers in order.
LEMMA AnswersStep ==
    TypeOK /\ OrderInv /\ SyncWindow /\ AnswersInv /\ [Next]_vars => AnswersInv'
<1> SUFFICES ASSUME TypeOK, OrderInv, SyncWindow, AnswersInv, [Next]_vars
             PROVE  AnswersInv'
  OBVIOUS
<1>1. CASE ServerNext
  BY <1>1, ReceiveAnswers, DispatchAnswers, AsyncAnswers DEF ServerNext
<1>2. CASE Connect
  BY <1>2, AsyncAnswers DEF Connect
<1>3. CASE ClientNext
  BY <1>3, ClientAnswers
<1>4. CASE UNCHANGED vars
  <2>1. Within(Outgoing', Outgoing) /\ BehindKept
    BY <1>4, OutgoingOfStep, BehindSame DEF vars
  <2>2. InStep' => InStep
    BY <1>4 DEF vars, InStep
  <2> QED BY <2>1, <2>2, AnswersKept
<1> QED BY <1>1, <1>2, <1>3, <1>4 DEF Next, Over

\* In sync mode, as long as no device clear has cut a wait of the receive
\* loop short, the client's socket carries the answers in the order of the
\* commands, TRIGGER and overflow errors among them: for every queue depth,
\* every send window and every schedule of the three tasks.
THEOREM AnswersInOrder == Spec => []SyncAnswersInOrder
<1>1. Init => AnswersInv
  BY NothingSent DEF AnswersInv, Init, SessionInit
<1>2. TypeOK /\ OrderInv /\ SyncWindow /\ AnswersInv /\ [Next]_vars
      => AnswersInv'
  BY AnswersStep
<1>3. AnswersInv => SyncAnswersInOrder
  BY DEF AnswersInv, SyncAnswersInOrder, InStep
<1> QED BY <1>1, <1>2, <1>3, OrderAlways, SyncWindowAlways, PTL DEF Spec
===============================================================================
