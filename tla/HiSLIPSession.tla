---------------------------- MODULE HiSLIPSession ----------------------------
(***************************************************************************)
(* The two tasks of hislip_session.py: run() with its _receive_loop, and   *)
(* the _dispatch_loop it starts and awaits.  The session begins where the  *)
(* handshake has succeeded (HiSLIPServer models the handshake).            *)
(***************************************************************************)
EXTENDS SessionState

CONSTANT Outcomes   \* subset of {"reply", "silent", "crash"}: see DispFinish

ASSUME OutcomesAssumption == Outcomes \subseteq {"reply", "silent", "crash"}

-----------------------------------------------------------------------------
(* The receive loop.                                                       *)

Receive(kind) ==
    /\ recvPc = "read"
    /\ toSync # << >>
    /\ Head(toSync).kind = kind
    /\ toSync' = Tail(toSync)

recvFrame == <<overlapMode, sentinel, statusVars, dispVars, asyncVars,
               connected, histVars>>

\* DATA: a fragment of a command joins the buffer.
RecvData ==
    /\ Receive("data")
    /\ cmdBuf' = cmdBuf \cup {Head(toSync).id}
    /\ UNCHANGED <<recvFrame, queue, body, fate, doneVars, clearVars, sendVars,
                   recvPc>>

\* DATA_END: the buffer and this payload are the command's text.
TakeBuffer(i) ==
    /\ cmdBuf' = {}
    /\ body' = [body EXCEPT ![i] = cmdBuf \cup {i}]

\* Fault: the receive loop does not wait in sync mode either.
AfterPutGoesOn(i) == UNCHANGED <<doneVars, recvPc>>

\* The receive loop goes on at once in overlap mode; in sync mode it waits
\* on a fresh event that the dispatch loop sets.
AfterPut(i) ==
    IF overlapMode
    THEN UNCHANGED <<doneVars, recvPc>>
    ELSE syncDone' = i /\ syncSet' = FALSE /\ recvPc' = "waitDone"

RecvCommand ==
    /\ Receive("dataEnd")
    /\ ~QueueFull
    /\ LET i == Head(toSync).id IN
         /\ TakeBuffer(i)
         /\ queue' = Append(queue, i)
         /\ fate' = [fate EXCEPT ![i] = "queued"]
         /\ AfterPut(i)
    /\ UNCHANGED <<recvFrame, clearVars, sendVars>>

RecvOverflow ==
    /\ Receive("dataEnd")
    /\ QueueFull
    /\ LET i == Head(toSync).id IN
         /\ TakeBuffer(i)
         /\ fate' = [fate EXCEPT ![i] = "rejected"]
         /\ Send("recv", Frame("overflow", i))
    /\ recvPc' = "send"
    /\ UNCHANGED <<recvFrame, queue, doneVars, clearVars>>

\* done.wait() returns; _current_sync_done = None and the event is dropped.
RecvWake ==
    /\ recvPc = "waitDone" /\ syncSet
    /\ recvPc' = "read" /\ syncDone' = NoId /\ syncSet' = FALSE
    /\ UNCHANGED <<recvFrame, toSync, queue, body, fate, cmdBuf, clearVars,
                   sendVars>>

\* TRIGGER: the callback runs in the loop, ahead of any command waiting.
RecvTrigger ==
    /\ Receive("trigger")
    /\ Send("recv", Frame("reply", Head(toSync).id))
    /\ recvPc' = "send"
    /\ UNCHANGED <<recvFrame, queue, body, fate, cmdBuf, doneVars, clearVars>>

\* Any other message type is answered with an error.
RecvOther ==
    /\ Receive("other")
    /\ Send("recv", Frame("error", NoId))
    /\ recvPc' = "send"
    /\ UNCHANGED <<recvFrame, queue, body, fate, cmdBuf, doneVars, clearVars>>

RecvSent ==
    /\ recvPc = "send" /\ Drained("recv")
    /\ recvPc' = "read"
    /\ UNCHANGED <<recvFrame, toSync, queue, body, fate, cmdBuf, doneVars,
                   clearVars>>

\* Fault: the commands waiting stay in the queue.
DrainQueueForgotten == UNCHANGED <<queue, fate>>

\* DEVICE_CLEAR_ACK: the commands waiting are dropped.  The events set on
\* the way are nobody's: the receive loop is here, not in done.wait().
DrainQueue ==
    /\ queue' = << >>
    /\ fate' = [i \in Ids |-> IF \E k \in DOMAIN queue : queue[k] = i
                              THEN "flushed" ELSE fate[i]]

\* Fault: the buffer survives the clear.
ClearBufferForgotten == UNCHANGED cmdBuf

ClearBuffer == cmdBuf' = {}

\* Fault: the commands that follow the clear are passed over too.
EndPendingForgotten == UNCHANGED clearPending

EndPending == clearPending' = FALSE

RecvClearAck ==
    /\ Receive("clearAck")
    /\ DrainQueue
    /\ ClearBuffer
    /\ EndPending
    /\ recvPc' = "cls"
    /\ UNCHANGED <<recvFrame, body, doneVars, clearDone, sendVars>>

\* *CLS has run in an executor thread; its "OK" goes out under message id 0.
RecvClsDone ==
    /\ recvPc = "cls"
    /\ Send("recv", Frame("reply", NoId))
    /\ recvPc' = "clsSend"
    /\ UNCHANGED <<recvFrame, toSync, queue, body, fate, cmdBuf, doneVars,
                   clearVars>>

RecvClsSent ==
    /\ recvPc = "clsSend" /\ Drained("recv")
    /\ clearDone' = TRUE
    /\ recvPc' = "read"
    /\ UNCHANGED <<recvFrame, toSync, queue, body, fate, cmdBuf, doneVars,
                   clearPending>>

\* Fault: the dispatch loop is never told to stop.
PutSentinelForgotten == sentinel' = FALSE

\* End of file, a reset connection or a malformed frame ends the loop.  The
\* sentinel is put behind the commands, and given up if the queue is full.
PutSentinel == sentinel' = ~QueueFull

RecvStop ==
    /\ recvPc = "read"
    /\ \/ ~connected
       \/ toSync # << >> /\ Head(toSync).kind = "bad"
    /\ PutSentinel
    /\ recvPc' = "join"
    /\ UNCHANGED <<overlapMode, statusVars, dispVars, asyncVars, connected,
                   histVars, toSync, queue, body, fate, cmdBuf, doneVars,
                   clearVars, sendVars>>

\* await dispatch_task returns, or raises what killed the task; either way
\* sync_open is cleared and the socket closed.
RunClose ==
    /\ recvPc = "join" /\ dispPc \in {"stopped", "crashed"}
    /\ recvPc' = "closed" /\ connected' = FALSE
    /\ UNCHANGED <<overlapMode, sentinel, statusVars, dispVars, asyncVars,
                   histVars, toSync, queue, body, fate, cmdBuf, doneVars,
                   clearVars, sendVars>>

ReceiveNext ==
    \/ RecvData \/ RecvCommand \/ RecvOverflow \/ RecvWake
    \/ RecvTrigger \/ RecvOther \/ RecvSent
    \/ RecvClearAck \/ RecvClsDone \/ RecvClsSent
    \/ RecvStop \/ RunClose

-----------------------------------------------------------------------------
(* The dispatch loop.                                                      *)

dispFrame == <<overlapMode, sentinel, clearVars, recvVars, body, toSync,
               connected, toAsync, aConnected, asyncPc, remoteMode, histVars>>

\* Fault: the newest command leaves the queue.
TakeNewest == queue' = SubSeq(queue, 1, Len(queue) - 1)

\* queue.get() returns a command: it is run, or, while a device clear is
\* pending, passed over with its event set.
Take == queue' = Tail(queue)

DispRun ==
    /\ dispPc = "get" /\ queue # << >> /\ ~clearPending
    /\ Take
    /\ cur' = Head(queue)
    /\ fate' = [fate EXCEPT ![Head(queue)] = "running"]
    /\ dispPc' = "run"
    /\ UNCHANGED <<dispFrame, doneVars, sendVars, mav, outAsync>>

DispSkip ==
    /\ dispPc = "get" /\ queue # << >> /\ clearPending
    /\ Take
    /\ fate' = [fate EXCEPT ![Head(queue)] = "skipped"]
    /\ Signal(Head(queue))
    /\ UNCHANGED <<dispFrame, dispVars, sendVars, mav, outAsync>>

\* Fault: the dispatch loop stops as soon as it is told to.
SentinelFirst == sentinel

\* queue.get() returns the sentinel.
SentinelNext == queue = << >> /\ sentinel

DispStop ==
    /\ dispPc = "get" /\ SentinelNext
    /\ dispPc' = "stopped"
    /\ UNCHANGED <<dispFrame, cur, queue, fate, doneVars, sendVars, mav,
                   outAsync>>

\* _dispatch_command returns a text (an answer or an error), returns the
\* empty text, or the task dies: of a CancelledError, or of encode() on a
\* handler's result that is no text.
DispFinish(outcome) ==
    /\ dispPc = "run" /\ outcome \in Outcomes
    /\ CASE outcome = "reply" ->
              /\ dispPc' = "send"
              /\ Send("disp", Frame("reply", cur))
              /\ UNCHANGED <<fate, doneVars>>
         [] outcome = "silent" ->
              /\ dispPc' = "get"
              /\ fate' = [fate EXCEPT ![cur] = "silent"]
              /\ Signal(cur)
              /\ UNCHANGED sendVars
         [] outcome = "crash" ->
              /\ dispPc' = "crashed"
              /\ fate' = [fate EXCEPT ![cur] = "crashed"]
              /\ UNCHANGED <<doneVars, sendVars>>
    /\ UNCHANGED <<dispFrame, cur, queue, mav, outAsync>>

\* _emit_srq: one 16-byte frame on the async socket, if there is one.
EmitSrq ==
    outAsync' = IF AsyncOpen /\ aConnected
                THEN Append(outAsync, AFrame("srq", TRUE)) ELSE outAsync

DispReplied ==
    /\ dispPc = "send" /\ Drained("disp")
    /\ mav' = TRUE
    /\ EmitSrq
    /\ fate' = [fate EXCEPT ![cur] = "replied"]
    /\ Signal(cur)
    /\ dispPc' = "get"
    /\ UNCHANGED <<dispFrame, cur, queue>>

DispatchNext ==
    \/ DispRun \/ DispSkip \/ DispStop
    \/ \E outcome \in Outcomes : DispFinish(outcome)
    \/ DispReplied
=============================================================================
