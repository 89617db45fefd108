---------------------------- MODULE AsyncChannel ----------------------------
(***************************************************************************)
(* The third task of a session: AsyncChannel of async_channel.py, with the *)
(* device-clear methods of HiSLIPSession it calls.                         *)
(*                                                                         *)
(* Its own frames are at most 24 bytes and never fill the 64 KiB that      *)
(* drain() tolerates, so a send on the async socket does not suspend.      *)
(***************************************************************************)
EXTENDS HiSLIPSession

AsyncReceive(kind) ==
    /\ asyncPc = "read"
    /\ toAsync # << >>
    /\ Head(toAsync) = kind
    /\ toAsync' = Tail(toAsync)

\* AsyncChannel._send
ASend(f) == outAsync' = IF aConnected THEN Append(outAsync, f) ELSE outAsync

asyncFrame == <<overlapMode, loopVars, recvVars, dispVars, toSync, connected,
                aConnected>>

\* handle_async_connection and the head of run(): refused unless the session
\* is open and has no channel yet.
AsyncStart ==
    /\ SyncOpen /\ ~AsyncOpen /\ ~aConnected
    /\ asyncPc' = "read" /\ aConnected' = TRUE
    /\ toAsync' = << >> /\ outAsync' = << >>
    /\ UNCHANGED <<overlapMode, loopVars, recvVars, dispVars, toSync,
                   connected, doneVars, clearVars, statusVars, sendVars,
                   histVars>>

\* End of file or a malformed frame: the writer is uninstalled and closed.
AsyncStop ==
    /\ asyncPc = "read"
    /\ \/ ~aConnected
       \/ toAsync # << >> /\ Head(toAsync) = "bad"
    /\ asyncPc' = "closed" /\ aConnected' = FALSE
    /\ UNCHANGED <<overlapMode, loopVars, recvVars, dispVars, toSync,
                   connected, toAsync, outAsync, doneVars, clearVars,
                   statusVars, sendVars, histVars>>

\* Fault: MAV is cleared before the byte is read.
StatusByteCleared(kind) == mav /\ kind = "query"

\* ASYNC_STATUS_QUERY: the byte is read, then MAV cleared if asked for.
StatusByte(kind) == mav

AsyncStatusQuery(kind) ==
    /\ kind \in {"query", "queryClear"} /\ AsyncReceive(kind)
    /\ ASend(AFrame("status", StatusByte(kind)))
    /\ mav' = (mav /\ kind = "query")
    /\ UNCHANGED <<asyncFrame, asyncPc, doneVars, clearVars, remoteMode,
                   sendVars, histVars>>

AsyncRemoteLocal(kind) ==
    /\ kind \in {"remote", "local"} /\ AsyncReceive(kind)
    /\ remoteMode' = (kind = "remote")
    /\ ASend(AFrame("answer", FALSE))
    /\ UNCHANGED <<asyncFrame, asyncPc, doneVars, clearVars, mav, sendVars,
                   histVars>>

\* Maximum message size, lock (always granted), and the error replies.
AsyncOther ==
    /\ AsyncReceive("other")
    /\ ASend(AFrame("answer", FALSE))
    /\ UNCHANGED <<asyncFrame, asyncPc, doneVars, clearVars, statusVars,
                   sendVars, histVars>>

-----------------------------------------------------------------------------
(* ASYNC_DEVICE_CLEAR                                                      *)

\* Fault: the event of the last clear is not reset.
StartDeviceClearStale ==
    /\ clearPending' = TRUE
    /\ syncSet' = (syncSet \/ syncDone # NoId)
    /\ interrupts' = interrupts + IF syncDone # NoId /\ ~syncSet THEN 1 ELSE 0
    /\ UNCHANGED <<syncDone, timedOut, clearDone>>

\* start_device_clear: a receive loop that waits for a command is released.
StartDeviceClear ==
    /\ clearPending' = TRUE
    /\ clearDone' = FALSE
    /\ syncSet' = (syncSet \/ syncDone # NoId)
    /\ interrupts' = interrupts + IF syncDone # NoId /\ ~syncSet THEN 1 ELSE 0
    /\ UNCHANGED <<syncDone, timedOut>>

AsyncClear ==
    /\ AsyncReceive("clear")
    /\ StartDeviceClear
    /\ IF SyncOpen
       THEN /\ Send("async", Frame("complete", NoId))
            /\ asyncPc' = "sendComplete"
            /\ UNCHANGED outAsync
       ELSE /\ ASend(AFrame("clearAck", FALSE))
            /\ UNCHANGED <<sendVars, asyncPc>>
    /\ UNCHANGED <<asyncFrame, statusVars>>

AsyncCompleteSent ==
    /\ asyncPc = "sendComplete" /\ Drained("async")
    /\ asyncPc' = "waitAck"
    /\ UNCHANGED <<asyncFrame, toAsync, outAsync, doneVars, clearVars,
                   statusVars, histVars>>

\* wait_device_clear_acked returns TRUE.
AsyncAcked ==
    /\ asyncPc = "waitAck" /\ clearDone
    /\ ASend(AFrame("clearAck", FALSE))
    /\ asyncPc' = "read"
    /\ UNCHANGED <<asyncFrame, toAsync, doneVars, clearVars, statusVars,
                   sendVars, histVars>>

\* Fault: the wait has no limit.
ClearExpiredNever == FALSE

\* wait_device_clear_acked: the five seconds are over.  The acknowledgement
\* is sent all the same.
ClearExpired == ~clearDone

AsyncTimeout ==
    /\ asyncPc = "waitAck" /\ ClearExpired
    /\ clearPending' = FALSE
    /\ timedOut' = TRUE
    /\ ASend(AFrame("clearAck", FALSE))
    /\ asyncPc' = "read"
    /\ UNCHANGED <<asyncFrame, toAsync, doneVars, clearDone, statusVars,
                   sendVars, interrupts>>

AsyncNext ==
    \/ AsyncStop
    \/ \E kind \in AsyncIn : AsyncStatusQuery(kind) \/ AsyncRemoteLocal(kind)
    \/ AsyncOther
    \/ AsyncClear \/ AsyncCompleteSent \/ AsyncAcked \/ AsyncTimeout
=============================================================================
