------------------------------ MODULE HiSLIPLink ------------------------------
(***************************************************************************)
(* One session at work: its receive loop, its dispatch loop, its async     *)
(* channel and its client, interleaved in every order.                     *)
(***************************************************************************)
EXTENDS HiSLIPClient

CONSTANT Modes      \* values of overlap_mode the client may negotiate

vars == <<sessionVars, clientVars>>

Init == SessionInit /\ overlapMode \in Modes /\ ClientInit

ServerNext == (ReceiveNext \/ DispatchNext \/ AsyncNext) /\ UNCHANGED clientVars

\* The client opens the async socket at most once: AsyncStart asks for a
\* fresh connection, so it is only taken before the client has used it.
Connect == clears = 0 /\ polls = 0 /\ outAsync = << >> /\ AsyncStart
           /\ UNCHANGED clientVars

\* Both loops have ended and both sockets are closed: nothing is left to do.
Over == recvPc = "closed" /\ asyncPc = "closed" /\ ~aConnected
        /\ UNCHANGED vars

Next == ServerNext \/ Connect \/ ClientNext \/ Over

Spec == Init /\ [][Next]_vars

(* The event loop keeps running every task that can run.  A handler may    *)
(* never return: that it does is the premise HandlersReturn of the         *)
(* properties that need it (DispFinish is part of DispatchNext).  Of the   *)
(* client it is only asked that it reads what it is sent.                  *)
Fairness ==
    /\ WF_vars(ReceiveNext /\ UNCHANGED clientVars)
    /\ WF_vars(DispReplied /\ UNCHANGED clientVars)
    /\ WF_vars(AsyncNext /\ UNCHANGED clientVars)
    /\ WF_vars(ClientRead)

HandlersReturn == WF_vars(DispatchNext /\ UNCHANGED clientVars)

FairSpec == Spec /\ Fairness

-----------------------------------------------------------------------------
(* Properties                                                              *)

\* The type invariant of the composition.
TypeOK == SessionTypeOK /\ ClientTypeOK

\* Commands taken by the client's sync socket but not settled yet.
InHand      == IF dispPc \in {"run", "send"} THEN 1 ELSE 0
Outstanding == Len(queue) + InHand

\* The command the receive loop is waiting for.
Awaited == IF recvPc = "waitDone" /\ ~syncSet THEN 1 ELSE 0

\* In sync mode the receive loop is at most one command ahead of the
\* dispatch loop (class docstring, hislip_session.py:43); every device clear
\* that cuts its wait short lets it one more ahead, and no other path does.
SyncWindow == ~overlapMode => Outstanding <= interrupts + Awaited

\* The frames written to the client or waiting for _send_lock, in order.
Outgoing ==
    outSync \o SubSeq([k \in DOMAIN sendQ |-> sendQ[k].frame], 2, Len(sendQ))

\* "In sync mode, responses must arrive in the same order as commands"
\* (tests/test_concurrent.py:104): commands, triggers and overflow errors
\* alike, as long as no device clear has released the receive loop early.
SyncAnswersInOrder ==
    ~overlapMode /\ interrupts = 0 =>
        \A j, k \in DOMAIN Outgoing :
            j < k /\ Outgoing[j].id # NoId /\ Outgoing[k].id # NoId
            => Outgoing[j].id < Outgoing[k].id

\* In both modes the commands are run in the order the client sent them: the
\* queue is sorted, behind the command last taken and ahead of the socket.
InOrder ==
    /\ \A j, k \in DOMAIN queue : j < k => queue[j] < queue[k]
    /\ \A k \in DOMAIN queue : cur < queue[k]
    /\ \A j \in DOMAIN queue, k \in DOMAIN toSync :
           toSync[k].kind = "dataEnd" => queue[j] < toSync[k].id

\* A command is lost (flushed with the queue, or passed over while a clear
\* is pending) only if the client sent it before its last device clear: a
\* command sent after a clear is never lost to that clear, even when the
\* clear timed out or was acknowledged late.
OnlyClearedLost ==
    \A i \in Ids : fate[i] \in {"skipped", "flushed"} => i <= clearFrom

\* Once the client knows its device clear to be over, nothing it sent before
\* is waiting to be run and no fragment of it is in the buffer, unless the
\* clear timed out.  (A command that was already running goes on.)
ClearLeavesNothing ==
    ~clearing /\ ~completeDue /\ ~timedOut /\ connected /\ clears > 0 =>
        /\ \A k \in DOMAIN queue : queue[k] > clearFrom
        /\ \A i \in cmdBuf : i > clearFrom
        /\ ~clearPending

\* The text of a command is made of its own fragments: what an abandoned
\* command left in the buffer never gets in front of the next one.
WholeCommands ==
    \A i \in Ids : fate[i] # "new" => body[i] = {i}

\* MAV is taken back only by a status query that reported it: a reply is
\* never announced to nobody (async_channel.py:111-116).
MavReported ==
    [][mav /\ ~mav' /\ aConnected =>
         /\ Len(outAsync') = Len(outAsync) + 1
         /\ outAsync'[Len(outAsync')] = AFrame("status", TRUE)]_vars

\* The queue, with what became of its commands, implements CommandPipeline.
Pipeline == INSTANCE CommandPipeline WITH
    Commands <- Ids,
    Depth    <- QueueDepth,
    waiting  <- queue,
    running  <- {i \in Ids : fate[i] = "running"},
    settled  <- {i \in Ids : fate[i] \notin {"new", "queued", "running"}}

QueueIsPipeline == Pipeline!PipeSpec

\* Every command the receive loop has taken is settled.
CommandsSettle ==
    HandlersReturn =>
        \A i \in Ids : fate[i] \in {"queued", "running"} ~>
                       fate[i] \notin {"queued", "running"}

\* In sync mode the receive loop is released: its wait ends when the command
\* does ("block until dispatch signals completion", hislip_session.py:183).
SyncWaitEnds ==
    HandlersReturn => (recvPc = "waitDone" ~> recvPc # "waitDone")

\* Once the client is gone, run() ends: the socket is closed and the
\* session's tasks are done (run(), hislip_session.py:92-113).
DisconnectCloses == HandlersReturn => (~connected ~> recvPc = "closed")

\* The same in sync mode, where only device clears that cut a wait short let
\* the queue fill: with fewer of them than QUEUE_DEPTH the sentinel always
\* finds room.
SyncDisconnectCloses ==
    ~overlapMode /\ [](interrupts < QueueDepth) => DisconnectCloses

\* A device clear is answered even while a handler never returns, given a
\* client that reads its sync socket (_handle_device_clear waits for
\* _send_lock without a limit, and for the acknowledgement with one).
ClearAnswered ==
    asyncPc \in {"sendComplete", "waitAck"} ~> asyncPc \in {"read", "closed"}
=============================================================================
