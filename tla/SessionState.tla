---------------------------- MODULE SessionState ----------------------------
(***************************************************************************)
(* The state that the tasks of one HiSLIP session share: the fields of     *)
(* HiSLIPSession, the program counters of its three asyncio tasks and the  *)
(* two sockets it is attached to.                                          *)
(*                                                                         *)
(* The tasks run on one event loop.  The code between two awaits that      *)
(* really suspend is atomic, and each action of the modules that extend    *)
(* this one is such a stretch.  The awaits that suspend are the reads of   *)
(* a socket, queue.get(), done.wait(), the handler of a command, the       *)
(* acquisition of _send_lock and the drain() of a frame.                   *)
(***************************************************************************)
EXTENDS Naturals, Sequences, FiniteSets

CONSTANTS
    MaxMsgs,      \* bound: message ids the client may use
    QueueDepth,   \* QUEUE_DEPTH, the capacity of the command queue
    SendWindow    \* frames the client may leave unread before drain() waits

ASSUME SessionAssumption ==
    /\ MaxMsgs \in Nat
    /\ QueueDepth \in Nat \ {0}
    /\ SendWindow \in Nat

VARIABLES
    overlapMode,  \* overlap_mode, negotiated once by the handshake
    queue,        \* _cmd_queue: message ids of the commands waiting
    sentinel,     \* the None of run() is behind the commands of the queue
    cmdBuf,       \* cmd_buf: the ids whose fragments are in the buffer
    body,         \* body[i]: ids whose fragments make up command i's text
    syncDone,     \* _current_sync_done: id of the command waited for, or NoId
    syncSet,      \* is that command's event set?
    clearPending, \* _device_clear_pending
    clearDone,    \* _device_clear_done.is_set()
    mav,          \* bit 4 of status_byte, the only bit the code ever sets
    remoteMode,   \* remote_mode
    recvPc,       \* where run()/_receive_loop is suspended
    dispPc,       \* where _dispatch_loop is suspended
    cur,          \* id of the command last taken by the dispatch loop
    asyncPc,      \* where AsyncChannel._loop is suspended
    sendQ,        \* _send_lock: its holder, then the tasks waiting for it
    toSync, outSync,    \* the sync socket: frames to and from the server
    toAsync, outAsync,  \* the async socket
    connected, aConnected,  \* are the two sockets up?
    fate,         \* history: what became of each command
    interrupts,   \* history: waits of the receive loop cut short by a clear
    timedOut      \* history: has a device clear timed out?

loopVars   == <<queue, sentinel, body, fate>>
doneVars   == <<syncDone, syncSet>>
clearVars  == <<clearPending, clearDone>>
statusVars == <<mav, remoteMode>>
sendVars   == <<sendQ, outSync>>
recvVars   == <<recvPc, cmdBuf>>
dispVars   == <<dispPc, cur>>
asyncVars  == <<asyncPc, toAsync, outAsync, aConnected>>
histVars   == <<interrupts, timedOut>>

sessionVars == <<overlapMode, loopVars, doneVars, clearVars, statusVars,
                 sendVars, recvVars, dispVars, asyncVars, toSync, connected,
                 histVars>>

-----------------------------------------------------------------------------
Ids  == 1..MaxMsgs
NoId == 0

Tasks == {"recv", "disp", "async"}
Fates == {"new", "queued", "running", "replied", "silent", "crashed",
          "rejected", "skipped", "flushed"}
RecvPcs  == {"read", "send", "waitDone", "cls", "clsSend", "join", "closed"}
DispPcs  == {"get", "run", "send", "stopped", "crashed"}
AsyncPcs == {"read", "sendComplete", "waitAck", "closed"}

SyncIn   == {"data", "dataEnd", "trigger", "clearAck", "other", "bad"}
SyncOut  == {"reply", "overflow", "complete", "error"}
AsyncIn  == {"query", "queryClear", "clear", "remote", "local", "other", "bad"}
AsyncOut == {"status", "srq", "clearAck", "answer"}

\* A frame of the sync socket: a message type and the message id it carries.
Frame(k, i) == [kind |-> k, id |-> i]
InFrames    == [kind : SyncIn \ {"clearAck"}, id : Ids]
               \cup {Frame("clearAck", NoId)}
OutFrames   == [kind : SyncOut, id : Ids \cup {NoId}]
\* A frame of the async socket: a message type and the MAV bit it shows.
AFrame(k, b) == [kind |-> k, mav |-> b]
AFrames      == [kind : AsyncOut, mav : BOOLEAN]

\* What a task that holds _send_lock or waits for it is about to write.
Writers      == [task : Tasks, frame : OutFrames]

-----------------------------------------------------------------------------
(* _send_raw: _send_lock is FIFO, so sendQ is the queue of the tasks with  *)
(* the frame each one writes; the head holds the lock and has written its  *)
(* frame.  A frame for a client that is gone is discarded.                 *)

Wire(f) == IF connected THEN Append(outSync, f) ELSE outSync

Send(t, f) ==
    /\ sendQ' = Append(sendQ, [task |-> t, frame |-> f])
    /\ outSync' = IF sendQ = << >> THEN Wire(f) ELSE outSync

\* drain() returns once the client has read enough, or raises (and _send_raw
\* swallows it) once the client is gone; then the next task gets the lock.
Drained(t) ==
    /\ sendQ # << >>
    /\ Head(sendQ).task = t
    /\ connected => Len(outSync) <= SendWindow
    /\ sendQ' = Tail(sendQ)
    /\ outSync' = IF Len(sendQ) > 1 THEN Wire(sendQ[2].frame) ELSE outSync

\* Fault: the capacity is off by one.
QueueFullLate == Len(queue) > QueueDepth

\* put_nowait raises QueueFull.
QueueFull == Len(queue) >= QueueDepth

\* Fault: the event of a command is never set.
SignalNobody(i) == UNCHANGED <<syncSet, syncDone>>

\* done.set() on the event made for command i: it wakes the receive loop if
\* that is the event it waits on, and nobody otherwise.
Signal(i) ==
    /\ syncSet' = (syncSet \/ (i = syncDone /\ i # NoId))
    /\ UNCHANGED syncDone

SyncOpen  == recvPc # "closed"    \* sync_open
AsyncOpen == asyncPc # "closed"   \* async_open

-----------------------------------------------------------------------------
SessionInit ==
    /\ overlapMode \in BOOLEAN
    /\ queue = << >> /\ sentinel = FALSE /\ cmdBuf = {}
    /\ body = [i \in Ids |-> {}] /\ fate = [i \in Ids |-> "new"]
    /\ syncDone = NoId /\ syncSet = FALSE
    /\ clearPending = FALSE /\ clearDone = FALSE
    /\ mav = FALSE /\ remoteMode = FALSE
    /\ recvPc = "read" /\ dispPc = "get" /\ asyncPc = "closed"
    /\ cur = NoId /\ sendQ = << >>
    /\ toSync = << >> /\ outSync = << >> /\ connected = TRUE
    /\ toAsync = << >> /\ outAsync = << >> /\ aConnected = FALSE
    /\ interrupts = 0 /\ timedOut = FALSE

SessionTypeOK ==
    /\ overlapMode \in BOOLEAN
    /\ queue \in Seq(Ids) /\ Len(queue) <= QueueDepth
    /\ sentinel \in BOOLEAN
    /\ cmdBuf \in SUBSET Ids
    /\ body \in [Ids -> SUBSET Ids]
    /\ fate \in [Ids -> Fates]
    /\ syncDone \in Ids \cup {NoId} /\ syncSet \in BOOLEAN
    /\ clearPending \in BOOLEAN /\ clearDone \in BOOLEAN
    /\ mav \in BOOLEAN /\ remoteMode \in BOOLEAN
    /\ recvPc \in RecvPcs /\ dispPc \in DispPcs /\ asyncPc \in AsyncPcs
    /\ cur \in Ids \cup {NoId}
    /\ sendQ \in Seq(Writers)
    /\ toSync \in Seq(InFrames) /\ outSync \in Seq(OutFrames)
    /\ toAsync \in Seq(AsyncIn) /\ outAsync \in Seq(AFrames)
    /\ connected \in BOOLEAN /\ aConnected \in BOOLEAN
    /\ interrupts \in Nat /\ timedOut \in BOOLEAN
=============================================================================
