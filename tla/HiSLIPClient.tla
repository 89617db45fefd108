---------------------------- MODULE HiSLIPClient ----------------------------
(***************************************************************************)
(* The environment of a session: one client with both sockets, external to *)
(* the repository and modelled from what the session reads and writes.     *)
(*                                                                         *)
(* The client pipelines commands freely (tests/test_concurrent.py does),   *)
(* but it takes part in a device clear as the server expects it to: it     *)
(* sends nothing on the sync socket from ASYNC_DEVICE_CLEAR until it has   *)
(* both answered DEVICE_CLEAR_COMPLETE and read ASYNC_DEV_CLEAR_ACK, and   *)
(* it gives up a command of which it has sent a fragment only.             *)
(***************************************************************************)
EXTENDS AsyncChannel

CONSTANTS
    SyncKinds,    \* subset of {"fragment", "command", "trigger", "other", "bad"}
    AsyncKinds,   \* messages the client sends on the async socket but "clear"
    MaxClears,    \* bound: device clears the client starts
    MaxPolls      \* bound: messages out of AsyncKinds it sends

ASSUME ClientAssumption ==
    /\ SyncKinds \subseteq {"fragment", "command", "trigger", "other", "bad"}
    /\ AsyncKinds \subseteq AsyncIn \ {"clear"}
    /\ MaxClears \in Nat /\ MaxPolls \in Nat

VARIABLES
    nextId,       \* the next message id
    partial,      \* a fragment under nextId has been sent
    clearing,     \* ASYNC_DEV_CLEAR_ACK has not been read yet
    completeDue,  \* DEVICE_CLEAR_COMPLETE has not been read yet
    clearFrom,    \* the last id used before the last device clear
    clears, polls \* how many of each have been sent

clientVars == <<nextId, partial, clearing, completeDue, clearFrom, clears,
                polls>>

clientRest == <<overlapMode, loopVars, doneVars, clearVars, statusVars, sendQ,
                recvVars, dispVars, asyncPc, histVars>>

ClientInit ==
    /\ nextId = 1 /\ partial = FALSE
    /\ clearing = FALSE /\ completeDue = FALSE /\ clearFrom = NoId
    /\ clears = 0 /\ polls = 0

ClientTypeOK ==
    /\ nextId \in 1..(MaxMsgs + 1) /\ partial \in BOOLEAN
    /\ partial => nextId <= MaxMsgs
    /\ clearing \in BOOLEAN /\ completeDue \in BOOLEAN
    /\ clearFrom \in 0..MaxMsgs /\ clears \in Nat /\ polls \in Nat

-----------------------------------------------------------------------------
MaySend == connected /\ ~clearing /\ ~completeDue /\ nextId <= MaxMsgs

Put(kind) == toSync' = Append(toSync, Frame(kind, nextId))

ClientFragment ==
    /\ "fragment" \in SyncKinds /\ MaySend /\ ~partial
    /\ Put("data") /\ partial' = TRUE
    /\ UNCHANGED <<clientRest, outSync, connected, toAsync, outAsync,
                   aConnected, nextId, clearing, completeDue, clearFrom,
                   clears, polls>>

ClientCommand ==
    /\ "command" \in SyncKinds /\ MaySend
    /\ Put("dataEnd") /\ nextId' = nextId + 1 /\ partial' = FALSE
    /\ UNCHANGED <<clientRest, outSync, connected, toAsync, outAsync,
                   aConnected, clearing, completeDue, clearFrom, clears, polls>>

ClientMessage(kind) ==
    /\ kind \in SyncKinds /\ MaySend /\ ~partial
    /\ Put(kind) /\ nextId' = nextId + 1
    /\ UNCHANGED <<clientRest, outSync, connected, toAsync, outAsync,
                   aConnected, partial, clearing, completeDue, clearFrom,
                   clears, polls>>

\* DEVICE_CLEAR_COMPLETE is answered with DEVICE_CLEAR_ACK.
ClientRead ==
    /\ connected /\ outSync # << >>
    /\ outSync' = Tail(outSync)
    /\ IF Head(outSync).kind = "complete"
       THEN /\ toSync' = Append(toSync, Frame("clearAck", NoId))
            /\ completeDue' = FALSE
       ELSE UNCHANGED <<toSync, completeDue>>
    /\ UNCHANGED <<clientRest, connected, toAsync, outAsync, aConnected,
                   nextId, partial, clearing, clearFrom, clears, polls>>

ClientClear ==
    /\ aConnected /\ ~clearing /\ ~completeDue /\ clears < MaxClears
    /\ toAsync' = Append(toAsync, "clear")
    /\ clears' = clears + 1
    /\ clearing' = TRUE /\ completeDue' = connected
    /\ nextId' = nextId + IF partial THEN 1 ELSE 0
    /\ partial' = FALSE
    /\ clearFrom' = nextId' - 1
    /\ UNCHANGED <<clientRest, toSync, outSync, connected, outAsync,
                   aConnected, polls>>

ClientPoll(kind) ==
    /\ aConnected /\ polls < MaxPolls
    /\ toAsync' = Append(toAsync, kind)
    /\ polls' = polls + 1
    /\ UNCHANGED <<clientRest, toSync, outSync, connected, outAsync,
                   aConnected, nextId, partial, clearing, completeDue,
                   clearFrom, clears>>

ClientReadAsync ==
    /\ aConnected /\ outAsync # << >>
    /\ outAsync' = Tail(outAsync)
    /\ clearing' = (clearing /\ Head(outAsync).kind # "clearAck")
    /\ UNCHANGED <<clientRest, toSync, outSync, connected, toAsync,
                   aConnected, nextId, partial, completeDue, clearFrom,
                   clears, polls>>

\* The client leaves, or the network does: what is unread may never be read.
ClientLeave ==
    /\ connected /\ connected' = FALSE
    /\ UNCHANGED <<clientRest, clientVars, toSync, outSync, toAsync, outAsync,
                   aConnected>>

ClientLeaveAsync ==
    /\ aConnected /\ aConnected' = FALSE
    /\ UNCHANGED <<clientRest, clientVars, toSync, outSync, toAsync, outAsync,
                   connected>>

ClientNext ==
    \/ ClientFragment \/ ClientCommand
    \/ \E kind \in {"trigger", "other", "bad"} : ClientMessage(kind)
    \/ ClientRead \/ ClientClear
    \/ \E kind \in AsyncKinds : ClientPoll(kind)
    \/ ClientReadAsync \/ ClientLeave \/ ClientLeaveAsync
=============================================================================
