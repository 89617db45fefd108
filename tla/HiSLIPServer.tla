----------------------------- MODULE HiSLIPServer -----------------------------
(***************************************************************************)
(* The two listening sockets of hislip_server.py: the session ids given    *)
(* out by _handle_sync, the table of sessions, and the correlation of an   *)
(* async connection with a session in async_channel.py.                    *)
(*                                                                         *)
(* _session_lock is never held across an await that suspends, so taking an *)
(* id and entering the session are one step.  A session is entered in the  *)
(* table before its handshake and leaves it after its socket is closed.    *)
(***************************************************************************)
EXTENDS Naturals, FiniteSets

CONSTANTS
    SyncConns,    \* connections to the sync port, each one a session
    AsyncConns,   \* connections to the async port
    MaxId,        \* 0xFFFF, after which the ids start again at 1
    None          \* no session

ASSUME ServerAssumption ==
    /\ MaxId \in Nat \ {0}
    /\ None \notin SyncConns

VARIABLES
    nextSessionId,  \* _next_session_id
    sessions,       \* _sessions: the session under each id, or None
    sid,            \* session_id of each session, 0 before it has one
    syncPc,         \* where _handle_sync is, for each sync connection
    asyncOpen,      \* async_open of each session
    asyncPc,        \* where handle_async_connection is
    asker,          \* whose client opened the async connection, or None
    serves,         \* the session the AsyncChannel is attached to, or None
    reused          \* history: was an id given out while a session had it?

vars == <<nextSessionId, sessions, sid, syncPc, asyncOpen, asyncPc, asker,
          serves, reused>>

SessionIds == 1..MaxId
SyncPcs    == {"new", "handshake", "open", "ending", "closed"}
AsyncPcs   == {"new", "first", "serving", "closed"}

\* sync_open: set at the head of run(), cleared in its outer finally.
SyncOpen(c) == syncPc[c] \in {"handshake", "open"}

\* The session has an id and is not over.
Alive(c) == SyncOpen(c) \/ syncPc[c] = "ending"

Init ==
    /\ nextSessionId = 1
    /\ sessions = [id \in SessionIds |-> None]
    /\ sid = [c \in SyncConns |-> 0]
    /\ syncPc = [c \in SyncConns |-> "new"]
    /\ asyncOpen = [c \in SyncConns |-> FALSE]
    /\ asyncPc = [a \in AsyncConns |-> "new"]
    /\ asker = [a \in AsyncConns |-> None]
    /\ serves = [a \in AsyncConns |-> None]
    /\ reused = FALSE

-----------------------------------------------------------------------------
(* _handle_sync                                                            *)

\* Fault: the ids never start again.
SuccessorUnwrapped(id) == id + 1

Successor(id) == (id % MaxId) + 1

\* Fault: the session is entered after the id has been advanced.
RegisterLate(c) == sessions' = [sessions EXCEPT ![Successor(nextSessionId)] = c]

Register(c) == sessions' = [sessions EXCEPT ![nextSessionId] = c]

SyncAccept(c) ==
    /\ syncPc[c] = "new"
    /\ sid' = [sid EXCEPT ![c] = nextSessionId]
    /\ nextSessionId' = Successor(nextSessionId)
    /\ Register(c)
    /\ reused' = (reused \/ \E d \in SyncConns :
                                Alive(d) /\ sid[d] = nextSessionId)
    /\ syncPc' = [syncPc EXCEPT ![c] = "handshake"]
    /\ UNCHANGED <<asyncOpen, asyncPc, asker, serves>>

\* INITIALIZE is answered with the id: the client knows it from here on.
Handshake(c) ==
    /\ syncPc[c] = "handshake"
    /\ syncPc' = [syncPc EXCEPT ![c] = "open"]
    /\ UNCHANGED <<nextSessionId, sessions, sid, asyncOpen, asyncPc, asker,
                   serves, reused>>

\* The handshake fails, or the receive loop and the dispatch loop have
\* ended: sync_open is cleared and the socket is being closed.
SyncEnd(c) ==
    /\ SyncOpen(c)
    /\ syncPc' = [syncPc EXCEPT ![c] = "ending"]
    /\ UNCHANGED <<nextSessionId, sessions, sid, asyncOpen, asyncPc, asker,
                   serves, reused>>

\* Fault: the session stays in the table.
PopForgotten(c) == UNCHANGED sessions

\* _sessions.pop(session_id): whatever session is there now.
Pop(c) == sessions' = [sessions EXCEPT ![sid[c]] = None]

SyncRemove(c) ==
    /\ syncPc[c] = "ending"
    /\ Pop(c)
    /\ syncPc' = [syncPc EXCEPT ![c] = "closed"]
    /\ UNCHANGED <<nextSessionId, sid, asyncOpen, asyncPc, asker, serves,
                   reused>>

-----------------------------------------------------------------------------
(* handle_async_connection                                                 *)

AsyncAccept(a) ==
    /\ asyncPc[a] = "new"
    /\ asyncPc' = [asyncPc EXCEPT ![a] = "first"]
    /\ UNCHANGED <<nextSessionId, sessions, sid, syncPc, asyncOpen, asker,
                   serves, reused>>

\* Ten seconds pass, the connection is lost, or another message arrives.
AsyncGiveUp(a) ==
    /\ asyncPc[a] = "first"
    /\ asyncPc' = [asyncPc EXCEPT ![a] = "closed"]
    /\ UNCHANGED <<nextSessionId, sessions, sid, syncPc, asyncOpen, asker,
                   serves, reused>>

\* Fault: a session that has a channel gets another one.
FreeUnchecked(s) == s # None /\ SyncOpen(s)

\* The session exists, its sync channel is open and it has no async channel.
Free(s) ==
    /\ s # None
    /\ SyncOpen(s)
    /\ ~asyncOpen[s]

\* ASYNC_INITIALIZE from the client of session c, which asks for the id it
\* was told.  Between the test and the installation of the channel nothing
\* suspends: the socket is new and takes the 16 bytes of the answer.
AsyncInitialize(a, c) ==
    /\ asyncPc[a] = "first"
    /\ syncPc[c] \in {"open", "ending", "closed"} /\ sid[c] # 0
    /\ asker' = [asker EXCEPT ![a] = c]
    /\ LET s == sessions[sid[c]] IN
         IF Free(s)
         THEN /\ asyncPc' = [asyncPc EXCEPT ![a] = "serving"]
              /\ asyncOpen' = [asyncOpen EXCEPT ![s] = TRUE]
              /\ serves' = [serves EXCEPT ![a] = s]
         ELSE /\ asyncPc' = [asyncPc EXCEPT ![a] = "closed"]
              /\ UNCHANGED <<asyncOpen, serves>>
    /\ UNCHANGED <<nextSessionId, sessions, sid, syncPc, reused>>

\* AsyncChannel.run() ends; it may outlive its session.
AsyncEnd(a) ==
    /\ asyncPc[a] = "serving"
    /\ asyncPc' = [asyncPc EXCEPT ![a] = "closed"]
    /\ asyncOpen' = [asyncOpen EXCEPT ![serves[a]] = FALSE]
    /\ serves' = [serves EXCEPT ![a] = None]
    /\ UNCHANGED <<nextSessionId, sessions, sid, syncPc, asker, reused>>

-----------------------------------------------------------------------------
SyncNext(c)  == SyncAccept(c) \/ Handshake(c) \/ SyncEnd(c) \/ SyncRemove(c)

AsyncNext(a) ==
    \/ AsyncAccept(a) \/ AsyncGiveUp(a) \/ AsyncEnd(a)
    \/ \E c \in SyncConns : AsyncInitialize(a, c)

\* Every connection has come and gone.
Over ==
    /\ \A c \in SyncConns : syncPc[c] = "closed"
    /\ \A a \in AsyncConns : asyncPc[a] = "closed"
    /\ UNCHANGED vars

Next ==
    \/ \E c \in SyncConns : SyncNext(c)
    \/ \E a \in AsyncConns : AsyncNext(a)
    \/ Over

Spec == Init /\ [][Next]_vars

-----------------------------------------------------------------------------
(* Properties                                                              *)

TypeOK ==
    /\ nextSessionId \in SessionIds
    /\ sessions \in [SessionIds -> SyncConns \cup {None}]
    /\ sid \in [SyncConns -> SessionIds \cup {0}]
    /\ syncPc \in [SyncConns -> SyncPcs]
    /\ asyncOpen \in [SyncConns -> BOOLEAN]
    /\ asyncPc \in [AsyncConns -> AsyncPcs]
    /\ asker \in [AsyncConns -> SyncConns \cup {None}]
    /\ serves \in [AsyncConns -> SyncConns \cup {None}]
    /\ reused \in BOOLEAN

\* "One AsyncChannel per session" (class docstring, hislip_server.py:21):
\* two channels never serve one session, so the _async_writer a session
\* emits its SRQs on is never replaced or removed under it; and async_open
\* says exactly whether a channel serves the session, so a client that lost
\* its channel can open another.  Holds even where ids are used again.
OneChannel ==
    /\ \A a, b \in AsyncConns :
           serves[a] # None /\ serves[a] = serves[b] => a = b
    /\ \A c \in SyncConns : asyncOpen[c] <=> \E a \in AsyncConns : serves[a] = c

\* As long as no id has been given out while a session had it, the table
\* holds the sessions that are alive, each under its own id, and nothing
\* else: also when ids start again at 1 and are used a second time.
TableExact ==
    ~reused =>
        \A c \in SyncConns, id \in SessionIds :
            sessions[id] = c <=> Alive(c) /\ sid[c] = id

\* Client c is active and has no channel, and its AsyncInitialize is taken.
AsksForOwn(a, c) ==
    asyncPc[a] = "first" /\ asker'[a] = c /\ SyncOpen(c) /\ ~asyncOpen[c]

\* handle_async_connection "correlates with an active sync session"
\* (async_channel.py:173): a client whose session is active is not sent to
\* somebody else's session, nor turned away while its own has no channel, as
\* long as no id has been given out while a session had it.  (That takes
\* 65535 sessions during the life of one; _handle_sync does not look.)
CorrelatesUnlessReused ==
    [][\A a \in AsyncConns, c \in SyncConns :
          ~reused /\ AsksForOwn(a, c) => serves'[a] = c]_vars
=============================================================================
