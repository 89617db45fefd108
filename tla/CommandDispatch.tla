---------------------------- MODULE CommandDispatch ----------------------------
(***************************************************************************)
(* The end of _dispatch_command (hislip_session.py): the handlers of all   *)
(* sessions, and the thread pool of the event loop (external) they share.  *)
(*                                                                         *)
(* A handler that is a function runs in a thread of the pool, without a    *)
(* timeout; one that is a coroutine runs in the event loop, under          *)
(* wait_for.  The coroutines of OVERLAY:LOAD and OVERLAY:UNLOAD await a    *)
(* job of the pool in their turn: they are of the kind "offload".  A       *)
(* command that is refused before its handler (unknown, no overlay, bad    *)
(* arguments) starts nothing and is left out.                              *)
(***************************************************************************)
EXTENDS Naturals, Sequences, FiniteSets

CONSTANTS
    Loops,     \* the dispatch loops
    Clearers,  \* receive loops: each runs *CLS itself after a device clear
    Calls,     \* bound: the calls there can be at a time
    Threads,   \* how many threads the pool may have
    None       \* no call

ASSUME DispatchAssumption ==
    /\ Loops \cap Clearers = {}
    /\ Threads \in Nat \ {0}
    /\ None \notin Calls \cup {"function", "coroutine", "offload"}

VARIABLES
    awaits,    \* the call each caller awaits
    kind,      \* what kind of handler that is
    backlog,   \* jobs that no thread has taken, in order
    withdrawn, \* those of them whose future has been cancelled
    running,   \* jobs that a thread runs
    results    \* jobs whose result is on its way to the event loop

vars == <<awaits, kind, backlog, withdrawn, running, results>>

Callers == Loops \cup Clearers
Kinds   == {"function", "coroutine", "offload"}

Waiting   == {backlog[k] : k \in DOMAIN backlog}
Awaited   == {awaits[c] : c \in Callers} \ {None}
Unused(j) == j \notin Awaited \cup Waiting \cup running \cup results

Init ==
    /\ awaits = [c \in Callers |-> None]
    /\ kind = [c \in Callers |-> None]
    /\ backlog = << >> /\ withdrawn = {} /\ running = {} /\ results = {}

-----------------------------------------------------------------------------
(* The event loop.                                                         *)

\* run_in_executor, wait_for, or, in an offload, the one under the other.
Call(c, k) ==
    /\ awaits[c] = None
    /\ c \in Clearers => k = "function"
    /\ \E j \in Calls : Unused(j)
    /\ LET j == CHOOSE i \in Calls : Unused(i) IN
         /\ awaits' = [awaits EXCEPT ![c] = j]
         /\ kind' = [kind EXCEPT ![c] = k]
         /\ backlog' = IF k = "coroutine" THEN backlog ELSE Append(backlog, j)
    /\ UNCHANGED <<withdrawn, running, results>>

\* The caller goes on to its next command.
Free(c) ==
    /\ results' = results \ {awaits[c]}
    /\ awaits' = [awaits EXCEPT ![c] = None]
    /\ kind' = [kind EXCEPT ![c] = None]

\* The handler's result, or what it raised, becomes the answer.
Return(c) ==
    /\ awaits[c] # None
    /\ kind[c] = "coroutine" \/ awaits[c] \in results
    /\ Free(c)
    /\ UNCHANGED <<backlog, withdrawn, running>>

\* Fault: a timeout leaves the job where it is.
WithdrawNothing(j) == withdrawn

\* The cancellation of a coroutine reaches the job it awaits if no thread has
\* taken it; a thread goes on.
Withdraw(j) == IF j \in Waiting THEN withdrawn \cup {j} ELSE withdrawn

\* Fault: only a job that no thread runs can be given up.
ExpiresUnlessRunning(c) == kind[c] # "function" /\ awaits[c] \notin running

\* Only coroutines are under wait_for.  (A timeout_ms of 0, which no command
\* of the repository has, would switch the timeout off.)
Expires(c) == kind[c] # "function"

\* asyncio.TimeoutError: "Command timeout" is the answer.
TimeOut(c) ==
    /\ awaits[c] # None /\ Expires(c)
    /\ withdrawn' = Withdraw(awaits[c])
    /\ Free(c)
    /\ UNCHANGED <<backlog, running>>

-----------------------------------------------------------------------------
(* The threads: external.                                                  *)

\* Fault: the newest job is taken first.
NewestFirst == Len(backlog)

\* The pool's queue is served in order.
Turn == 1

Without(k) == SubSeq(backlog, 1, k - 1) \o SubSeq(backlog, k + 1, Len(backlog))

\* Fault: a job is run although its future has been cancelled.
RunAnyway(j) == running \cup {j}

\* A job whose future has been cancelled is thrown away.
RunUnlessWithdrawn(j) == IF j \in withdrawn THEN running ELSE running \cup {j}

\* Fault: one thread too many.
OneTooMany == Cardinality(running) <= Threads

ThreadFree == Cardinality(running) < Threads

Take ==
    /\ backlog # << >> /\ ThreadFree
    /\ LET j == backlog[Turn] IN
         /\ backlog' = Without(Turn)
         /\ running' = RunUnlessWithdrawn(j)
         /\ withdrawn' = withdrawn \ {j}
    /\ UNCHANGED <<awaits, kind, results>>

\* Nobody hears of the end of a job that was given up.
JobEnds(j) ==
    /\ j \in running
    /\ running' = running \ {j}
    /\ results' = IF j \in Awaited THEN results \cup {j} ELSE results
    /\ UNCHANGED <<awaits, kind, backlog, withdrawn>>

-----------------------------------------------------------------------------
Next ==
    \/ \E c \in Callers : (\E k \in Kinds : Call(c, k)) \/ Return(c) \/ TimeOut(c)
    \/ Take
    \/ \E j \in Calls : JobEnds(j)

Spec == Init /\ [][Next]_vars

(* Timers that are due are served, and a thread that is free takes a job.  *)
(* Nothing is asked of the handlers: a function may keep its thread for    *)
(* ever, a coroutine go on until it is cancelled.                          *)
Fairness == WF_vars(Take) /\ \A c \in Callers : WF_vars(TimeOut(c))

FairSpec == Spec /\ Fairness

-----------------------------------------------------------------------------
(* Properties                                                              *)

TypeOK ==
    /\ awaits \in [Callers -> Calls \cup {None}]
    /\ kind \in [Callers -> Kinds \cup {None}]
    /\ backlog \in Seq(Calls)
    /\ withdrawn \subseteq Waiting
    /\ running \subseteq Calls /\ Cardinality(running) <= Threads
    /\ results \subseteq Calls
    /\ \A c \in Callers : awaits[c] = None <=> kind[c] = None

\* What a caller awaits is its own, and is in one place: of the callers of
\* all sessions no two await the same call, and a function or offload that is
\* awaited is either in the backlog, or run, or its result is on the way; a
\* coroutine has nothing in the pool.
\* Every job in the backlog and every result is awaited, unless it was
\* withdrawn: a timeout leaves nothing to be run or delivered later.
OwnJob ==
    /\ \A c, d \in Callers : awaits[c] = awaits[d] /\ awaits[c] # None => c = d
    /\ \A c \in Callers : kind[c] \in {"function", "offload"} =>
         awaits[c] \in (Waiting \ withdrawn) \cup running \cup results
    /\ \A c \in Callers : kind[c] = "coroutine" =>
         awaits[c] \notin Waiting \cup running \cup results
    /\ running \cap results = {} /\ Waiting \cap (running \cup results) = {}
    /\ \A k, l \in DOMAIN backlog : backlog[k] = backlog[l] => k = l
    /\ Waiting \ withdrawn \subseteq Awaited
    /\ results \subseteq Awaited

\* A handler only starts while its caller waits for it: a command that has
\* been answered "Command timeout" (hislip_session.py:311) before a thread
\* took it never runs.
NoLateStart ==
    [][\A j \in running' \ running : j \in Awaited]_vars

\* The caller of a coroutine goes on, even if every thread of the pool hangs
\* in other sessions' functions.
CoroutinesEnd ==
    \A c \in Callers :
        kind[c] \in {"coroutine", "offload"} ~> kind[c] = None

\* A function, or the *CLS of a device clear, waits for a thread for ever
\* only if from some time on no thread is free: commands that time out and
\* commands that come later do not keep it from its turn.
FunctionsStart ==
    []<>ThreadFree =>
        \A j \in Calls : j \in Waiting ~> j \notin Waiting
=============================================================================
