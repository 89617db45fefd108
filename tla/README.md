# A verification of pynq-instrument in TLA+

`pynq_instrument` turns a PYNQ board into a SCPI instrument that speaks HiSLIP
over two TCP ports. This directory holds TLA+ models of it, the TLC runs that
check them, and proofs checked by TLAPS. Paths are relative to the repository;
`S` stands for `pynq_instrument/hislip_session.py`.

## The system

| Component | State | Operations | Hard behaviour |
|---|---|---|---|
| HiSLIP session, receive loop (`hislip_session.py`) | `cmd_buf`, `overlap_mode`, `_current_sync_done`, `sync_open` | one branch per message of the sync socket | waits on an event in sync mode, runs ahead in overlap mode; ends in several ways |
| Command queue and dispatch loop (`hislip_session.py`) | `_cmd_queue`, `status_byte` | take, run, answer, announce | a bounded queue ended by a sentinel; handlers that hang or kill the task |
| Device clear (`hislip_session.py`, `async_channel.py`) | `_device_clear_pending`, `_device_clear_done` | start, complete, acknowledge, time out | three tasks and two sockets take part, with a timeout in the middle |
| Async channel (`async_channel.py`) | `async_open`, `_async_writer`, `remote_mode` | one branch per message of the async socket | reads and clears MAV under the dispatch loop |
| Server (`hislip_server.py`, `handle_async_connection`) | `_sessions`, `_next_session_id` | accept, correlate, remove | ids wrap around; connections come and go in any order |
| Framing (`hislip.py`) | none | pack, unpack, receive, send | back-pressure in `drain()`; sizes |
| Command dispatch (`_dispatch_command`) | none of its own | look up, check the overlay, inject, run, time out | checks that are stale when used; handlers in threads |
| Registry (`command_registry.py`) | `_commands`, `_ordered` | register, look up, list | two structures that must agree |
| Status registers (`scpi_standard.py`) | `_esr`, `_ese`, `_sre` | the `*` commands | globals shared by the threads of all sessions |
| Error queue (`errors.py`) | a deque of 20 | push, pop, count, clear | full queue; shared by all sessions |
| Overlay manager (`overlay_manager.py`, `scpi_overlay.py`, `hardware_backend.py`) | `_overlay`, `_loaded_name`, `_ip_inventory`, `_version` | load, unload, query | four fields written one by one in threads that outlive their timeout |
| Parsers (`scpi_parser.py`, `param_parser.py`) and formatting (`response_helpers.py`, `scpi_system.py`) | none | pure functions | quoting |
| Startup and discovery (`instrument.py`, `discovery.py`, `cli.py`) | advertiser, backend | register builtins, advertise, listen | order of steps; failure half way |

How they interact: the server makes one session per connection to the sync
port, and the session runs two asyncio tasks, the receive loop and the dispatch
loop, joined by the queue. A connection to the async port is attached to a
session by its id and becomes a third task that shares the session's fields and
its `_send_lock`. Handlers run in the event loop (coroutines) or in its thread
pool (functions); from there they reach the status registers, the error queue
and the overlay manager, which all sessions share.


What makes each part correct:

- **Session**: every command taken from the socket is settled once (answered,
  finished without an answer, rejected, or lost to a device clear), commands run
  whole, one at a time and in order; in sync mode the receive loop does not run
  ahead and answers keep the order of the commands; a session whose client is
  gone ends.
- **Device clear**: nothing sent before it survives, nothing sent after it is
  lost, and it is always answered.
- **Async channel**: MAV is not lost; the channel belongs to the session its
  client asked for, one to a session.
- **Registers and error queue**: no error disappears unreported, and an event
  does only where it met a write that was under way.
- **Command dispatch**: a value sent is the value the handler gets; a command
  that was answered "Command timeout" before it began does not begin later, and
  one session's hanging handlers do not hold another's coroutines.
- **Overlay manager**: what a change that ran alone has left is there in all four
  fields, and a handler gets IPs of an overlay that was there.
- **Registry and startup**: what is listed is what runs, and the backend and the
  OVERLAY: commands drive the same overlay manager; an instrument that serves
  has two ports of its own.

## Modules

| Module | Models | Built on |
|---|---|---|
| `SessionState` | the fields of `HiSLIPSession`, the tasks' program counters, the two sockets, `_send_lock` | |
| `HiSLIPSession` | `run()`, `_receive_loop`, `_dispatch_loop` | `SessionState` |
| `AsyncChannel` | `AsyncChannel._loop`, `_handle`, the device clear | `HiSLIPSession` |
| `HiSLIPClient` | the client (external): what it sends, reads, and when it leaves | `AsyncChannel` |
| `HiSLIPLink` | one session, its channel and its client composed; fairness; properties | `HiSLIPClient` |
| `CommandPipeline` | abstract specification of the command queue | |
| `HiSLIPServer` | session ids, the session table, correlation of async connections | |
| `StatusRegisters` | the IEEE 488.2 registers and the error queue, access by access | |
| `OverlayControl` | load and unload in threads; the dispatch of a command that requires IPs | |
| `CommandText` | from the text of a command to the values its handler is called with: `normalize_scpi`, `extract_args` | |
| `CommandDispatch` | the handlers of all sessions, the thread pool they share (external), the timeout | |
| `CommandRegistry` | the table and the list of descriptors | |
| `Instrument` | an instrument from construction to the listening server | `CommandRegistry` |
| `MC*` | instances for TLC | their module |
| `HiSLIPLinkProofs` | theorems: types, order of commands and answers, `CommandPipeline` | `HiSLIPLink` |
| `HiSLIPLinkClears` | theorems: device clears, fragments, MAV | `HiSLIPLinkProofs` |
| `HiSLIPServerProofs`, `StatusRegistersProofs`, `OverlayControlProofs`, `CommandTextProofs`, `CommandDispatchProofs`, `InstrumentProofs` | theorems | their module |

### How the modules correspond to the code

**Atomicity.** The three tasks of a session share one event loop: the code
between two awaits that suspend cannot be interrupted, and is one action. The
awaits that suspend are socket reads, `queue.get()`, `done.wait()`, the
handler, `_send_lock` and `drain()`. Taking a free lock or writing to an async
socket whose buffer stays below the limit does not suspend and is part of the
action around it. Threads are different: in `StatusRegisters` and
`OverlayControl` an action is one access to one shared field. CPython 3.8 and
3.9, which `pyproject.toml` admits, may switch threads between any two
bytecodes; later versions switch at fewer points.

**Session.** `recvPc`, `dispPc` and `asyncPc` say where each task is suspended.
A command is its message id; its text is the set of ids whose fragments make it
up (`body`). `syncDone` is the id whose event `_current_sync_done` is, so an
event set for another command (its waiter gone) wakes nobody. `sendQ` is
`_send_lock`, which asyncio serves in order: its head holds the lock and has
written its frame, and waits for `drain()`. `drain()` returns when at most
`SendWindow` frames are unread, or when the client is gone. The `None` that
ends the dispatch loop is `sentinel`; it is always behind the commands, because
nothing is put after it. `fate`, `interrupts` and `timedOut` are history. The
session starts after its handshake; a failed handshake is `SyncEnd` of
`HiSLIPServer`.

A handler has three outcomes (`DispFinish`): a text, the empty text, or one that
kills the dispatch task: a result without `encode()`, or a `CancelledError`,
which `_dispatch_command` raises again. A handler that never returns is the
absence of fairness on `DispFinish`.

**Client.** It pipelines as `tests/test_concurrent.py` does, in both modes, may
leave at any moment, on either socket, and need not read. During a device clear
it does what the server counts on: it sends nothing on the sync socket until it
has answered DEVICE_CLEAR_COMPLETE and read the acknowledgement.

**Server.** A session is entered in the table before its handshake and leaves
it when its socket is closed. `async_open` is tested and set without an await
that suspends in between: a fresh socket takes the 16 bytes of the answer.

**Registers.** Registers are sets of bits. `_esr |= bit` is a read and a write.
`due` is the history of events that were recorded and neither reported nor
cleared, `unreported` of those not reported since. For a thread between its
read and its write (`Midway`), `recorded` and `reported` hold the events that
others have recorded and reported since its read. When it writes, what it has
missed becomes `raced`: those events may now be lost, or be there again. `raced`
follows from the order of the accesses and from what `*ESR?` reports, not from
what a write leaves in the register. `*ESE` and `*SRE` always
fail (see "Other behaviour" below), so the enable masks are 0 for good, the summary bits
are never set, and a status byte is its MAV bit, which is told in
`AsyncChannel`. Errors are numbered in the order of their pushes; the queue has
a lock of its own, so a push, a pop or a clear is one action.

**Text.** A text is a sequence of classes of characters: the two quotes, blank
(and tab), other white space, digit, letter. `Scanning(s)` says
where the loop of `_split_args` is behind each character of `s`: it starts from
`Split0`, and `Scan` is its body. An order is what a client composes: a mnemonic
and `Words`, each a value, bare or in quotes of a kind it does not contain,
behind a gap. `TextOf` is the text it sends, `ValuesOf` what it means, which is
what `ValuesArrive` compares with. `Resent` is a parsed command as a client
would send it again. A converted number keeps the text it was read from. A
signature gives the handler's parameters, of which the first may be IPs; whether
its module postpones annotations is chosen freely.

**Dispatch.** A handler is a function (a job of the pool, no timeout), a
coroutine (in the event loop, under `wait_for`), or an `offload`: a coroutine
that awaits a job of the pool, as those of `OVERLAY:LOAD` and `OVERLAY:UNLOAD`
do. The `*CLS` of a device clear is a function called by a receive loop
(`Clearers`). `withdrawn` holds the jobs whose future was cancelled in the
backlog; the pool throws them away when their turn comes. A job that a thread
has begun goes on after the timeout, and its result reaches nobody.

**Overlay.** `job` is what each thread of the pool runs. A command that times
out stops waiting; its thread goes on. `_dispatch_command` runs in the event
loop without suspending up to the handler, so no other dispatch begins in the
middle (`LoopFree`), but the threads may write between any two of its reads.
`overlay` etc. hold the bitfile whose object, name, inventory or version the
field is.

**Startup.** Sessions read the registry and never write it, and the built-in
commands are registered without an await; the model takes one step for each
and allows nothing in between. A handler is a model value, and the handler
of an OVERLAY: command is the manager it closes over. `start_async` may raise
where it opens a socket, may be cancelled, and may be called again, with the
registry and the manager as the last call left them. What `load_overlay` does to
the manager is told in `OverlayControl`.

Each call of `start_async` brings two ports of its own, out of `Ports`.
`start()` opens them one after the other (`BindSync`, `BindAsync`), enters its
`async with` (`Enter`) and closes both where that ends (`Cancel`). `opened` holds
the ports of the start in progress. A start that ends before `Enter` closes
nothing (`Abandon`): a port is taken, or the start is cancelled, also in the
turn of the loop that `start_server` waits once its sockets listen. What it had
opened is `leftOver`, until the event loop ends (`LoopEnds`); `cutShort` remembers
the ports such starts were called with.

## What the runs check

| Run | Instance | Shows |
|---|---|---|
| `session` | 3 ids, queue of 2, 1 unread frame, 1 clear, fragments, triggers, unexpected and malformed messages, dying dispatch loop, both modes | `TypeOK`, `SyncWindow`, `SyncAnswersInOrder`, `InOrder`, `WholeCommands`; `QueueIsPipeline` (implements `CommandPipeline`) |
| `clears` | 2 ids, 2 clears, no unread frame, 1 message out of all kinds of the async channel, both modes | `OnlyClearedLost`, `ClearLeavesNothing`, `MavReported` |
| `live` | 2 ids, queue of 2, no unread frame, 1 clear, both modes | `ClearAnswered`, `CommandsSettle`, `SyncWaitEnds`, `SyncDisconnectCloses` |
| `server` | 3 clients, 3 async connections, 2 ids, which therefore are used again; deadlock is checked | `TypeOK`, `OneChannel`, `TableExact`, `CorrelatesUnlessReused` |
| `registers` | 2 sessions and the `*CLS` of a device clear, queue of 2, 3 errors; deadlock is checked | `TypeOK`, `EventNotLost`, `ReportedOnce`, `ErrorsExact` |
| `overlay` | 2 sessions, 2 threads, 2 overlays of which one has both required IPs, timeouts | `TypeOK`, `FreshIps`, `LastChangeHolds` |
| `startup` | 3 names (one of the user's, one standard, one OVERLAY:), 2 user handlers, 2 managers, each backend, any number of starts, each on 2 of 3 ports | `TypeOK`, `ListingAgrees`, `OneManager`, `PortsOwned`, `PlacesKept` |
| `text` | all texts of up to 6 characters (`MaxText`), all orders of up to 2 values (`MaxValue` characters each), signatures with IPs, each type and defaults | `TypeOK`, `ValuesArrive`, `QuotesWhole`, `CalledInPlace` |
| `dispatch` | 2 sessions and the receive loop of a clear, 4 calls, 2 threads; deadlock is checked | `TypeOK`, `OwnJob`, `NoLateStart`, `CoroutinesEnd`, `FunctionsStart` |

Three runs end in a violation on purpose: each shows that the code does not do
what a comment or a document says.

| Run | Says | Does |
|---|---|---|
| `overlap_close` | S:101 "Send sentinel to stop dispatch loop" | In overlap mode, with a full queue, the sentinel is given up (S:104) and `run()` awaits a dispatch task that waits in `queue.get()` for ever. |
| `sync_crash` | S:183 "block until dispatch signals completion" | A truthy result that is no text kills the dispatch task (S:246) without the signal; the receive loop waits for ever, also when the client has gone. |
| `race` | `scpi_standard.py:96` "Sets OPC bit in ESR; since all commands are sync, set immediately" | The registers are globals of all sessions. Between the read and the clear of one session's `*ESR?` (`scpi_standard.py:106`) the `*OPC` of another is undone, and nobody is told of it. |

Other behaviour met while modelling, which explains the premises of the
properties and is not asserted by a run:

- A device clear's `*CLS` in the middle of an `*OPC` is undone by the write,
  with one session as well: the events it has cleared are back. They count as
  `unreported`, so `ReportedOnce` does not exclude them.
- After 65535 ids `_handle_sync` gives out an id that may still be in use. The
  table entry of the live session is overwritten, and popped by whichever of
  the two ends first. `reused` remembers that this has happened;
  `TableExact` and `CorrelatesUnlessReused` speak of the time before.
- An `OVERLAY:LOAD` that has timed out goes on loading, so an overlay may appear
  after a later `OVERLAY:UNLOAD` was answered OK; two threads then overlap
  with one session only. `LastChangeHolds` speaks of changes that had no
  other beside them.
- `TUTORIAL.md:190` says that during a load "commands queued by other clients
  wait in the pipeline". Each session has a pipeline of its own, so another
  session's commands run meanwhile, an `OVERLAY:LOAD` among them.
- Two loads or unloads that overlap can leave fields of different overlays
  (`LastChangeHolds` says nothing of what they leave); a load that finds the name
  cleared by an unload fails after it has written three of them.
- `OVERLAY:STATUS?` reads the name twice and can answer `LOADED:None`.
- `README.md:163` says that the built-in commands are registered "after your
  commands (so you can override any of them)". `register` replaces a name it
  knows (`command_registry.py:48`), so the built-in command replaces the user's.
- `param_parser.py:14` says "Supported annotations: int, float, bool, str". The
  hint is compared with the type (`param_parser.py:33`), but in a module with
  `from __future__ import annotations` it is a text: the handler gets a str
  (`Convert`). The SDK's own `*ESE 32` and `*SRE 32` answer `ERR:-300` for this reason.
- `README.md:126` calls `timeout_ms` "not server-enforced"; it is the timeout of
  `wait_for` (S:303), for coroutines only.
- `_split_args` splits at blanks and tabs; its docstring says white space. An
  argument beyond the handler's parameters is dropped without an error. A
  parameter without a hint loses its quotes, where `TUTORIAL.md:246` says "raw
  string".
- After a failed second port the sync socket stays open in the same event loop.
  A retry on the same ports fails; one on other ports serves, while the left-over
  socket still accepts clients, whose sessions the async port of the new
  server does not know.
- In sync mode the queue can be full at the end only after as many clears that
  cut a wait short as it has places; hence the premise of
  `SyncDisconnectCloses`.

**Bounds.** Three message ids fill a queue of two with one command running, so
`RecvOverflow`, the dropped sentinel and a command behind a rejected one occur;
QUEUE_DEPTH is 8 in the code, and nothing depends on more than "full", "empty"
and "in between". `SendWindow = 1` lets one frame be written without the
client reading and makes the next one wait. One clear meets every state of the
loops; the second (run `clears`) meets the late acknowledgement of the first.
`clears` is a run of its own because the async messages and the second clear
multiply the states; there `SendWindow` is 0, so that every frame waits for its
reader. In `server` two ids and three sessions make
an id come back both after its session has ended and while it lives.
In `startup` three names let each kind of command be registered over by the
others, and a start be tried again after every state of the registry; three
ports let a second start take one, both or neither of the first one's.
In `registers` two sessions and a `*CLS` let three threads be at the register,
two of them midway: a lost event and one reported twice need no more.
In `text` six characters hold a mnemonic, two arguments and a pair of quotes, or a
quote left open; orders are longer, as each value may add its quotes. In `dispatch` four
calls let both threads hang while a job of each kind waits or is withdrawn.
Two threads are enough for two changes to overlap, and for one that was given
up to overlap with the next. Runs with `CHECK_DEADLOCK FALSE` are those where
the code stops: a dead dispatch loop, or a dropped sentinel.

**Fairness.** `Fairness` of `HiSLIPLink` asks that the event loop goes on
running a task that can run: weak fairness of the receive loop, of the async
channel (its five-second timeout included) and of a dispatch loop that holds
`_send_lock`; asyncio's ready queue is FIFO and `asyncio.Lock` is fair. It also
asks that the client reads what it is sent, because `_send_raw` waits in
`drain()` without a limit. Nothing is asked of handlers, since a function in a
thread has no timeout: that handlers return is the premise `HandlersReturn` of
the properties that need it, and `ClearAnswered` does without. `Fairness` of
`CommandDispatch` asks that a free thread takes a job and that a timer that is
due is served. It, too, asks nothing of handlers: `CoroutinesEnd` holds although
no function ever returns, and `FunctionsStart` has as its premise that threads
come free again and again.

## What is proved

For every value of the constants allowed by the named assumptions:

| Theorem | Module | Argument |
|---|---|---|
| `TypeCorrect` | `HiSLIPLinkProofs` | `TypeOK` is inductive; one lemma per action of the three tasks and the client. The capacity of the queue is part of it: only `RecvCommand` appends, behind `~QueueFull`. |
| `SyncWindowAlways` | `HiSLIPLinkProofs` | `SyncWindow` is inductive relative to `TypeOK`. Each step is shown not to bring the commands outstanding nearer to what is allowed (`WindowKept`): a command that is added makes the receive loop wait for it, and a wait ends because its command was settled or a clear counts an interrupt. |
| `CommandsInOrder` | `HiSLIPLinkProofs` | `OrderInv`: what the client has numbered in the socket goes upwards, and only the open fragment has `nextId` (`SocketOrder`), the queue is sorted, behind `cur` and ahead of the socket (`QueueOrder`), and `fate` says of each command where it is (`FateAgrees`), without which a command might be queued twice. |
| `QueueRefinesPipeline` | `HiSLIPLinkProofs` | the refinement, step by step: admitting, turning away, starting, ending, skipping and flushing are the actions of `CommandPipeline`; any other step leaves `queue` and `fate` alone. That a command is admitted once, and the one that ends is the one that runs, is `OrderInv`. |
| `AnswersInOrder` | `HiSLIPLinkProofs` | `AnswersInv`: while no clear has cut a wait short, all that is on its way out is also older than every command that can still be answered (`Behind`). The receive loop answers only when nothing is outstanding, which is `SyncWindow`; `_send_lock` is a queue, and what waits in it goes out behind what is written (`SendOutgoing`, `DrainedOutgoing`). |
| `WholeAlways` | `HiSLIPLinkClears` | `WholeInv`: between a fragment, in the buffer or the socket, and the end of another command lies its own end or a DEVICE_CLEAR_ACK (`Apart`), and the client can send no other end before one of these (`Settles`). |
| `OnlyClearedLostAlways` | `HiSLIPLinkClears` | `TokenInv`: at most one ASYNC_DEVICE_CLEAR, DEVICE_CLEAR_COMPLETE and acknowledgement is under way. `LostInv`: while commands are dropped (`clearPending`), or an acknowledgement is in the socket, all in the queue and in front of it is from before the clear; the late acknowledgement of a clear that timed out included. |
| `ClearLeavesNothingAlways` | `HiSLIPLinkClears` | `ClearInv` follows a clear through its stages, each of which excludes the messages of the others; from the sweep on, nothing from before the clear is left in socket, buffer or queue (`Swept`). |
| `MavAlwaysReported` | `HiSLIPLinkClears` | an action property: the only step of the channel that takes MAV back appends the report, which needs the type of the async socket. |
| `TypeCorrect` | `HiSLIPServerProofs` | inductive; `SuccessorId` is the arithmetic of the wrap. |
| `OneChannelAlways` | `HiSLIPServerProofs` | with `ServingHasSession`: without it, `AsyncEnd` could clear `async_open` of a session another connection serves. Holds also after ids are used twice. |
| `TableExactAlways` | `HiSLIPServerProofs` | with `AliveHasId`: a session alive has an id, or its `pop` would miss its entry. |
| `CorrelatesAlways` | `HiSLIPServerProofs` | an action property: a connection gets its asker only in `AsyncInitialize` (`Unasked`), where `TableExact` gives the session of the client. |
| `EventsKept` | `StatusRegistersProofs` | for any number of sessions: `EventInv` says of each thread that is midway that what it has read and what was recorded since, `raced` aside, cover every event still due. |
| `NoneReportedTwice` | `StatusRegistersProofs` | for any number of sessions: `EventInv` also says that what a thread that is midway has read was not reported, or is in its `reported`. With one session `raced` stays empty (`NoRaceAlone`), and neither theorem has an exception. |
| `ErrorsAlwaysExact` | `StatusRegistersProofs` | for any number of sessions: `ErrorInv` relates the queue to the counts of errors pushed and taken; the rest is arithmetic on indices. |
| `TypeCorrect` | `StatusRegistersProofs` | with `ErrorInv`: what is in the queue was pushed, so what is taken from it is not above `pushed`. |
| `TypeCorrect` | `OverlayControlProofs` | inductive. |
| `FreshIpsAlways` | `OverlayControlProofs` | `FreshInv`: one dispatch at a time holds the event loop (`OneDispatch`), which is why `left` can be one variable; collected and remaining IPs are together the required ones (`Collected`); the overlay of the moment is among those seen (`Seen`), also when a thread replaces it between two lookups. |
| `LastChangeAlways` | `OverlayControlProofs` | `ChangeInv`: a change that is alone so far has written the fields up to where it is (`NewUpTo`), the others are as the last change left them (`OldFrom`), and what is left is unknown as soon as two overlap (`KnownLeft`). A load that is alone cannot fail in its last step: the name it reads again is its own. |
| `CalledInPlaceAlways` | `CommandTextProofs` | arithmetic on positions, with the assumption that a handler's IPs come first: the k-th parameter is an IP or the one for argument k - n. Needs nothing of how the text was split. |
| `QuotesWholeAlways` | `CommandTextProofs` | by induction over the characters: what the loop has completed are `Whole` arguments, not empty, with no blank outside quotes and every quote closed (`ScanningSound`); to scan a whole argument behind a gap adds just that argument (`ScanGap`, `ScanAnother`), so that by induction over the arguments the same command comes out again (`ParsedAgain`). |
| `ValuesArriveAlways` | `CommandTextProofs` | a value in quotes that it does not contain, or bare, is a whole argument (`QuotedWord`); the scan of an order is then that of its words (`OrderArrives`), and `StripQuotes` takes off what `Quoted` put on. |
| `TypeCorrect` | `CommandTextProofs` | with `TextInv`, the invariant of the last two: a command is the parse of some text, and if its client meant values, that of an order. |
| `TypeCorrect` | `InstrumentProofs` | inductive, with the invariant of the next rows: a handler of an OVERLAY: command is a manager, never `None`. |
| `ListingAlways` | `InstrumentProofs` | `ListingAgrees` is inductive: `register` decides by the table whether to append or replace, and the table holds a name exactly when the list does. |
| `PlacesAlways` | `InstrumentProofs` | an action property of the same two cases. |
| `OneManagerAlways` | `InstrumentProofs` | `Linked`: backend and instrument get a manager together; `Overlaid`: the OVERLAY: commands registered so far hold it, all of them once the loop is over. |
| `PortsAlways` | `InstrumentProofs` | `PortInv` says for each phase of a start which ports are open, and that none of them is left over (`CanBind`); what is left over is among the ports of starts that were cut short. |
| `TypeCorrect` | `CommandDispatchProofs` | inductive; the limit of the pool by the cardinality of a set with one more element. |
| `OwnJobAlways` | `CommandDispatchProofs` | `OwnJob` is inductive with `TypeOK`; the lemmas say what appending to the backlog and taking from it do to the jobs that wait. |
| `NeverLate` | `CommandDispatchProofs` | an action property: what `Take` begins waited and was not withdrawn, so `OwnJob` says that it is awaited. |

Each strengthened invariant was model-checked on the instance of its run
before it was proved, except that of `TextInv` only what follows for the
arguments was: it speaks of all texts. The theorems about texts go over their
characters and arguments by an induction principle for sets of numbers
(`Induction`), derived from < being well-founded, as the library's own takes an
operator that the provers cannot instantiate. The theorems about the link hold for every `MaxMsgs`,
`QueueDepth` and `SendWindow` and any number of clears that the assumptions
allow, in both modes; those about answers speak of sync mode.

Only model-checked: the liveness properties (`ClearAnswered`, `CommandsSettle`,
`SyncWaitEnds`, `SyncDisconnectCloses`, `CoroutinesEnd`, `FunctionsStart`), which
rest on fairness and are out of the prover's reach. The properties that
a run shows violated are false as stated, and there is nothing to prove.

## What is not modelled

- The byte stream of `hislip.py`: a frame is one element of a channel, and a
  malformed one is the kind `bad`. The size limit is the same to the session.
- Formatting (`response_helpers.py`, the JSON of `scpi_system.py`): it keeps no
  state. What it lists is `ordered` of `CommandRegistry`.
- Discovery: one registration with an external library in a thread. It starts
  before the ports are opened (`instrument.py:130`) and nothing ever stops it;
  nothing reads its state, so there is no interaction to check.
- The values of numbers (`0x`, `0b`, exponents), letter case, and arguments in
  any coding but the classes of characters above.
- `OVERLAY:STATUS?` and `OVERLAY:VERSION?`, which only read, and the GPIO access
  of the backend.
- Port 0, and two calls of `start_async` at the same time on one instrument.
- The pool's workers in `OverlayControl`: `Workers` is a bound there. The limit
  of the pool and its backlog are told in `CommandDispatch`.
- The mock classes (test doubles), the DMA buffer (one external call in a
  context manager), the command line, and the profile generator (a client that
  writes a file).

## Plan

The order in which the modules were written: `SessionState`, `HiSLIPSession`,
`AsyncChannel`, `HiSLIPClient`, `HiSLIPLink` with `CommandPipeline`;
`HiSLIPServer`; `StatusRegisters`; `OverlayControl`; `CommandRegistry` and
`Instrument`; `CommandText`; `CommandDispatch`.

Every safety property that a passing run checks is proved, and the refinement of
`CommandPipeline`. What is left is in "What is not modelled", and liveness, which
stays with TLC.
