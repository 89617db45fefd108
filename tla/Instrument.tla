------------------------------- MODULE Instrument -------------------------------
(***************************************************************************)
(* An Instrument (instrument.py) from its construction to the server that  *)
(* listens: the user's commands, the choice of a backend and an overlay    *)
(* manager, the built-in commands, and start_async, which may fail where   *)
(* it opens a socket, may be cancelled, and may be called again, on the    *)
(* same ports or on others.                                                *)
(*                                                                         *)
(* No session writes these fields, and the registration of the built-in    *)
(* commands has no await: one stretch in the code, one step for each       *)
(* command here, and no other action is possible in between.               *)
(***************************************************************************)
EXTENDS CommandRegistry

CONSTANTS
    UserHandlers,   \* handlers the user decorates
    BuiltIn,        \* handlers of the * and SYST: commands
    Managers,       \* overlay managers that can be made (a bound)
    BuiltIns,       \* sequence: mnemonics of the * and SYST: commands
    OverlayNames,   \* sequence: mnemonics of the OVERLAY: commands
    Ports           \* port numbers that start_async is called with, none of 0

ASSUME InstrumentAssumption ==
    /\ BuiltIns \in Seq(Names) /\ OverlayNames \in Seq(Names)
    /\ Handlers = UserHandlers \cup {BuiltIn} \cup Managers
    /\ None \notin Handlers

VARIABLES
    backend,    \* what kind of backend: MockBackend, PYNQBackend or another
    backendOm,  \* _om of a PYNQBackend
    manager,    \* overlay_manager
    made,       \* the overlay managers made so far
    pc,         \* where start_async is
    next,       \* the built-in command to be registered next
    port,       \* _port, once start_async has been called
    asyncPort,  \* _async_port
    opened,     \* the ports that the start in progress has opened
    leftOver,   \* the ports open in this event loop that no start will close
    cutShort    \* history: the ports of the starts in this event loop that
                \* had opened one, and ended before both were served

portVars == <<port, asyncPort, opened, leftOver, cutShort>>
vars     == <<registryVars, portVars, backend, backendOm, manager, made, pc, next>>

Backends == {"mock", "pynq", "other"}
Pcs      == {"setup", "builtins", "overlays", "bindSync", "bindAsync", "enter",
             "serving"}

\* Instrument(...): with a PYNQBackend the user brings a manager as well.
Init ==
    /\ RegistryInit
    /\ \/ backend \in {"mock", "other"} /\ backendOm = None /\ made = {}
       \/ backend = "pynq" /\ backendOm \in Managers /\ made = {backendOm}
    /\ manager = None
    /\ pc = "setup" /\ next = 1
    /\ port = None /\ asyncPort = None
    /\ opened = {} /\ leftOver = {} /\ cutShort = {}

-----------------------------------------------------------------------------
(* The user's calls.                                                       *)

setupFrame == <<pc, next, portVars>>

\* @inst.command
Command(n, h) ==
    /\ pc = "setup"
    /\ Register(Descriptor(n, h))
    /\ UNCHANGED <<setupFrame, backend, backendOm, manager, made>>

UsePynqBackend ==
    /\ pc = "setup"
    /\ \E om \in Managers \ made :
         made' = made \cup {om} /\ manager' = om /\ backendOm' = om
    /\ backend' = "pynq"
    /\ UNCHANGED <<setupFrame, registryVars>>

\* Fault: the backend keeps the manager it came with.
LinkForgotten(om) == UNCHANGED backendOm

\* _ensure_overlay_manager gives its manager to a PYNQBackend.
Link(om) == backendOm' = IF backend = "pynq" THEN om ELSE backendOm

\* load_overlay: _ensure_overlay_manager makes a manager if there is none.
\* What the load itself does, or its failure, is told in OverlayControl.
LoadOverlay ==
    /\ pc = "setup" /\ manager = None
    /\ \E om \in Managers \ made :
         made' = made \cup {om} /\ manager' = om /\ Link(om)
    /\ UNCHANGED <<setupFrame, registryVars, backend>>

-----------------------------------------------------------------------------
(* start_async                                                             *)

startFrame == <<backend, backendOm, manager, made>>

StartAsync ==
    /\ pc = "setup"
    /\ pc' = "builtins" /\ next' = 1
    /\ port' \in Ports /\ asyncPort' \in Ports
    /\ UNCHANGED <<registryVars, startFrame, opened, leftOver, cutShort>>

\* One of the commands of a list, bound to handler h; then the next phase.
RegisterNext(names, h, phase, nextPhase) ==
    /\ pc = phase
    /\ IF next \in DOMAIN names
       THEN /\ Register(Descriptor(names[next], h))
            /\ next' = next + 1 /\ pc' = pc
       ELSE /\ next' = 1 /\ pc' = nextPhase
            /\ UNCHANGED registryVars
    /\ UNCHANGED <<startFrame, portVars>>

\* Fault: the OVERLAY: commands are registered without a manager.
OverlaysAlways == "overlays"

AfterBuiltIns == IF manager = None THEN "bindSync" ELSE "overlays"

RegisterBuiltIn == RegisterNext(BuiltIns, BuiltIn, "builtins", AfterBuiltIns)

\* The handlers of the OVERLAY: commands hold the manager they came with.
RegisterOverlay == RegisterNext(OverlayNames, manager, "overlays", "bindSync")

listenFrame == <<registryVars, startFrame, next, port, asyncPort>>

\* A port that is open in this event loop is in use: external.
CanBind(p) == p \notin opened \cup leftOver

\* HiSLIPServer.start: one start_server after the other.
Bind(p, from, to) ==
    /\ pc = from /\ CanBind(p)
    /\ opened' = opened \cup {p} /\ pc' = to
    /\ UNCHANGED <<listenFrame, leftOver, cutShort>>

BindSync  == Bind(port, "bindSync", "bindAsync")
BindAsync == Bind(asyncPort, "bindAsync", "enter")

\* async with: both servers are at hand.
Enter ==
    /\ pc = "enter" /\ pc' = "serving"
    /\ UNCHANGED <<listenFrame, opened, leftOver, cutShort>>

\* The port is in use, here or in another process, or the start is cancelled:
\* before start_server listens or in the turn of the loop that it waits once
\* it does.  Nothing is closed.
Abandon ==
    /\ pc \in {"bindSync", "bindAsync", "enter"} /\ pc' = "setup"
    /\ opened' = {} /\ leftOver' = leftOver \cup opened
    /\ cutShort' = IF opened = {} THEN cutShort
                   ELSE cutShort \cup {port, asyncPort}
    /\ UNCHANGED listenFrame

\* Fault: only one of the servers is closed.
AsyncClosed == {asyncPort}

\* async with closes both servers.
BothClosed == {port, asyncPort}

\* The server is cancelled, and start_async may be called again.
Cancel ==
    /\ pc = "serving" /\ pc' = "setup"
    /\ opened' = {} /\ leftOver' = leftOver \cup (opened \ BothClosed)
    /\ UNCHANGED <<listenFrame, cutShort>>

\* asyncio.run ends: external.  The next start has an event loop of its own.
LoopEnds ==
    /\ pc = "setup" /\ leftOver \cup cutShort # {}
    /\ leftOver' = {} /\ cutShort' = {}
    /\ UNCHANGED <<listenFrame, pc, opened>>

-----------------------------------------------------------------------------
Next ==
    \/ \E n \in Names, h \in UserHandlers : Command(n, h)
    \/ UsePynqBackend \/ LoadOverlay
    \/ StartAsync \/ RegisterBuiltIn \/ RegisterOverlay
    \/ BindSync \/ BindAsync \/ Enter \/ Abandon \/ Cancel \/ LoopEnds

Spec == Init /\ [][Next]_vars

-----------------------------------------------------------------------------
(* Properties                                                              *)

TypeOK ==
    /\ RegistryTypeOK
    /\ backend \in Backends
    /\ {backendOm, manager} \subseteq made \cup {None} /\ made \subseteq Managers
    /\ pc \in Pcs /\ next \in Nat \ {0}
    /\ {port, asyncPort} \subseteq Ports \cup {None}
    /\ opened \subseteq Ports /\ leftOver \subseteq Ports /\ cutShort \subseteq Ports

\* A command keeps its place in the listing whatever is registered later
\* ("Replace in ordered list so JSON output stays consistent",
\* command_registry.py:47).
PlacesKept ==
    [][\A k \in DOMAIN ordered :
          k \in DOMAIN ordered' /\ ordered'[k].name = ordered[k].name]_vars

\* While the instrument serves, the OVERLAY: commands drive the manager that
\* a PYNQBackend looks IPs up in, in whatever order the backend was chosen,
\* an overlay loaded and the start tried.
OneManager ==
    pc = "serving" /\ backend = "pynq" /\ manager # None =>
        /\ backendOm = manager
        /\ \A k \in DOMAIN OverlayNames :
               commands[OverlayNames[k]].handler = manager

\* While the instrument serves it has two ports of its own, neither of them
\* one that an earlier start has left open: a client of a left-over port has
\* its session with the server of that start, and would look for it at the
\* async port of another.  And a port stays open behind a start only if a
\* start on that port was cut short: served and cancelled ("Blocks until
\* interrupted", instrument.py:120), or failed at its first port, it can be
\* started again.
PortsOwned ==
    /\ pc = "serving" => /\ opened = {port, asyncPort} /\ port # asyncPort
                         /\ opened \cap leftOver = {}
    /\ pc = "setup" => opened = {}
    /\ leftOver \subseteq cutShort
=============================================================================
