---------------------------- MODULE OverlayControl ----------------------------
(***************************************************************************)
(* The overlay manager, the OVERLAY:* commands that drive it and the       *)
(* dispatch of a command that requires IPs (overlay_manager.py,            *)
(* scpi_overlay.py, _dispatch_command in hislip_session.py).               *)
(*                                                                         *)
(* load and unload run in threads of the event loop's pool and write the   *)
(* manager's four fields one after the other, without a lock; the thread   *)
(* goes on when the command that started it has timed out.  The dispatch   *)
(* of a command reads the fields from the event loop.  Each action is one  *)
(* access to a field.                                                      *)
(***************************************************************************)
EXTENDS Naturals, FiniteSets

CONSTANTS
    Sessions,    \* dispatch loops
    Workers,     \* bound: threads of the pool
    Bitfiles,    \* overlays that can be loaded
    IpsOf,       \* the IPs of each, pynq.Overlay's ip_dict
    Required,    \* requires_ips of the command that is dispatched
    None         \* no overlay, no thread, nothing

ASSUME OverlayAssumption ==
    /\ None \notin Bitfiles /\ None \notin Workers
    /\ DOMAIN IpsOf = Bitfiles
    /\ Required # {}

VARIABLES
    overlay,     \* _overlay: whose object it is
    loadedName,  \* _loaded_name
    inventory,   \* _ip_inventory: whose it is
    version,     \* _version: whose it is
    job,         \* what each thread runs
    pc,          \* where each dispatch loop is
    worker,      \* the thread whose result a dispatch loop waits for
    left,        \* the IPs the dispatch in progress has still to look up
    injected,    \* the overlay each IP object of a handler came from
    expected,    \* history: what the last change that ran alone left behind
    current      \* history: the overlays there were during a dispatch

fields == <<overlay, loadedName, inventory, version>>
vars   == <<fields, job, pc, worker, left, injected, expected, current>>

Contents == Bitfiles \cup {None}
Ops      == {"none", "load", "unload"}
Steps    == {"construct", "overlay", "name", "inventory", "version", "done",
             "failed"}
Pcs      == {"idle", "wait", "verify", "inject", "run"}

\* alone is history: no other change has been in progress beside this one.
Job(op, bit, step, alone) ==
    [op |-> op, bit |-> bit, step |-> step, alone |-> alone]
NoJob      == Job("none", None, "done", FALSE)
NoIps      == [ip \in {} |-> None]
Unknown    == "unknown"

\* No dispatch is between its first test and its handler: the event loop,
\* which runs such a stretch without suspending, is free.
LoopFree == \A s \in Sessions : pc[s] \notin {"verify", "inject"}

Init ==
    /\ overlay = None /\ loadedName = None
    /\ inventory = None /\ version = None
    /\ job = [w \in Workers |-> NoJob]
    /\ pc = [s \in Sessions |-> "idle"]
    /\ worker = [s \in Sessions |-> None]
    /\ left = {} /\ injected = [s \in Sessions |-> NoIps]
    /\ expected = None
    /\ current = [s \in Sessions |-> {}]

-----------------------------------------------------------------------------
(* OVERLAY:LOAD and OVERLAY:UNLOAD hand load or unload to a thread and     *)
(* wait for its end.                                                       *)

Ended(w)   == job[w].step \in {"done", "failed"}
Changing   == \E w \in Workers : ~Ended(w)

Start(s, op, bit, step) ==
    /\ LoopFree /\ pc[s] = "idle"
    /\ \E w \in Workers :
         /\ job[w] = NoJob
         /\ job' = [v \in Workers |->
                      IF v = w THEN Job(op, bit, step, ~Changing)
                      ELSE [job[v] EXCEPT !.alone = FALSE]]
         /\ worker' = [worker EXCEPT ![s] = w]
    /\ expected' = IF Changing THEN Unknown ELSE expected
    /\ pc' = [pc EXCEPT ![s] = "wait"]
    /\ UNCHANGED <<fields, left, injected>>

OverlayLoad(s)   == \E bit \in Bitfiles : Start(s, "load", bit, "construct")
OverlayUnload(s) == Start(s, "unload", None, "overlay")

\* The command is answered OK, or with an error if the thread has failed.
Answer(s) ==
    /\ LoopFree /\ pc[s] = "wait" /\ Ended(worker[s])
    /\ job' = [job EXCEPT ![worker[s]] = NoJob]
    /\ pc' = [pc EXCEPT ![s] = "idle"]
    /\ worker' = [worker EXCEPT ![s] = None]
    /\ UNCHANGED <<fields, left, injected, expected>>

\* wait_for gives the coroutine up; the thread is not stopped.
CommandTimeout(s) ==
    /\ LoopFree /\ pc[s] = "wait"
    /\ LET w == worker[s] IN
         job' = IF Ended(w) THEN [job EXCEPT ![w] = NoJob] ELSE job
    /\ pc' = [pc EXCEPT ![s] = "idle"]
    /\ worker' = [worker EXCEPT ![s] = None]
    /\ UNCHANGED <<fields, left, injected, expected>>

-----------------------------------------------------------------------------
(* The threads.                                                            *)

threadFrame == <<pc, worker, left, injected>>

At(w, step)   == job[w].op # "none" /\ job[w].step = step

Then(w, step) == job' = [job EXCEPT ![w].step = step] /\ UNCHANGED expected

\* Nobody hears of the end of a thread that has been given up.
End(w, outcome) ==
    /\ job' = [job EXCEPT ![w] =
                 IF \E s \in Sessions : worker[s] = w
                 THEN [@ EXCEPT !.step = outcome] ELSE NoJob]
    /\ expected' = IF job[w].alone /\ outcome = "done" THEN job[w].bit
                   ELSE expected

\* pynq.Overlay(bitfile): external, it may raise.
Construct(w) ==
    /\ At(w, "construct")
    /\ Then(w, "overlay") \/ End(w, "failed")
    /\ UNCHANGED <<fields, threadFrame>>

SetOverlay(w) ==
    /\ At(w, "overlay")
    /\ overlay' = job[w].bit
    /\ Then(w, "name")
    /\ UNCHANGED <<loadedName, inventory, version, threadFrame>>

SetName(w) ==
    /\ At(w, "name")
    /\ loadedName' = job[w].bit
    /\ Then(w, "inventory")
    /\ UNCHANGED <<overlay, inventory, version, threadFrame>>

\* Fault: unload keeps the inventory.
InventoryKept(w) == IF job[w].op = "unload" THEN inventory ELSE job[w].bit

NewInventory(w) == job[w].bit

SetInventory(w) ==
    /\ At(w, "inventory")
    /\ inventory' = NewInventory(w)
    /\ Then(w, "version")
    /\ UNCHANGED <<overlay, loadedName, version, threadFrame>>

\* load falls back on the name, which it reads again: os.path.splitext(None)
\* raises.
SetVersion(w) ==
    /\ At(w, "version")
    /\ \/ version' = job[w].bit /\ End(w, "done")
       \/ /\ job[w].op = "load"
          /\ IF loadedName = None
             THEN End(w, "failed") /\ UNCHANGED version
             ELSE End(w, "done") /\ version' = loadedName
    /\ UNCHANGED <<overlay, loadedName, inventory, threadFrame>>

-----------------------------------------------------------------------------
(* _dispatch_command for a command with requires_ips.  An error is         *)
(* answered at once and changes nothing.                                   *)

dispatchFrame == <<fields, job, worker, expected>>

\* is_overlay_loaded()
Dispatch(s) ==
    /\ LoopFree /\ pc[s] = "idle"
    /\ loadedName # None
    /\ pc' = [pc EXCEPT ![s] = "verify"]
    /\ left' = Required
    /\ UNCHANGED <<dispatchFrame, injected>>

\* Fault: the IP comes out of the inventory's overlay.
IpSourceInventory == inventory

IpSource == overlay

\* Fault: get_ip does not test whether there is an overlay.
FoundUnchecked(ip) == IpSource # None => ip \in IpsOf[IpSource]

\* get_ip finds the IP.  The code reads the overlay twice, which is one step
\* here: the IP is the second read's, and where either read finds no overlay
\* the command fails, as with one read, though with another exception.
Found(ip) == IpSource # None /\ ip \in IpsOf[IpSource]

\* The required IPs are looked up once to see whether any is missing...
Verify(s) ==
    /\ pc[s] = "verify"
    /\ \E ip \in left :
         IF ~Found(ip)
         THEN pc' = [pc EXCEPT ![s] = "idle"] /\ left' = {}
         ELSE /\ left' = IF left = {ip} THEN Required ELSE left \ {ip}
              /\ pc' = IF left = {ip} THEN [pc EXCEPT ![s] = "inject"] ELSE pc
    /\ UNCHANGED <<dispatchFrame, injected>>

\* ... and once more for the objects the handler is called with.
Inject(s) ==
    /\ pc[s] = "inject"
    /\ \E ip \in left :
         IF ~Found(ip)
         THEN /\ pc' = [pc EXCEPT ![s] = "idle"] /\ left' = {}
              /\ injected' = [injected EXCEPT ![s] = NoIps]
         ELSE /\ left' = left \ {ip}
              /\ injected' = [injected EXCEPT ![s] =
                   [i \in DOMAIN @ \cup {ip} |->
                      IF i = ip THEN IpSource ELSE @[i]]]
              /\ pc' = IF left = {ip} THEN [pc EXCEPT ![s] = "run"] ELSE pc
    /\ UNCHANGED dispatchFrame

HandlerReturns(s) ==
    /\ LoopFree /\ pc[s] = "run"
    /\ pc' = [pc EXCEPT ![s] = "idle"]
    /\ injected' = [injected EXCEPT ![s] = NoIps]
    /\ UNCHANGED <<dispatchFrame, left>>

-----------------------------------------------------------------------------
\* The history variable current follows every step.
Watch ==
    current' = [s \in Sessions |->
        CASE pc'[s] \in {"verify", "inject"} -> current[s] \cup {overlay, overlay'}
          [] pc'[s] = "run" -> current[s]
          [] OTHER -> {}]

SessionStep(s) ==
    \/ OverlayLoad(s) \/ OverlayUnload(s) \/ Answer(s) \/ CommandTimeout(s)
    \/ Dispatch(s) \/ Verify(s) \/ Inject(s) \/ HandlerReturns(s)

ThreadStep(w) ==
    \/ Construct(w) \/ SetOverlay(w) \/ SetName(w) \/ SetInventory(w)
    \/ SetVersion(w)

Next ==
    \/ \E s \in Sessions : SessionStep(s) /\ Watch
    \/ \E w \in Workers : ThreadStep(w) /\ Watch

Spec == Init /\ [][Next]_vars

-----------------------------------------------------------------------------
(* Properties                                                              *)

TypeOK ==
    /\ overlay \in Contents /\ loadedName \in Contents
    /\ inventory \in Contents /\ version \in Contents
    /\ job \in [Workers -> [op : Ops, bit : Contents, step : Steps,
                         alone : BOOLEAN]]
    /\ pc \in [Sessions -> Pcs]
    /\ worker \in [Sessions -> Workers \cup {None}]
    /\ left \subseteq Required
    /\ \A s \in Sessions : /\ DOMAIN injected[s] \subseteq Required
                           /\ \A ip \in DOMAIN injected[s] :
                                injected[s][ip] \in Bitfiles
    /\ expected \in Contents \cup {Unknown}
    /\ current \in [Sessions -> SUBSET Contents]

\* While no thread is changing it, the manager is, in all four fields, what
\* the last load or unload has left that had no other beside it: its overlay,
\* or nothing ("Gracefully unload current overlay", scpi_overlay.py:72).  A
\* load that failed has changed nothing, and one whose command has timed out
\* still takes effect.
LastChangeHolds ==
    expected # Unknown /\ ~Changing =>
        \A field \in {overlay, loadedName, inventory, version} :
            field = expected

\* A handler is called with all the IPs it requires, each of an overlay that
\* was there while its command was dispatched, even while other sessions and
\* threads that were given up load and unload.
FreshIps ==
    \A s \in Sessions : pc[s] = "run" =>
        /\ DOMAIN injected[s] = Required
        /\ \A ip \in Required : injected[s][ip] \in current[s] \ {None}
=============================================================================
