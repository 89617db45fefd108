--------------------------- MODULE StatusRegisters ---------------------------
(***************************************************************************)
(* The IEEE 488.2 registers of scpi_standard.py and the error queue of     *)
(* errors.py: module globals that all sessions share.                      *)
(*                                                                         *)
(* The handlers of the * commands are functions, so each runs in a thread  *)
(* of the event loop's pool.  A register is read and written without a     *)
(* lock, and CPython (3.8 and 3.9, which pyproject.toml admits, between    *)
(* any two bytecodes) may switch threads between the read and the write;   *)
(* the error queue has a lock.  Each action is one access to one of them.  *)
(*                                                                         *)
(* A register is the set of its bits.  The bits that no code sets (QYE,    *)
(* EAV, PON) are left out, and so are the registers _ese and _sre: nothing *)
(* ever changes them (see Enable), and a status byte shows MAV only.       *)
(***************************************************************************)
EXTENDS Naturals, Sequences, FiniteSets

CONSTANTS
    Sessions,    \* the dispatch loops: each runs one command at a time
    Clearers,    \* receive loops that run *CLS for a device clear
    ErrorDepth,  \* maxlen of the error queue
    MaxErrors    \* bound: errors pushed in a behaviour

ASSUME RegistersAssumption ==
    /\ Sessions \cap Clearers = {}
    /\ ErrorDepth \in Nat \ {0}
    /\ MaxErrors \in Nat

VARIABLES
    esr,      \* _esr
    errors,   \* _queue: the numbers of the errors in it
    pc,       \* where the handler of each thread is
    acc,      \* what each thread has read so far
    pushed,   \* history: errors pushed
    taken,    \* history: the last error popped or cleared
    due,      \* history: events recorded, and neither reported nor cleared
    unreported, \* history: events recorded, and not reported since
    recorded, \* history: events recorded since a thread's read, till its write
    reported, \* history: events reported since a thread's read, till its write
    raced     \* history: events recorded or reported while a write was under
              \* way that has been made since

errVars    == <<errors, pushed, taken>>
eventVars  == <<esr, due, unreported, raced>>
threadVars == <<acc, recorded, reported>>
vars       == <<eventVars, errVars, threadVars, pc>>

Threads   == Sessions \cup Clearers
EventBits == {"OPC", "DDE"}
Pcs == {"idle", "clsErrors", "opcStore", "tstLoad", "tstStore", "esrClear"}

Init ==
    /\ esr = {} /\ due = {} /\ unreported = {} /\ raced = {}
    /\ errors = << >> /\ pushed = 0 /\ taken = 0
    /\ pc = [t \in Threads |-> "idle"]
    /\ acc = [t \in Threads |-> {}]
    /\ recorded = [t \in Threads |-> {}] /\ reported = [t \in Threads |-> {}]

-----------------------------------------------------------------------------
Goto(t, from, to) == pc[t] = from /\ pc' = [pc EXCEPT ![t] = to]

\* A thread that has read the register and is about to write it.
Midway(t) == pc[t] \in {"opcStore", "tstStore", "esrClear"}

\* What the others that are midway have missed, when t writes.
Missed(t, seen, events) ==
    [s \in Threads |-> IF s # t /\ Midway(s) THEN seen[s] \cup events ELSE {}]

(* errors.py *)

\* Fault: a full queue keeps its oldest errors.
KeepOldest(q) ==
    IF Len(q) > ErrorDepth THEN SubSeq(q, 1, ErrorDepth) ELSE q

\* Fault: the queue has no limit.
KeepAll(q) == q

\* deque(maxlen): a full queue loses its oldest error.
KeepNewest(q) ==
    IF Len(q) > ErrorDepth THEN SubSeq(q, Len(q) - ErrorDepth + 1, Len(q)) ELSE q

PushError ==
    /\ pushed < MaxErrors
    /\ errors' = KeepNewest(Append(errors, pushed + 1))
    /\ pushed' = pushed + 1
    /\ UNCHANGED taken

\* A command that fails, wherever it does.
Fail(t) ==
    /\ t \in Sessions /\ pc[t] = "idle"
    /\ PushError
    /\ UNCHANGED <<eventVars, pc, threadVars>>

\* *ESE and *SRE fail as well: extract_args compares the annotation of their
\* mask with int, but it is the text "int" (scpi_standard.py:1), so the
\* handler gets a text, and mask & 0xFF raises before it is assigned.
Enable(t) == Fail(t)

\* SYST:ERR?
PopError(t) ==
    /\ t \in Sessions /\ pc[t] = "idle" /\ errors # << >>
    /\ errors' = Tail(errors)
    /\ taken' = Head(errors)
    /\ UNCHANGED <<eventVars, pc, threadVars, pushed>>

(* *CLS: the register, then the queue.  A device clear runs it too.        *)
Cls(t) ==
    /\ Goto(t, "idle", "clsErrors")
    /\ esr' = {} /\ due' = {}
    /\ UNCHANGED <<unreported, raced, errVars, threadVars>>

ClsErrors(t) ==
    /\ Goto(t, "clsErrors", "idle")
    /\ errors' = << >> /\ taken' = pushed
    /\ UNCHANGED <<eventVars, pushed, threadVars>>

(* _esr |= bit: read, then written.                                        *)
LoadEsr(t, from, to) ==
    /\ Goto(t, from, to)
    /\ acc' = [acc EXCEPT ![t] = esr]
    /\ UNCHANGED <<eventVars, errVars, recorded, reported>>

\* Fault: the bit replaces those already there.
OnlyNew(old, bit) == {bit}

WithBit(old, bit) == old \cup {bit}

StoreEsr(t, from, bit) ==
    /\ Goto(t, from, "idle")
    /\ esr' = WithBit(acc[t], bit)
    /\ due' = due \cup {bit} /\ unreported' = unreported \cup {bit}
    /\ raced' = (raced \cup recorded[t] \cup reported[t]) \ {bit}
    /\ acc' = [acc EXCEPT ![t] = {}]
    /\ recorded' = Missed(t, recorded, {bit})
    /\ reported' = Missed(t, reported, {})
    /\ UNCHANGED errVars

Opc(t)      == t \in Sessions /\ LoadEsr(t, "idle", "opcStore")
OpcStore(t) == StoreEsr(t, "opcStore", "OPC")

\* *TST? that fails: an error, then the DDE bit.
Tst(t) ==
    /\ t \in Sessions /\ Goto(t, "idle", "tstLoad")
    /\ PushError
    /\ UNCHANGED <<eventVars, threadVars>>
TstLoad(t)  == LoadEsr(t, "tstLoad", "tstStore")
TstStore(t) == StoreEsr(t, "tstStore", "DDE")

(* *ESR?: what was read is reported, then the register is cleared.  An     *)
(* event recorded in between is not reported, be its bit set or not.       *)
EsrQuery(t) == t \in Sessions /\ LoadEsr(t, "idle", "esrClear")

\* Fault: the register keeps what has been reported.
EsrKept == esr

EsrReported == {}

EsrClear(t) ==
    /\ Goto(t, "esrClear", "idle")
    /\ esr' = EsrReported
    /\ LET told == acc[t] \ recorded[t] IN
         /\ due' = due \ told /\ unreported' = unreported \ told
         /\ raced' = (raced \ told) \cup recorded[t]
         /\ reported' = Missed(t, reported, told)
    /\ acc' = [acc EXCEPT ![t] = {}]
    /\ recorded' = Missed(t, recorded, {})
    /\ UNCHANGED errVars

-----------------------------------------------------------------------------
Step(t) ==
    \/ Fail(t) \/ Enable(t) \/ PopError(t)
    \/ Cls(t) \/ ClsErrors(t)
    \/ Opc(t) \/ OpcStore(t)
    \/ Tst(t) \/ TstLoad(t) \/ TstStore(t)
    \/ EsrQuery(t) \/ EsrClear(t)

Next == \E t \in Threads : Step(t)

Spec == Init /\ [][Next]_vars

-----------------------------------------------------------------------------
(* Properties                                                              *)

TypeOK ==
    /\ esr \subseteq EventBits
    /\ due \subseteq EventBits /\ unreported \subseteq EventBits
    /\ raced \subseteq EventBits
    /\ errors \in Seq(1..MaxErrors) /\ Len(errors) <= ErrorDepth
    /\ pushed \in 0..MaxErrors /\ taken \in 0..pushed
    /\ pc \in [Threads -> Pcs]
    /\ {acc, recorded, reported} \subseteq [Threads -> SUBSET EventBits]

\* An event that *OPC or a failed *TST? has recorded stays in the register
\* until *ESR? reports it or *CLS clears it ("Sets OPC bit in ESR",
\* scpi_standard.py:96), for any number of sessions, unless it was recorded
\* between the read and the write of another thread.  An event recorded when
\* no write is under way is never lost.
EventNotLost == due \subseteq esr \cup raced

\* An event that *ESR? has reported is not in the register again, and no
\* *ESR? is about to report it again, unless it has been recorded again or
\* was reported between the read and the write of another thread ("reading
\* ESR clears it", scpi_standard.py:108).  The *CLS of a device clear can
\* bring back events it has cleared, in the middle of an *OPC, but none that
\* were reported.
ReportedOnce ==
    /\ esr \subseteq unreported \cup raced
    /\ \A t \in Threads : pc[t] = "esrClear" =>
         acc[t] \subseteq unreported \cup raced \cup reported[t]

\* "Sets OPC bit in ESR; since all commands are sync, set immediately"
\* (scpi_standard.py:96): once set, the bit is there until it is reported or
\* cleared.
OpcSet == "OPC" \in due => "OPC" \in esr

\* The error queue holds the newest of the errors nobody has taken, in the
\* order they were pushed, whatever the sessions do at the same time; an
\* error is missing only if newer ones have filled the queue.
ErrorsExact ==
    LET n == IF pushed - taken < ErrorDepth THEN pushed - taken ELSE ErrorDepth
    IN  errors = [k \in 1..n |-> pushed - n + k]
=============================================================================
