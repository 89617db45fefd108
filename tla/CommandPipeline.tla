--------------------------- MODULE CommandPipeline ---------------------------
(***************************************************************************)
(* What the command queue of a session promises, without its tasks: a      *)
(* command is admitted to a bounded line or turned away, the head of the   *)
(* line is started or dropped, one command runs at a time, and what became *)
(* of a command never changes again.                                       *)
(***************************************************************************)
EXTENDS Naturals, Sequences

CONSTANTS Commands, Depth

VARIABLES
    waiting,   \* the line
    running,   \* the set of commands being run: none or one
    settled    \* the commands that have been run, dropped or turned away

pipeVars == <<waiting, running, settled>>

\* Commands that have never been seen.
Fresh == Commands \ (running \cup settled \cup
                     {waiting[k] : k \in DOMAIN waiting})

PipeInit == waiting = << >> /\ running = {} /\ settled = {}

Admit(c) ==
    /\ c \in Fresh /\ Len(waiting) < Depth
    /\ waiting' = Append(waiting, c)
    /\ UNCHANGED <<running, settled>>

TurnAway(c) ==
    /\ c \in Fresh /\ Len(waiting) = Depth
    /\ settled' = settled \cup {c}
    /\ UNCHANGED <<waiting, running>>

Start ==
    /\ waiting # << >> /\ running = {}
    /\ waiting' = Tail(waiting)
    /\ running' = {Head(waiting)}
    /\ UNCHANGED settled

Finish ==
    /\ running # {}
    /\ running' = {}
    /\ settled' = settled \cup running
    /\ UNCHANGED waiting

DropHead ==
    /\ waiting # << >> /\ running = {}
    /\ waiting' = Tail(waiting)
    /\ settled' = settled \cup {Head(waiting)}
    /\ UNCHANGED running

DropAll ==
    /\ waiting' = << >>
    /\ settled' = settled \cup {waiting[k] : k \in DOMAIN waiting}
    /\ UNCHANGED running

PipeNext ==
    \/ \E c \in Commands : Admit(c) \/ TurnAway(c)
    \/ Start \/ Finish \/ DropHead \/ DropAll

PipeSpec == PipeInit /\ [][PipeNext]_pipeVars
=============================================================================
