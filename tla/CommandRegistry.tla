---------------------------- MODULE CommandRegistry ----------------------------
(***************************************************************************)
(* The registry of command_registry.py: a table of descriptors by mnemonic *)
(* and a list of the same descriptors, for SYSTEM:COMMANDS?, in the order  *)
(* in which their mnemonics first came.                                    *)
(***************************************************************************)
EXTENDS Naturals, Sequences

CONSTANTS
    Names,     \* mnemonics
    Handlers,  \* what a descriptor may call
    None       \* no descriptor, no handler

ASSUME RegistryAssumption == None \notin [name : Names, handler : Handlers]

VARIABLES
    commands,  \* _commands
    ordered    \* _ordered

registryVars == <<commands, ordered>>

Descriptors == [name : Names, handler : Handlers]

Descriptor(n, h) == [name |-> n, handler |-> h]

RegistryInit ==
    /\ commands = [n \in Names |-> None]
    /\ ordered = << >>

\* Fault: the new descriptor goes to the end of the list.
ReplacedLast(d) == Append(SelectSeq(ordered, LAMBDA e : e.name # d.name), d)

\* The new descriptor takes the place of the old one.
Replaced(d) ==
    [k \in DOMAIN ordered |-> IF ordered[k].name = d.name THEN d ELSE ordered[k]]

\* Fault: the first descriptor of a mnemonic stays.
TableKeepsFirst(d) ==
    IF commands[d.name] = None THEN [commands EXCEPT ![d.name] = d] ELSE commands

Table(d) == [commands EXCEPT ![d.name] = d]

Register(d) ==
    /\ ordered' = IF commands[d.name] = None THEN Append(ordered, d)
                  ELSE Replaced(d)
    /\ commands' = Table(d)

-----------------------------------------------------------------------------
RegistryTypeOK ==
    /\ commands \in [Names -> Descriptors \cup {None}]
    /\ ordered \in Seq(Descriptors)

\* The table and the list hold the same descriptors, each of them once: what
\* SYSTEM:COMMANDS? lists is what a client that sends it will run ("so JSON
\* output stays consistent", command_registry.py:47).
ListingAgrees ==
    /\ \A k \in DOMAIN ordered : commands[ordered[k].name] = ordered[k]
    /\ \A j, k \in DOMAIN ordered :
           ordered[j].name = ordered[k].name => j = k
    /\ \A n \in Names :
           commands[n] # None => \E k \in DOMAIN ordered : ordered[k].name = n
=============================================================================
