---------------------------- MODULE InstrumentProofs ----------------------------
(***************************************************************************)
(* For any names, handlers and lists of built-in commands: the types, the  *)
(* agreement of the registry's table with its list, the places of the      *)
(* commands in the list, the one overlay manager of an instrument, and its *)
(* two ports.                                                              *)
(*                                                                         *)
(* ListingAgrees is inductive with the types: it says that the table holds *)
(* None exactly for the names that are not listed, which is what register  *)
(* decides by.                                                             *)
(***************************************************************************)
EXTENDS Instrument, SequenceTheorems, TLAPS

-----------------------------------------------------------------------------
(* Register.                                                               *)

\* A name that is new is put at the end of the list.
LEMMA RegisterNew ==
    ASSUME RegistryTypeOK, ListingAgrees, NEW d \in Descriptors,
           Register(d), commands[d.name] = None
    PROVE  /\ RegistryTypeOK' /\ ListingAgrees'
           /\ \A k \in DOMAIN ordered :
                k \in DOMAIN ordered' /\ ordered'[k].name = ordered[k].name
<1> USE DEF RegistryTypeOK
<1> DEFINE n == Len(ordered)
<1>1. /\ n \in Nat /\ DOMAIN ordered = 1..n
      /\ \A k \in 1..n : ordered[k] \in Descriptors
  BY LenProperties, ElementOfSeq
<1>2. d.name \in Names /\ d # None
  BY RegistryAssumption DEF Descriptors
<1>3. /\ ordered' = Append(ordered, d)
      /\ commands' = [commands EXCEPT ![d.name] = d]
  BY DEF Register, Table
<1>4. /\ ordered' \in Seq(Descriptors) /\ Len(ordered') = n + 1
      /\ \A k \in 1..n : ordered'[k] = ordered[k]
      /\ ordered'[n + 1] = d
  BY <1>3, AppendProperties
<1>5. DOMAIN ordered' = 1..(n + 1)
  BY <1>4, LenProperties
<1> HIDE DEF n
<1>6. commands' \in [Names -> Descriptors \cup {None}]
  BY <1>2, <1>3
<1>7. \A k \in 1..n : ordered[k].name \in Names /\ commands[ordered[k].name] = ordered[k]
  BY <1>1 DEF ListingAgrees, Descriptors
<1>8. \A k \in 1..n : ordered[k] # None
  BY <1>1, RegistryAssumption DEF Descriptors
<1>9. \A k \in 1..n : ordered[k].name # d.name
  BY <1>7, <1>8
<1>10. \A k \in DOMAIN ordered' : commands'[ordered'[k].name] = ordered'[k]
  <2> SUFFICES ASSUME NEW k \in 1..(n + 1)
               PROVE  commands'[ordered'[k].name] = ordered'[k]
    BY <1>5
  <2>1. CASE k \in 1..n
    BY <2>1, <1>2, <1>3, <1>4, <1>7, <1>9
  <2>2. CASE k = n + 1
    BY <2>2, <1>2, <1>3, <1>4
  <2> QED BY <2>1, <2>2, <1>1
<1>11. \A j, k \in DOMAIN ordered' : ordered'[j].name = ordered'[k].name => j = k
  <2> SUFFICES ASSUME NEW j \in 1..(n + 1), NEW k \in 1..(n + 1),
                      ordered'[j].name = ordered'[k].name
               PROVE  j = k
    BY <1>5
  <2>1. CASE j \in 1..n /\ k \in 1..n
    BY <2>1, <1>1, <1>4 DEF ListingAgrees
  <2>2. CASE j = n + 1 /\ k \in 1..n
    BY <2>2, <1>4, <1>9
  <2>3. CASE j \in 1..n /\ k = n + 1
    BY <2>3, <1>4, <1>9
  <2> QED BY <2>1, <2>2, <2>3, <1>1
<1>12. ASSUME NEW m \in Names, commands'[m] # None
       PROVE  \E k \in DOMAIN ordered' : ordered'[k].name = m
  <2>1. CASE m = d.name
    BY <2>1, <1>1, <1>4, <1>5
  <2>2. CASE m # d.name
    <3>1. commands[m] # None
      BY <1>2, <1>3, <1>12, <2>2
    <3>2. PICK k \in 1..n : ordered[k].name = m
      BY <1>1, <3>1 DEF ListingAgrees
    <3> QED BY <1>1, <1>4, <1>5, <3>2
  <2> QED BY <2>1, <2>2
<1>13. ListingAgrees'
  BY <1>10, <1>11, <1>12 DEF ListingAgrees
<1>14. \A k \in DOMAIN ordered :
         k \in DOMAIN ordered' /\ ordered'[k].name = ordered[k].name
  BY <1>1, <1>4, <1>5
<1> QED BY <1>4, <1>6, <1>13, <1>14

\* A name that is known keeps its place and gets the new descriptor.
LEMMA RegisterKnown ==
    ASSUME RegistryTypeOK, ListingAgrees, NEW d \in Descriptors,
           Register(d), commands[d.name] # None
    PROVE  /\ RegistryTypeOK' /\ ListingAgrees'
           /\ \A k \in DOMAIN ordered :
                k \in DOMAIN ordered' /\ ordered'[k].name = ordered[k].name
<1> USE DEF RegistryTypeOK
<1> DEFINE n == Len(ordered)
<1>1. /\ n \in Nat /\ DOMAIN ordered = 1..n
      /\ \A k \in 1..n : ordered[k] \in Descriptors
  BY LenProperties, ElementOfSeq
<1>2. d.name \in Names
  BY DEF Descriptors
<1>3. /\ ordered' = [k \in 1..n |-> IF ordered[k].name = d.name THEN d ELSE ordered[k]]
      /\ commands' = [commands EXCEPT ![d.name] = d]
  BY <1>1 DEF Register, Table, Replaced
<1> HIDE DEF n
<1>4. \A k \in 1..n : ordered'[k] \in Descriptors
  BY <1>1, <1>3
<1>5. ordered' \in Seq(Descriptors) /\ DOMAIN ordered' = 1..n
  BY <1>1, <1>3, <1>4
<1>6. commands' \in [Names -> Descriptors \cup {None}]
  BY <1>2, <1>3
<1>7. \A k \in 1..n : ordered'[k].name = ordered[k].name
  BY <1>3
<1>8. \A k \in DOMAIN ordered' : commands'[ordered'[k].name] = ordered'[k]
  <2> SUFFICES ASSUME NEW k \in 1..n
               PROVE  commands'[ordered'[k].name] = ordered'[k]
    BY <1>5
  <2>1. ordered[k].name \in Names /\ commands[ordered[k].name] = ordered[k]
    BY <1>1 DEF ListingAgrees, Descriptors
  <2>2. CASE ordered[k].name = d.name
    BY <2>2, <1>2, <1>3
  <2>3. CASE ordered[k].name # d.name
    BY <2>1, <2>3, <1>3
  <2> QED BY <2>2, <2>3
<1>9. \A j, k \in DOMAIN ordered' : ordered'[j].name = ordered'[k].name => j = k
  BY <1>1, <1>5, <1>7 DEF ListingAgrees
<1>10. ASSUME NEW m \in Names, commands'[m] # None
       PROVE  \E k \in DOMAIN ordered' : ordered'[k].name = m
  <2>1. commands[m] # None
    BY <1>2, <1>3, <1>10
  <2>2. PICK k \in 1..n : ordered[k].name = m
    BY <1>1, <2>1 DEF ListingAgrees
  <2> QED BY <2>2, <1>5, <1>7
<1>11. ListingAgrees'
  BY <1>8, <1>9, <1>10 DEF ListingAgrees
<1> QED BY <1>1, <1>5, <1>6, <1>7, <1>11

\* What Register keeps, whoever calls it.
LEMMA RegisterKeeps ==
    ASSUME RegistryTypeOK, ListingAgrees, NEW d \in Descriptors, Register(d)
    PROVE  /\ RegistryTypeOK' /\ ListingAgrees'
           /\ \A k \in DOMAIN ordered :
                k \in DOMAIN ordered' /\ ordered'[k].name = ordered[k].name
  BY RegisterNew, RegisterKnown

-----------------------------------------------------------------------------
(* The inductive invariant.  While the OVERLAY: commands are being         *)
(* registered there is a manager, and those registered so far hold it; from *)
(* then on, until start_async can be called again, all of them do.         *)

Bound(k) == commands[OverlayNames[k]] = Descriptor(OverlayNames[k], manager)

Linked == backend = "pynq" /\ manager # None => backendOm = manager

Overlaid ==
    /\ pc = "overlays" =>
         manager # None /\ \A k \in DOMAIN OverlayNames : k < next => Bound(k)
    /\ pc \in {"bindSync", "bindAsync", "enter", "serving"} /\ manager # None =>
         \A k \in DOMAIN OverlayNames : Bound(k)

\* A start in progress knows its ports.
Called == pc # "setup" => {port, asyncPort} \subseteq Ports

Inv == TypeOK /\ ListingAgrees /\ Linked /\ Overlaid /\ Called

\* Every step leaves the registry alone or registers a descriptor.
LEMMA StepRegisters ==
    ASSUME TypeOK, Overlaid, [Next]_vars
    PROVE  \/ UNCHANGED registryVars
           \/ \E d \in Descriptors : Register(d)
<1> USE DEF TypeOK
<1>1. ASSUME NEW n \in Names, NEW h \in UserHandlers, Command(n, h)
      PROVE  \E d \in Descriptors : Register(d)
  <2>1. Descriptor(n, h) \in Descriptors
    BY InstrumentAssumption DEF Descriptor, Descriptors
  <2> QED BY <1>1, <2>1 DEF Command
<1>2. ASSUME RegisterBuiltIn
      PROVE  UNCHANGED registryVars \/ \E d \in Descriptors : Register(d)
  <2>1. CASE next \in DOMAIN BuiltIns
    <3>1. Descriptor(BuiltIns[next], BuiltIn) \in Descriptors
      BY <2>1, InstrumentAssumption, ElementOfSeq, LenProperties
      DEF Descriptor, Descriptors
    <3> QED BY <1>2, <2>1, <3>1 DEF RegisterBuiltIn, RegisterNext
  <2>2. CASE next \notin DOMAIN BuiltIns
    BY <1>2, <2>2 DEF RegisterBuiltIn, RegisterNext
  <2> QED BY <2>1, <2>2
<1>3. ASSUME RegisterOverlay
      PROVE  UNCHANGED registryVars \/ \E d \in Descriptors : Register(d)
  <2>1. CASE next \in DOMAIN OverlayNames
    <3>1. manager \in Managers
      BY <1>3 DEF Overlaid, RegisterOverlay, RegisterNext
    <3>2. Descriptor(OverlayNames[next], manager) \in Descriptors
      BY <2>1, <3>1, InstrumentAssumption, ElementOfSeq, LenProperties
      DEF Descriptor, Descriptors
    <3> QED BY <1>3, <2>1, <3>2 DEF RegisterOverlay, RegisterNext
  <2>2. CASE next \notin DOMAIN OverlayNames
    BY <1>3, <2>2 DEF RegisterOverlay, RegisterNext
  <2> QED BY <2>1, <2>2
<1> QED
  BY <1>1, <1>2, <1>3
  DEF Next, UsePynqBackend, LoadOverlay, StartAsync, BindSync, BindAsync, Bind,
      Enter, Abandon, Cancel, LoopEnds, listenFrame, vars

\* So every step keeps what Register keeps.
LEMMA RegistryStep ==
    ASSUME Inv, [Next]_vars
    PROVE  /\ RegistryTypeOK' /\ ListingAgrees'
           /\ \A k \in DOMAIN ordered :
                k \in DOMAIN ordered' /\ ordered'[k].name = ordered[k].name
<1>1. CASE UNCHANGED registryVars
  BY <1>1 DEF Inv, TypeOK, RegistryTypeOK, ListingAgrees, registryVars
<1>2. CASE \E d \in Descriptors : Register(d)
  BY <1>2, RegisterKeeps DEF Inv, TypeOK
<1> QED BY <1>1, <1>2, StepRegisters DEF Inv

-----------------------------------------------------------------------------
(* The invariant holds initially and is kept.                              *)

LEMMA InitInv == Init => Inv
<1> SUFFICES ASSUME Init PROVE Inv
  OBVIOUS
<1>1. RegistryTypeOK /\ ListingAgrees
  BY DEF Init, RegistryInit, RegistryTypeOK, ListingAgrees
<1>2. TypeOK
  <2>1. /\ {port, asyncPort} \subseteq Ports \cup {None}
        /\ opened \subseteq Ports /\ leftOver \subseteq Ports
        /\ cutShort \subseteq Ports
    BY DEF Init
  <2>2. backend \in Backends /\ made \subseteq Managers
        /\ {backendOm, manager} \subseteq made \cup {None}
    BY DEF Init, Backends
  <2>3. pc \in Pcs /\ next \in Nat \ {0}
    BY DEF Init, Pcs
  <2> QED BY <1>1, <2>1, <2>2, <2>3 DEF TypeOK
<1>3. Linked /\ Overlaid /\ Called
  BY DEF Init, Linked, Overlaid, Called
<1> QED BY <1>1, <1>2, <1>3 DEF Inv

LEMMA TypeStep == ASSUME Inv, [Next]_vars PROVE TypeOK'
<1> USE DEF Inv, TypeOK
<1>1. RegistryTypeOK'
  BY RegistryStep
<1>2. ASSUME NEW n \in Names, NEW h \in UserHandlers, Command(n, h) PROVE TypeOK'
  BY <1>1, <1>2 DEF Command, setupFrame, portVars
<1>3. CASE UsePynqBackend
  BY <1>1, <1>3 DEF UsePynqBackend, setupFrame, portVars, Backends
<1>4. CASE LoadOverlay
  BY <1>1, <1>4 DEF LoadOverlay, Link, setupFrame, portVars
<1>5. CASE StartAsync
  BY <1>1, <1>5 DEF StartAsync, startFrame, portVars, Pcs
<1>6. CASE RegisterBuiltIn
  BY <1>1, <1>6
  DEF RegisterBuiltIn, RegisterNext, AfterBuiltIns, startFrame, portVars, Pcs
<1>7. CASE RegisterOverlay
  BY <1>1, <1>7 DEF RegisterOverlay, RegisterNext, startFrame, portVars, Pcs
<1>8. ASSUME pc = "bindSync" \/ pc = "bindAsync" \/ pc = "enter" \/ pc = "serving"
      PROVE  {port, asyncPort} \subseteq Ports
  BY <1>8 DEF Inv, Called
<1>10. CASE BindSync \/ BindAsync
  BY <1>1, <1>8, <1>10
  DEF BindSync, BindAsync, Bind, listenFrame, startFrame, Pcs
<1>11. CASE Enter \/ Abandon \/ Cancel \/ LoopEnds
  BY <1>1, <1>8, <1>11
  DEF Enter, Abandon, Cancel, LoopEnds, listenFrame, startFrame, Pcs
<1>9. CASE UNCHANGED vars
  BY <1>1, <1>9 DEF vars, portVars
<1> QED
  BY <1>2, <1>3, <1>4, <1>5, <1>6, <1>7, <1>9, <1>10, <1>11 DEF Next

\* A manager comes to the backend together with the instrument.
LEMMA LinkedStep == ASSUME Inv, [Next]_vars PROVE Linked'
<1> USE DEF Inv, Linked
<1>1. CASE UsePynqBackend
  BY <1>1 DEF UsePynqBackend
<1>2. CASE LoadOverlay
  BY <1>2 DEF LoadOverlay, Link
<1>3. CASE UNCHANGED <<backend, backendOm, manager>>
  BY <1>3
<1> QED
  BY <1>1, <1>2, <1>3
  DEF Next, Command, StartAsync, RegisterBuiltIn, RegisterOverlay,
      RegisterNext, startFrame, listenFrame, BindSync, BindAsync, Bind, Enter,
      Abandon, Cancel, LoopEnds, vars

\* The OVERLAY: commands are bound one after the other.
LEMMA OverlaidStep == ASSUME Inv, [Next]_vars PROVE Overlaid'
<1> USE DEF Inv
<1>1. CASE RegisterBuiltIn
  <2>1. CASE next \in DOMAIN BuiltIns
    BY <1>1, <2>1 DEF RegisterBuiltIn, RegisterNext, Overlaid
  <2>2. CASE next \notin DOMAIN BuiltIns
    <3>1. /\ next' = 1 /\ pc' = AfterBuiltIns
          /\ UNCHANGED <<manager, commands>>
      BY <1>1, <2>2
      DEF RegisterBuiltIn, RegisterNext, startFrame, registryVars
    <3>2. \A k \in DOMAIN OverlayNames : ~(k < 1)
      BY InstrumentAssumption, LenProperties
    <3> QED BY <3>1, <3>2 DEF Overlaid, AfterBuiltIns
  <2> QED BY <2>1, <2>2
<1>2. CASE RegisterOverlay
  <2>1. pc = "overlays" /\ manager # None /\ manager' = manager
    BY <1>2 DEF RegisterOverlay, RegisterNext, startFrame, Overlaid
  <2>2. \A k \in DOMAIN OverlayNames : OverlayNames[k] \in Names /\ k \in Nat
    BY InstrumentAssumption, LenProperties, ElementOfSeq
  <2>3. next \in Nat
    BY DEF TypeOK
  <2>4. CASE next \in DOMAIN OverlayNames
    <3> DEFINE d == Descriptor(OverlayNames[next], manager)
    <3>1. /\ commands' = [commands EXCEPT ![OverlayNames[next]] = d]
          /\ next' = next + 1 /\ pc' = pc
      BY <1>2, <2>4
      DEF RegisterOverlay, RegisterNext, Register, Table, Descriptor
    <3>2. commands \in [Names -> Descriptors \cup {None}]
      BY DEF TypeOK, RegistryTypeOK
    <3>3. ASSUME NEW k \in DOMAIN OverlayNames, k < next'
          PROVE  Bound(k)'
      <4>1. k = next \/ k < next
        BY <2>2, <2>3, <3>1, <3>3
      <4>2. CASE OverlayNames[k] = OverlayNames[next]
        BY <2>1, <2>2, <3>1, <3>2, <4>2 DEF Bound
      <4>3. CASE OverlayNames[k] # OverlayNames[next]
        <5>1. Bound(k)
          BY <2>1, <4>1, <4>3 DEF Overlaid
        <5> QED BY <2>1, <2>2, <3>1, <3>2, <4>3, <5>1 DEF Bound
      <4> QED BY <4>2, <4>3
    <3> QED BY <2>1, <3>1, <3>3 DEF Overlaid
  <2>5. CASE next \notin DOMAIN OverlayNames
    <3>1. pc' = "bindSync" /\ UNCHANGED <<manager, commands>>
      BY <1>2, <2>5
      DEF RegisterOverlay, RegisterNext, startFrame, registryVars
    <3>2. \A k \in DOMAIN OverlayNames : Bound(k)
      <4> SUFFICES ASSUME NEW k \in DOMAIN OverlayNames PROVE k < next
        BY <2>1 DEF Overlaid
      <4>1. /\ Len(OverlayNames) \in Nat
            /\ DOMAIN OverlayNames = 1..Len(OverlayNames)
        BY InstrumentAssumption, LenProperties
      <4>2. next >= 1
        BY DEF TypeOK
      <4> QED BY <2>3, <2>5, <4>1, <4>2
    <3> QED BY <3>1, <3>2 DEF Overlaid, Bound
  <2> QED BY <2>4, <2>5
<1>3. CASE BindSync \/ BindAsync \/ Enter
  BY <1>3
  DEF BindSync, BindAsync, Bind, Enter, Overlaid, Bound, registryVars, startFrame, listenFrame
<1>4. CASE pc' \in {"setup", "builtins"}
  BY <1>4 DEF Overlaid
<1>5. CASE UNCHANGED vars
  BY <1>5 DEF vars, registryVars, Overlaid, Bound
<1> QED
  BY <1>1, <1>2, <1>3, <1>4, <1>5
  DEF Next, Command, UsePynqBackend, LoadOverlay, StartAsync, Abandon, Cancel,
      LoopEnds, setupFrame

\* The ports come with the call and do not change before the next one.
LEMMA CalledStep == ASSUME Inv, [Next]_vars PROVE Called'
<1> USE DEF Inv, Called
<1>1. CASE StartAsync
  BY <1>1 DEF StartAsync
<1>2. CASE RegisterBuiltIn \/ RegisterOverlay
  BY <1>2 DEF RegisterBuiltIn, RegisterOverlay, RegisterNext, portVars
<1>3. CASE BindSync \/ BindAsync \/ Enter
  BY <1>3 DEF BindSync, BindAsync, Bind, Enter, listenFrame
<1>4. CASE pc' = "setup"
  BY <1>4
<1>5. CASE UNCHANGED vars
  BY <1>5 DEF vars, portVars
<1> QED
  BY <1>1, <1>2, <1>3, <1>4, <1>5
  DEF Next, Command, UsePynqBackend, LoadOverlay, Abandon, Cancel, LoopEnds,
      setupFrame

LEMMA InvAlways == Spec => []Inv
<1>1. Inv /\ [Next]_vars => Inv'
  BY RegistryStep, TypeStep, LinkedStep, OverlaidStep, CalledStep DEF Inv
<1> QED
  BY <1>1, InitInv, PTL DEF Spec

-----------------------------------------------------------------------------
(* The theorems.                                                           *)

\* The types, for every set of names and handlers.
THEOREM TypeCorrect == Spec => []TypeOK
<1>1. Inv => TypeOK
  BY DEF Inv
<1> QED
  BY <1>1, InvAlways, PTL

\* The table and the list of the registry agree, whatever is registered,
\* replaced and registered again by a second start.
THEOREM ListingAlways == Spec => []ListingAgrees
<1>1. Inv => ListingAgrees
  BY DEF Inv
<1> QED
  BY <1>1, InvAlways, PTL

\* No command ever changes its place in the listing.
THEOREM PlacesAlways == Spec => PlacesKept
<1>1. Inv /\ [Next]_vars =>
        [\A k \in DOMAIN ordered :
            k \in DOMAIN ordered' /\ ordered'[k].name = ordered[k].name]_vars
  BY RegistryStep
<1> QED
  BY <1>1, InvAlways, PTL DEF Spec, PlacesKept

\* While the instrument serves, its PYNQBackend and its OVERLAY: commands
\* share one manager, after any number of failed or cancelled starts.
THEOREM OneManagerAlways == Spec => []OneManager
<1>1. Inv => OneManager
  <2> SUFFICES ASSUME Inv, pc = "serving", backend = "pynq", manager # None
               PROVE  /\ backendOm = manager
                      /\ \A k \in DOMAIN OverlayNames :
                             commands[OverlayNames[k]].handler = manager
    BY DEF OneManager
  <2>1. backendOm = manager
    BY DEF Inv, Linked
  <2>2. ASSUME NEW k \in DOMAIN OverlayNames
        PROVE  commands[OverlayNames[k]].handler = manager
    <3>1. commands[OverlayNames[k]] = Descriptor(OverlayNames[k], manager)
      BY DEF Inv, Overlaid, Bound
    <3> QED BY <3>1 DEF Descriptor
  <2> QED BY <2>1, <2>2
<1> QED
  BY <1>1, InvAlways, PTL

-----------------------------------------------------------------------------
(* The ports.                                                              *)

\* A start holds the ports it has opened so far, none of which was left over,
\* and nothing else is open but for what a start that was cut short has left.
PortInv ==
    /\ leftOver \subseteq cutShort
    /\ opened \cap leftOver = {}
    /\ pc \in {"setup", "builtins", "overlays", "bindSync"} => opened = {}
    /\ pc = "bindAsync" => opened = {port}
    /\ pc \in {"enter", "serving"} => opened = {port, asyncPort} /\ port # asyncPort

LEMMA PortStep == ASSUME PortInv, [Next]_vars PROVE PortInv'
<1> USE DEF PortInv
<1>1. CASE StartAsync
  BY <1>1 DEF StartAsync
<1>2. CASE RegisterBuiltIn \/ RegisterOverlay
  BY <1>2
  DEF RegisterBuiltIn, RegisterOverlay, RegisterNext, AfterBuiltIns, portVars
<1>3. CASE BindSync
  BY <1>3 DEF BindSync, Bind, CanBind, listenFrame
<1>4. CASE BindAsync
  BY <1>4 DEF BindAsync, Bind, CanBind, listenFrame
<1>5. CASE Enter
  BY <1>5 DEF Enter, listenFrame
<1>6. CASE Abandon
  BY <1>6 DEF Abandon
<1>7. CASE Cancel
  BY <1>7 DEF Cancel, BothClosed
<1>8. CASE LoopEnds
  BY <1>8 DEF LoopEnds
<1>9. CASE UNCHANGED <<pc, portVars>>
  BY <1>9 DEF portVars
<1> QED
  BY <1>1, <1>2, <1>3, <1>4, <1>5, <1>6, <1>7, <1>8, <1>9
  DEF Next, Command, UsePynqBackend, LoadOverlay, setupFrame, vars

\* Whatever ports start_async is called with, and however its calls end: an
\* instrument that serves has two ports that are its own and nobody's left
\* over, and a port is left over only by a start that was cut short between
\* its first port and async with.
THEOREM PortsAlways == Spec => []PortsOwned
<1>1. Init => PortInv
  BY DEF Init, PortInv
<1>2. PortInv => PortsOwned
  BY DEF PortInv, PortsOwned
<1> QED
  BY <1>1, <1>2, PortStep, PTL DEF Spec
=============================================================================
