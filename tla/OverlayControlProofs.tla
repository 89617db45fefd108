------------------------- MODULE OverlayControlProofs -------------------------
(***************************************************************************)
(* Theorems about OverlayControl, for any number of sessions, threads,     *)
(* overlays and required IPs: its types, FreshIps and LastChangeHolds.     *)
(***************************************************************************)
EXTENDS OverlayControl, TLAPS

USE OverlayAssumption DEF fields, threadFrame, dispatchFrame

-----------------------------------------------------------------------------
(* Types.                                                                  *)

TypeInv == TypeOK /\ DOMAIN injected = Sessions

Jobs == [op : Ops, bit : Contents, step : Steps, alone : BOOLEAN]

\* What a thread is given to do has its type.
LEMMA JobType ==
    /\ NoJob \in Jobs
    /\ \A op \in Ops, bit \in Contents, step \in Steps, alone \in BOOLEAN :
          Job(op, bit, step, alone) \in Jobs
BY DEF NoJob, Job, Jobs, Ops, Contents, Steps

\* The step of a thread and its end keep the types of the threads.
LEMMA ThenType ==
    ASSUME TypeInv, NEW w \in Workers, NEW step \in Steps, Then(w, step)
    PROVE  /\ job' \in [Workers -> Jobs]
           /\ expected' \in Contents \cup {Unknown}
<1>1. job \in [Workers -> Jobs] /\ expected' = expected
  BY DEF TypeInv, TypeOK, Jobs, Then
<1>2. job' = [job EXCEPT ![w].step = step]
  BY DEF Then
<1>3. [job[w] EXCEPT !.step = step] \in Jobs
  BY <1>1 DEF Jobs
<1> QED BY <1>1, <1>2, <1>3 DEF TypeInv, TypeOK

\* ... also when nobody waits for the thread any more.
LEMMA EndType ==
    ASSUME TypeInv, NEW w \in Workers, NEW outcome \in {"done", "failed"},
           End(w, outcome)
    PROVE  /\ job' \in [Workers -> Jobs]
           /\ expected' \in Contents \cup {Unknown}
<1>1. job \in [Workers -> Jobs]
  BY DEF TypeInv, TypeOK, Jobs
<1>2. [job[w] EXCEPT !.step = outcome] \in Jobs /\ NoJob \in Jobs
  BY <1>1, JobType DEF Jobs, Steps
<1>3. job' \in [Workers -> Jobs]
  BY <1>1, <1>2 DEF End
<1>4. job[w].bit \in Contents
  BY <1>1 DEF Jobs
<1> QED BY <1>3, <1>4 DEF End, TypeInv, TypeOK

\* The overlays seen are overlays, or none.
LEMMA WatchType ==
    ASSUME TypeInv, Watch, overlay' \in Contents
    PROVE  current' \in [Sessions -> SUBSET Contents]
<1> DEFINE next(s) ==
        CASE pc'[s] \in {"verify", "inject"} -> current[s] \cup {overlay, overlay'}
          [] pc'[s] = "run" -> current[s]
          [] OTHER -> {}
<1>1. \A s \in Sessions : next(s) \in SUBSET Contents
  BY DEF TypeInv, TypeOK
<1>2. current' = [s \in Sessions |-> next(s)]
  BY DEF Watch
<1> HIDE DEF next
<1> QED BY <1>1, <1>2

\* What of the types the history current is not part of.
RestOK ==
    /\ overlay \in Contents /\ loadedName \in Contents
    /\ inventory \in Contents /\ version \in Contents
    /\ job \in [Workers -> Jobs]
    /\ pc \in [Sessions -> Pcs]
    /\ worker \in [Sessions -> Workers \cup {None}]
    /\ left \subseteq Required
    /\ \A s \in Sessions : /\ DOMAIN injected[s] \subseteq Required
                           /\ \A ip \in DOMAIN injected[s] :
                                injected[s][ip] \in Bitfiles
    /\ expected \in Contents \cup {Unknown}
    /\ DOMAIN injected = Sessions

\* A session's step keeps the types.
LEMMA SessionType ==
    ASSUME TypeInv, NEW s \in Sessions, SessionStep(s)
    PROVE  RestOK'
<1> USE DEF RestOK, Pcs
<1>r. RestOK
  BY DEF TypeInv, TypeOK, Jobs
<1>1. ASSUME NEW op \in Ops, NEW bit \in Contents, NEW step \in Steps,
             Start(s, op, bit, step)
      PROVE  RestOK'
  <2> PICK w \in Workers :
         /\ job' = [v \in Workers |-> IF v = w THEN Job(op, bit, step, ~Changing)
                                      ELSE [job[v] EXCEPT !.alone = FALSE]]
         /\ worker' = [worker EXCEPT ![s] = w]
    BY <1>1 DEF Start
  <2>1. Job(op, bit, step, ~Changing) \in Jobs
    BY JobType
  <2>2. \A v \in Workers : [job[v] EXCEPT !.alone = FALSE] \in Jobs
    BY <1>r DEF Jobs
  <2>3. job' \in [Workers -> Jobs]
    BY <2>1, <2>2
  <2> QED BY <1>1, <1>r, <2>3 DEF Start
<1>2. CASE OverlayLoad(s)
  <2>1. PICK bit \in Bitfiles : Start(s, "load", bit, "construct")
    BY <1>2 DEF OverlayLoad
  <2> QED BY <1>1, <2>1 DEF Ops, Contents, Steps
<1>3. CASE OverlayUnload(s)
  BY <1>1, <1>3 DEF OverlayUnload, Ops, Contents, Steps
<1>4. CASE Answer(s)
  BY <1>4, <1>r, JobType DEF Answer
<1>5. CASE CommandTimeout(s)
  BY <1>5, <1>r, JobType DEF CommandTimeout
<1>6. CASE Dispatch(s)
  BY <1>6, <1>r DEF Dispatch
<1>7. CASE Verify(s)
  BY <1>7, <1>r DEF Verify
<1>8. CASE Inject(s)
  <2>1. PICK ip \in left :
         IF ~Found(ip)
         THEN /\ pc' = [pc EXCEPT ![s] = "idle"] /\ left' = {}
              /\ injected' = [injected EXCEPT ![s] = NoIps]
         ELSE /\ left' = left \ {ip}
              /\ injected' = [injected EXCEPT ![s] =
                   [i \in DOMAIN @ \cup {ip} |->
                      IF i = ip THEN IpSource ELSE @[i]]]
              /\ pc' = IF left = {ip} THEN [pc EXCEPT ![s] = "run"] ELSE pc
    BY <1>8 DEF Inject
  <2>2. Found(ip) => IpSource \in Bitfiles
    BY <1>r DEF Found, IpSource, Contents
  <2>3. pc' \in [Sessions -> Pcs] /\ left' \subseteq Required /\ ip \in Required
    BY <1>r, <2>1
  <2>4. /\ \A t \in Sessions : /\ DOMAIN injected'[t] \subseteq Required
                               /\ \A i \in DOMAIN injected'[t] :
                                    injected'[t][i] \in Bitfiles
        /\ DOMAIN injected' = Sessions
    BY <1>r, <2>1, <2>2, <2>3 DEF NoIps
  <2> QED BY <1>8, <1>r, <2>3, <2>4 DEF Inject
<1>9. CASE HandlerReturns(s)
  BY <1>9, <1>r DEF HandlerReturns, NoIps
<1> QED
  BY <1>2, <1>3, <1>4, <1>5, <1>6, <1>7, <1>8, <1>9 DEF SessionStep

\* A thread's step keeps the types.
LEMMA ThreadType ==
    ASSUME TypeInv, NEW w \in Workers, ThreadStep(w)
    PROVE  RestOK'
<1> USE DEF RestOK
<1>r. RestOK
  BY DEF TypeInv, TypeOK, Jobs
<1>b. job[w].bit \in Contents
  BY <1>r DEF Jobs
<1>1. CASE Construct(w)
  <2>1. job' \in [Workers -> Jobs] /\ expected' \in Contents \cup {Unknown}
    BY <1>1, ThenType, EndType DEF Construct, Steps
  <2> QED BY <1>1, <1>r, <2>1 DEF Construct
<1>2. CASE SetOverlay(w)
  <2>1. job' \in [Workers -> Jobs] /\ expected' \in Contents \cup {Unknown}
    BY <1>2, ThenType DEF SetOverlay, Steps
  <2> QED BY <1>2, <1>r, <1>b, <2>1 DEF SetOverlay
<1>3. CASE SetName(w)
  <2>1. job' \in [Workers -> Jobs] /\ expected' \in Contents \cup {Unknown}
    BY <1>3, ThenType DEF SetName, Steps
  <2> QED BY <1>3, <1>r, <1>b, <2>1 DEF SetName
<1>4. CASE SetInventory(w)
  <2>1. job' \in [Workers -> Jobs] /\ expected' \in Contents \cup {Unknown}
    BY <1>4, ThenType DEF SetInventory, Steps
  <2> QED BY <1>4, <1>r, <1>b, <2>1 DEF SetInventory, NewInventory
<1>5. CASE SetVersion(w)
  <2>1. job' \in [Workers -> Jobs] /\ expected' \in Contents \cup {Unknown}
    BY <1>5, EndType DEF SetVersion
  <2>2. version' \in Contents
    BY <1>5, <1>r, <1>b DEF SetVersion
  <2> QED BY <1>5, <1>r, <2>1, <2>2 DEF SetVersion
<1> QED
  BY <1>1, <1>2, <1>3, <1>4, <1>5 DEF ThreadStep

\* The types hold initially.
LEMMA TypeInit == Init => TypeInv
BY JobType DEF Init, TypeInv, TypeOK, Jobs, Contents, Pcs, NoIps

\* Every step keeps the types.
LEMMA TypeStep == TypeInv /\ [Next]_vars => TypeInv'
<1> SUFFICES ASSUME TypeInv, [Next]_vars PROVE TypeInv'
  OBVIOUS
<1>1. CASE UNCHANGED vars
  BY <1>1 DEF vars, TypeInv, TypeOK
<1>2. CASE Next
  <2>1. RestOK' /\ Watch
    BY <1>2, SessionType, ThreadType DEF Next
  <2>2. current' \in [Sessions -> SUBSET Contents]
    BY <2>1, WatchType DEF RestOK
  <2> QED BY <2>1, <2>2 DEF RestOK, TypeInv, TypeOK, Jobs
<1> QED BY <1>1, <1>2

\* Every variable of the overlay manager, its threads and the dispatch of
\* commands keeps to its type; a handler is only given IPs it requires.
THEOREM TypeCorrect == Spec => []TypeOK
<1>1. TypeInv => TypeOK
  BY DEF TypeInv
<1> QED BY <1>1, TypeInit, TypeStep, PTL DEF Spec

\* The types hold in every reachable state.
LEMMA TypeAlways == Spec => []TypeInv
BY TypeInit, TypeStep, PTL DEF Spec
-----------------------------------------------------------------------------
(* FreshIps.                                                               *)

InDispatch == {"verify", "inject"}

\* One dispatch at a time gets hold of the event loop.
OneDispatch ==
    \A s, t \in Sessions : pc[s] \in InDispatch /\ pc[t] \in InDispatch => s = t

\* The IPs a dispatch has collected, and those it has still to look up.
Collected(s) ==
    /\ pc[s] \in {"idle", "wait", "verify"} => injected[s] = NoIps
    /\ pc[s] = "inject" => DOMAIN injected[s] \cup left = Required
    /\ pc[s] = "run" => DOMAIN injected[s] = Required

\* The overlay of the moment has been seen, and so have those of the IPs.
Seen(s) ==
    /\ pc[s] \in InDispatch => overlay \in current[s]
    /\ \A ip \in DOMAIN injected[s] : injected[s][ip] \in current[s] \ {None}

FreshInv == OneDispatch /\ \A s \in Sessions : Collected(s) /\ Seen(s)

\* The history of a session whose dispatch goes on, after a step.
LEMMA WatchSeen ==
    ASSUME Watch, NEW s \in Sessions
    PROVE  /\ pc'[s] \in InDispatch =>
                current'[s] = current[s] \cup {overlay, overlay'}
           /\ pc'[s] = "run" => current'[s] = current[s]
BY DEF Watch, InDispatch

\* A step that moves no session and starts, adds or ends no IP object.
LEMMA FreshSame ==
    ASSUME FreshInv, Watch, UNCHANGED <<pc, left, injected>>, TypeInv
    PROVE  FreshInv'
<1>1. ASSUME NEW s \in Sessions PROVE Collected(s)' /\ Seen(s)'
  <2>1. Collected(s) /\ Seen(s)
    BY DEF FreshInv
  <2>2. Collected(s)'
    BY <2>1 DEF Collected
  <2>3. CASE pc[s] \in InDispatch \cup {"run"}
    <3>1. current[s] \subseteq current'[s]
      BY <2>3, WatchSeen
    <3>2. pc[s] \in InDispatch => overlay' \in current'[s]
      BY WatchSeen
    <3> QED BY <2>1, <2>2, <3>1, <3>2 DEF Seen, InDispatch
  <2>4. CASE pc[s] \notin InDispatch \cup {"run"}
    <3>1. injected[s] = NoIps
      BY <2>1, <2>4 DEF Collected, TypeInv, TypeOK, Pcs, InDispatch
    <3> QED BY <2>2, <2>4, <3>1 DEF Seen, NoIps, InDispatch
  <2> QED BY <2>2, <2>3, <2>4
<1>2. OneDispatch'
  BY DEF FreshInv, OneDispatch
<1> QED BY <1>1, <1>2 DEF FreshInv

\* A step of session s leaves what the others have collected and seen.
LEMMA OthersFresh ==
    ASSUME TypeInv, FreshInv, Watch, NEW s \in Sessions,
           NEW t \in Sessions, t # s,
           pc'[t] = pc[t], injected'[t] = injected[t],
           UNCHANGED overlay,
           pc[t] = "inject" => left' = left
    PROVE  Collected(t)' /\ Seen(t)'
<1>1. Collected(t) /\ Seen(t)
  BY DEF FreshInv
<1>2. Collected(t)'
  BY <1>1 DEF Collected
<1>3. CASE pc[t] \in InDispatch \cup {"run"}
  <2>1. current[t] \subseteq current'[t]
    BY <1>3, WatchSeen
  <2>2. pc[t] \in InDispatch => overlay' \in current'[t]
    BY WatchSeen
  <2> QED BY <1>1, <1>2, <2>1, <2>2 DEF Seen, InDispatch
<1>4. CASE pc[t] \notin InDispatch \cup {"run"}
  <2>1. injected[t] = NoIps
    BY <1>1, <1>4 DEF Collected, TypeInv, TypeOK, Pcs, InDispatch
  <2> QED BY <1>2, <1>4, <2>1 DEF Seen, NoIps, InDispatch
<1> QED BY <1>2, <1>3, <1>4

\* Nobody else dispatches while session s does.
LEMMA AloneInDispatch ==
    ASSUME FreshInv, NEW s \in Sessions, pc[s] \in InDispatch
    PROVE  \A t \in Sessions : t # s => pc[t] \notin InDispatch
BY DEF FreshInv, OneDispatch

\* A dispatch loop starts or ends something else than a dispatch.
LEMMA OtherCommandFresh ==
    ASSUME TypeInv, FreshInv, Watch, NEW s \in Sessions, NEW q \in {"idle", "wait"},
           pc' = [pc EXCEPT ![s] = q], pc[s] \in {"idle", "wait"} \/ LoopFree,
           UNCHANGED <<fields, left>>,
           \/ UNCHANGED injected /\ pc[s] \in {"idle", "wait"}
           \/ injected' = [injected EXCEPT ![s] = NoIps]
    PROVE  FreshInv'
<1>1. /\ \A t \in Sessions : t # s => pc'[t] = pc[t] /\ injected'[t] = injected[t]
      /\ pc'[s] = q /\ UNCHANGED overlay
  BY DEF TypeInv, TypeOK
<1>2. injected'[s] = NoIps
  <2>1. pc[s] \in {"idle", "wait"} => injected[s] = NoIps
    BY DEF FreshInv, Collected
  <2> QED BY <2>1 DEF TypeInv
<1>3. Collected(s)' /\ Seen(s)'
  BY <1>1, <1>2 DEF Collected, Seen, NoIps, InDispatch
<1>4. \A t \in Sessions : t # s => Collected(t)' /\ Seen(t)'
  BY <1>1, OthersFresh
<1>5. OneDispatch'
  BY <1>1 DEF FreshInv, OneDispatch, InDispatch
<1> QED BY <1>3, <1>4, <1>5 DEF FreshInv

\* A dispatch starts: nothing is collected, the overlay of the moment seen.
LEMMA DispatchFresh ==
    ASSUME TypeInv, FreshInv, Watch, NEW s \in Sessions, Dispatch(s)
    PROVE  FreshInv'
<1>1. /\ LoopFree /\ pc[s] = "idle" /\ pc'[s] = "verify"
      /\ \A t \in Sessions : t # s => pc'[t] = pc[t]
      /\ UNCHANGED <<overlay, injected>>
  BY DEF Dispatch, TypeInv, TypeOK
<1>2. \A t \in Sessions : pc[t] \notin InDispatch
  BY <1>1 DEF LoopFree, InDispatch
<1>3. injected'[s] = NoIps
  BY <1>1 DEF FreshInv, Collected
<1>4. overlay' \in current'[s]
  BY <1>1, WatchSeen DEF InDispatch
<1>5. Collected(s)' /\ Seen(s)'
  BY <1>1, <1>3, <1>4 DEF Collected, Seen, NoIps
<1>6. \A t \in Sessions : t # s => Collected(t)' /\ Seen(t)'
  BY <1>1, <1>2, OthersFresh DEF InDispatch
<1>7. OneDispatch'
  BY <1>1, <1>2 DEF OneDispatch
<1> QED BY <1>5, <1>6, <1>7 DEF FreshInv

\* The first pass over the required IPs collects none.
LEMMA VerifyFresh ==
    ASSUME TypeInv, FreshInv, Watch, NEW s \in Sessions, Verify(s)
    PROVE  FreshInv'
<1>1. /\ pc[s] = "verify" /\ UNCHANGED <<overlay, injected>>
      /\ \A t \in Sessions : t # s => pc'[t] = pc[t]
      /\ \/ pc'[s] = "idle" \/ pc'[s] = "verify"
         \/ pc'[s] = "inject" /\ left' = Required
  BY DEF Verify, TypeInv, TypeOK
<1>2. \A t \in Sessions : t # s => pc[t] \notin InDispatch
  BY <1>1, AloneInDispatch DEF InDispatch
<1>3. injected'[s] = NoIps
  BY <1>1 DEF FreshInv, Collected
<1>4. pc'[s] \in InDispatch => overlay' \in current'[s]
  BY <1>1, WatchSeen
<1>5. Collected(s)' /\ Seen(s)'
  BY <1>1, <1>3, <1>4 DEF Collected, Seen, NoIps
<1>6. \A t \in Sessions : t # s => Collected(t)' /\ Seen(t)'
  BY <1>1, <1>2, OthersFresh DEF InDispatch
<1>7. OneDispatch'
  BY <1>1, <1>2 DEF OneDispatch
<1> QED BY <1>5, <1>6, <1>7 DEF FreshInv

\* The second pass collects each IP from the overlay of the moment.
LEMMA InjectFresh ==
    ASSUME TypeInv, FreshInv, Watch, NEW s \in Sessions, Inject(s)
    PROVE  FreshInv'
<1>1. PICK ip \in left :
         IF ~Found(ip)
         THEN /\ pc' = [pc EXCEPT ![s] = "idle"] /\ left' = {}
              /\ injected' = [injected EXCEPT ![s] = NoIps]
         ELSE /\ left' = left \ {ip}
              /\ injected' = [injected EXCEPT ![s] =
                   [i \in DOMAIN @ \cup {ip} |->
                      IF i = ip THEN IpSource ELSE @[i]]]
              /\ pc' = IF left = {ip} THEN [pc EXCEPT ![s] = "run"] ELSE pc
  BY DEF Inject
<1>2. /\ pc[s] = "inject" /\ UNCHANGED overlay
      /\ \A t \in Sessions : t # s => pc'[t] = pc[t] /\ injected'[t] = injected[t]
      /\ s \in DOMAIN pc /\ s \in DOMAIN injected
  BY <1>1 DEF Inject, TypeInv, TypeOK
<1>3. \A t \in Sessions : t # s => pc[t] \notin InDispatch
  BY <1>2, AloneInDispatch DEF InDispatch
<1>4. /\ DOMAIN injected[s] \cup left = Required /\ overlay \in current[s]
      /\ \A i \in DOMAIN injected[s] : injected[s][i] \in current[s] \ {None}
  BY <1>2 DEF FreshInv, Collected, Seen, InDispatch
<1>5. Collected(s)' /\ Seen(s)'
  <2>1. CASE ~Found(ip)
    BY <1>1, <1>2, <2>1 DEF Collected, Seen, NoIps, InDispatch
  <2>2. CASE Found(ip)
    <3>1. overlay # None
      BY <2>2 DEF Found, IpSource
    <3>2. /\ DOMAIN injected'[s] = DOMAIN injected[s] \cup {ip}
          /\ \A i \in DOMAIN injected'[s] :
                injected'[s][i] \in {overlay} \cup (current[s] \ {None})
      BY <1>1, <1>2, <1>4, <2>2, <3>1 DEF IpSource
    <3>3. CASE left = {ip}
      <4>1. pc'[s] = "run" /\ DOMAIN injected'[s] = Required
        BY <1>1, <1>2, <1>4, <2>2, <3>2, <3>3
      <4>2. current'[s] = current[s]
        BY <4>1, WatchSeen
      <4> QED
        BY <1>4, <3>1, <3>2, <4>1, <4>2 DEF Collected, Seen, InDispatch
    <3>4. CASE left # {ip}
      <4>1. /\ pc'[s] = "inject"
            /\ DOMAIN injected'[s] \cup left' = Required
        BY <1>1, <1>2, <1>4, <2>2, <3>2, <3>4
      <4>2. current'[s] = current[s] \cup {overlay, overlay'}
        BY <4>1, WatchSeen DEF InDispatch
      <4> QED
        BY <1>2, <1>4, <3>1, <3>2, <4>1, <4>2 DEF Collected, Seen, InDispatch
    <3> QED BY <3>3, <3>4
  <2> QED BY <2>1, <2>2
<1>6. \A t \in Sessions : t # s => Collected(t)' /\ Seen(t)'
  BY <1>2, <1>3, OthersFresh DEF InDispatch
<1>7. OneDispatch'
  BY <1>2, <1>3 DEF OneDispatch
<1> QED BY <1>5, <1>6, <1>7 DEF FreshInv

\* Every step keeps the IPs fresh, the thread's change of the overlay too.
LEMMA FreshStep == TypeInv /\ FreshInv /\ [Next]_vars => FreshInv'
<1> SUFFICES ASSUME TypeInv, FreshInv, [Next]_vars PROVE FreshInv'
  OBVIOUS
<1>1. ASSUME NEW s \in Sessions, SessionStep(s), Watch PROVE FreshInv'
  <2>1. CASE OverlayLoad(s) \/ OverlayUnload(s) \/ Answer(s) \/ CommandTimeout(s)
    <3>1. /\ \E q \in {"idle", "wait"} : pc' = [pc EXCEPT ![s] = q]
          /\ UNCHANGED <<fields, left, injected>> /\ pc[s] \in {"idle", "wait"}
      BY <2>1 DEF OverlayLoad, OverlayUnload, Start, Answer, CommandTimeout
    <3> QED BY <1>1, <3>1, OtherCommandFresh
  <2>2. CASE HandlerReturns(s)
    <3>1. /\ pc' = [pc EXCEPT ![s] = "idle"] /\ LoopFree
          /\ injected' = [injected EXCEPT ![s] = NoIps]
          /\ UNCHANGED <<fields, left>>
      BY <2>2 DEF HandlerReturns
    <3> QED BY <1>1, <3>1, OtherCommandFresh
  <2> QED
    BY <1>1, <2>1, <2>2, DispatchFresh, VerifyFresh, InjectFresh DEF SessionStep
<1>2. ASSUME NEW w \in Workers, ThreadStep(w), Watch PROVE FreshInv'
  BY <1>2, FreshSame
     DEF ThreadStep, Construct, SetOverlay, SetName, SetInventory, SetVersion
<1>3. CASE UNCHANGED vars
  BY <1>3 DEF vars, FreshInv, OneDispatch, Collected, Seen
<1> QED BY <1>1, <1>2, <1>3 DEF Next

\* Whatever other sessions and abandoned threads load and unload meanwhile, a
\* handler is called with all its IPs, each of an overlay there was during the
\* dispatch.
THEOREM FreshIpsAlways == Spec => []FreshIps
<1>1. Init => FreshInv
  BY DEF Init, FreshInv, OneDispatch, Collected, Seen, InDispatch, NoIps
<1>2. FreshInv => FreshIps
  BY DEF FreshInv, FreshIps, Collected, Seen
<1> QED BY <1>1, <1>2, FreshStep, TypeAlways, PTL DEF Spec
-----------------------------------------------------------------------------
(* LastChangeHolds.                                                        *)

\* The fields a change writes, in its order, have the new value up to where
\* it is...
NewUpTo(w, value) ==
    /\ job[w].step \in {"name", "inventory", "version"} => overlay = value
    /\ job[w].step \in {"inventory", "version"} => loadedName = value
    /\ job[w].step = "version" => inventory = value

\* ... and the old one from there on.
OldFrom(w, value) ==
    /\ job[w].step \in {"construct", "overlay"} => overlay = value
    /\ job[w].step \in {"construct", "overlay", "name"} => loadedName = value
    /\ job[w].step # "version" => inventory = value
    /\ version = value

\* A change that has been alone so far still is, and has not been disturbed.
Undisturbed ==
    \A w \in Workers : ~Ended(w) /\ job[w].alone =>
        /\ \A v \in Workers : ~Ended(v) => v = w
        /\ NewUpTo(w, job[w].bit)

\* What the last change has left is known while there is none, or one.
KnownLeft ==
    expected # Unknown =>
        /\ \A w \in Workers : ~Ended(w) => job[w].alone /\ OldFrom(w, expected)
        /\ ~Changing =>
             /\ overlay = expected /\ loadedName = expected
             /\ inventory = expected /\ version = expected

LoadsBitfile == \A w \in Workers : job[w].op = "load" => job[w].bit \in Bitfiles

ChangeInv == LoadsBitfile /\ Undisturbed /\ KnownLeft

\* A session that starts no change: threads that have ended are cleared away.
LEMMA ChangeSame ==
    ASSUME TypeInv, ChangeInv, UNCHANGED <<fields, expected>>,
           \/ UNCHANGED job
           \/ \E w \in Workers : Ended(w) /\ job' = [job EXCEPT ![w] = NoJob]
    PROVE  ChangeInv'
<1>1. \A w \in Workers :
         \/ job'[w] = job[w]
         \/ Ended(w) /\ job'[w] = NoJob
  BY DEF TypeInv, TypeOK
<1>2. NoJob.step = "done" /\ NoJob.op = "none"
  BY DEF NoJob, Job
<1>3. \A w \in Workers : /\ Ended(w)' <=> Ended(w)
                         /\ ~Ended(w) => job'[w] = job[w]
  BY <1>1, <1>2 DEF Ended
<1>4. LoadsBitfile'
  BY <1>1, <1>2 DEF ChangeInv, LoadsBitfile
<1>5. Undisturbed'
  BY <1>3 DEF ChangeInv, Undisturbed, NewUpTo
<1>6. KnownLeft'
  BY <1>3 DEF ChangeInv, KnownLeft, OldFrom, Changing
<1> QED BY <1>4, <1>5, <1>6 DEF ChangeInv

\* A change starts: beside another one, neither is alone any more.
LEMMA StartChange ==
    ASSUME TypeInv, ChangeInv, NEW s \in Sessions, NEW op \in Ops,
           NEW bit \in Contents, NEW step \in {"construct", "overlay"},
           op = "load" => bit \in Bitfiles,
           Start(s, op, bit, step)
    PROVE  ChangeInv'
<1>1. PICK w \in Workers :
         /\ job[w] = NoJob
         /\ job' = [v \in Workers |-> IF v = w THEN Job(op, bit, step, ~Changing)
                                      ELSE [job[v] EXCEPT !.alone = FALSE]]
  BY DEF Start
<1>2. /\ UNCHANGED fields
      /\ expected' = IF Changing THEN Unknown ELSE expected
  BY DEF Start
<1>3. job[w].step = "done"
  BY <1>1 DEF NoJob, Job
<1>4. /\ job'[w].op = op /\ job'[w].bit = bit /\ job'[w].step = step
      /\ job'[w].alone = ~Changing
  BY <1>1 DEF Job
<1>5. \A v \in Workers : v # w =>
         /\ job'[v].op = job[v].op /\ job'[v].bit = job[v].bit
         /\ job'[v].step = job[v].step /\ job'[v].alone = FALSE
  BY <1>1 DEF TypeInv, TypeOK
<1>6. \A v \in Workers : v # w => (Ended(v)' <=> Ended(v))
  BY <1>5 DEF Ended
<1>7. LoadsBitfile'
  BY <1>4, <1>5 DEF ChangeInv, LoadsBitfile
<1>8. Undisturbed'
  <2>1. ~Changing => \A v \in Workers : ~Ended(v)' => v = w
    BY <1>6 DEF Changing
  <2>2. NewUpTo(w, job[w].bit)'
    BY <1>4 DEF NewUpTo
  <2>3. \A v \in Workers : job'[v].alone => v = w /\ ~Changing
    BY <1>4, <1>5
  <2> QED BY <2>1, <2>2, <2>3 DEF Undisturbed
<1>9. KnownLeft'
  <2>1. SUFFICES ASSUME expected' # Unknown PROVE KnownLeft'
    BY DEF KnownLeft
  <2>2. ~Changing /\ expected' = expected
    BY <1>2, <2>1
  <2>3. /\ overlay = expected /\ loadedName = expected
        /\ inventory = expected /\ version = expected
    BY <2>1, <2>2 DEF ChangeInv, KnownLeft
  <2>4. \A v \in Workers : ~Ended(v)' => v = w
    BY <1>6, <2>2 DEF Changing
  <2>5. job'[w].alone /\ OldFrom(w, expected)'
    BY <1>2, <1>4, <2>2, <2>3 DEF OldFrom
  <2>6. Changing'
    BY <1>4 DEF Changing, Ended
  <2> QED BY <2>4, <2>5, <2>6 DEF KnownLeft
<1> QED BY <1>7, <1>8, <1>9 DEF ChangeInv

\* The other threads do not notice a step of thread w; if one of them is
\* changing the manager, neither is alone, and what is left is unknown.
Beside(w) ==
    /\ \A v \in Workers : v # w => job'[v] = job[v]
    /\ job'[w].op = job[w].op /\ job'[w].bit = job[w].bit
    /\ job'[w].alone = job[w].alone

\* A thread goes on to its next step.
LEMMA ThenChange ==
    ASSUME TypeInv, ChangeInv, NEW w \in Workers, ~Ended(w),
           NEW step \in Steps \ {"done", "failed"}, Then(w, step),
           NewUpTo(w, job[w].bit) => NewUpTo(w, job[w].bit)',
           OldFrom(w, expected) => OldFrom(w, expected)'
    PROVE  ChangeInv'
<1>1. /\ Beside(w) /\ job'[w].step = step /\ expected' = expected
  BY DEF Then, TypeInv, TypeOK, Beside
<1>2. \A v \in Workers : /\ Ended(v)' <=> Ended(v)
                         /\ job'[v].alone = job[v].alone
                         /\ job'[v].op = job[v].op /\ job'[v].bit = job[v].bit
  BY <1>1 DEF Ended, Beside
<1>3. LoadsBitfile'
  BY <1>2 DEF ChangeInv, LoadsBitfile
<1>4. Undisturbed'
  <2>1. SUFFICES ASSUME NEW v \in Workers, ~Ended(v), job[v].alone
                 PROVE  /\ \A u \in Workers : ~Ended(u) => u = v
                        /\ NewUpTo(v, job[v].bit)'
    BY <1>2 DEF Undisturbed
  <2>2. \A u \in Workers : ~Ended(u) => u = v
    BY <2>1 DEF ChangeInv, Undisturbed
  <2>3. v = w
    BY <2>2
  <2>4. NewUpTo(w, job[w].bit)
    BY <2>1, <2>3 DEF ChangeInv, Undisturbed
  <2> QED BY <2>2, <2>3, <2>4
<1>5. KnownLeft'
  <2>1. SUFFICES ASSUME expected # Unknown PROVE KnownLeft'
    BY <1>1 DEF KnownLeft
  <2>2. \A v \in Workers : ~Ended(v) => job[v].alone /\ OldFrom(v, expected)
    BY <2>1 DEF ChangeInv, KnownLeft
  <2>3. \A v \in Workers : ~Ended(v) => v = w
    BY <2>2 DEF ChangeInv, Undisturbed
  <2>4. OldFrom(w, expected)' /\ job'[w].alone
    BY <1>2, <2>2
  <2>5. Changing'
    BY <1>2 DEF Changing
  <2> QED BY <1>2, <2>3, <2>4, <2>5 DEF KnownLeft
<1> QED BY <1>3, <1>4, <1>5 DEF ChangeInv

\* A thread ends: if it has been alone, it has written every field, or none.
LEMMA EndChange ==
    ASSUME TypeInv, ChangeInv, NEW w \in Workers, ~Ended(w),
           NEW outcome \in {"done", "failed"}, End(w, outcome),
           UNCHANGED <<overlay, loadedName, inventory>>,
           job[w].alone /\ outcome = "done" =>
              /\ overlay = job[w].bit /\ loadedName = job[w].bit
              /\ inventory = job[w].bit /\ version' = job[w].bit,
           outcome = "failed" => version' = version,
           job[w].alone /\ outcome = "failed" => job[w].step = "construct"
    PROVE  ChangeInv'
<1>1. /\ \A v \in Workers : v # w => job'[v] = job[v]
      /\ Ended(w)' /\ (job'[w].op = "load" => job'[w].bit \in Bitfiles)
  <2>1. job'[w] = [job[w] EXCEPT !.step = outcome] \/ job'[w] = NoJob
    BY DEF End, TypeInv, TypeOK
  <2>2. NoJob.step = "done" /\ NoJob.op = "none"
    BY DEF NoJob, Job
  <2>3. job[w].op = "load" => job[w].bit \in Bitfiles
    BY DEF ChangeInv, LoadsBitfile
  <2>4. Ended(w)' /\ (job'[w].op = "load" => job'[w].bit \in Bitfiles)
    BY <2>1, <2>2, <2>3 DEF Ended, TypeInv, TypeOK
  <2>5. \A v \in Workers : v # w => job'[v] = job[v]
    BY DEF End, TypeInv, TypeOK
  <2> QED BY <2>4, <2>5
<1>2. \A v \in Workers : ~Ended(v)' => v # w /\ ~Ended(v) /\ job'[v] = job[v]
  BY <1>1 DEF Ended
<1>3. LoadsBitfile'
  BY <1>1 DEF ChangeInv, LoadsBitfile
<1>4. \A v \in Workers : ~Ended(v)' => ~job'[v].alone
  BY <1>2 DEF ChangeInv, Undisturbed
<1>5. Undisturbed'
  BY <1>4 DEF Undisturbed
<1>6. KnownLeft'
  <2>1. CASE job[w].alone
    <3>1. ~Changing'
      BY <1>2, <2>1 DEF ChangeInv, Undisturbed, Changing
    <3>2. CASE outcome = "done"
      BY <2>1, <3>1, <3>2 DEF End, KnownLeft, Changing
    <3>3. CASE outcome = "failed"
      <4>1. expected' = expected /\ version' = version /\ job[w].step = "construct"
        BY <2>1, <3>3 DEF End
      <4>2. expected # Unknown => OldFrom(w, expected)
        BY DEF ChangeInv, KnownLeft
      <4>3. expected # Unknown =>
               /\ overlay = expected /\ loadedName = expected
               /\ inventory = expected /\ version = expected
        BY <4>1, <4>2 DEF OldFrom
      <4> QED BY <3>1, <4>1, <4>3 DEF KnownLeft, Changing
    <3> QED BY <3>2, <3>3
  <2>2. CASE ~job[w].alone
    <3>1. expected = Unknown /\ expected' = expected
      BY <2>2 DEF ChangeInv, KnownLeft, End
    <3> QED BY <3>1 DEF KnownLeft
  <2> QED BY <2>1, <2>2
<1> QED BY <1>3, <1>5, <1>6 DEF ChangeInv

\* Every step of a thread keeps account of the change.
LEMMA ThreadChange ==
    ASSUME TypeInv, ChangeInv, NEW w \in Workers, ThreadStep(w)
    PROVE  ChangeInv'
<1> USE DEF At, Ended
<1>a. job[w].alone /\ ~Ended(w) => NewUpTo(w, job[w].bit)
  BY DEF ChangeInv, Undisturbed
<1>t. \A step \in Steps : Then(w, step) =>
         job'[w].step = step /\ job'[w].bit = job[w].bit /\ expected' = expected
  BY DEF Then, TypeInv, TypeOK
<1> USE DEF Steps
<1>1. CASE Construct(w)
  <2>1. job[w].step = "construct" /\ UNCHANGED fields
    BY <1>1 DEF Construct
  <2>2. CASE Then(w, "overlay")
    BY <1>t, <2>1, <2>2, ThenChange DEF NewUpTo, OldFrom
  <2>3. CASE End(w, "failed")
    BY <2>1, <2>3, EndChange
  <2> QED BY <1>1, <2>2, <2>3 DEF Construct
<1>2. CASE SetOverlay(w)
  BY <1>2, <1>t, ThenChange DEF SetOverlay, NewUpTo, OldFrom
<1>3. CASE SetName(w)
  BY <1>3, <1>t, ThenChange DEF SetName, NewUpTo, OldFrom
<1>4. CASE SetInventory(w)
  BY <1>4, <1>t, ThenChange DEF SetInventory, NewInventory, NewUpTo, OldFrom
<1>5. CASE SetVersion(w)
  <2>1. /\ job[w].step = "version" /\ UNCHANGED <<overlay, loadedName, inventory>>
        /\ job[w].alone =>
             /\ overlay = job[w].bit /\ loadedName = job[w].bit
             /\ inventory = job[w].bit
    BY <1>5, <1>a DEF SetVersion, NewUpTo
  <2>2. CASE version' = job[w].bit /\ End(w, "done")
    BY <2>1, <2>2, EndChange
  <2>3. CASE job[w].op = "load" /\ loadedName = None /\ End(w, "failed")
             /\ UNCHANGED version
    <3>1. ~job[w].alone
      BY <2>1, <2>3 DEF ChangeInv, LoadsBitfile
    <3> QED BY <2>1, <2>3, <3>1, EndChange
  <2>4. CASE End(w, "done") /\ version' = loadedName
    BY <2>1, <2>4, EndChange
  <2> QED BY <1>5, <2>2, <2>3, <2>4 DEF SetVersion
<1> QED BY <1>1, <1>2, <1>3, <1>4, <1>5 DEF ThreadStep

\* Every step of a session does.
LEMMA SessionChange ==
    ASSUME TypeInv, ChangeInv, NEW s \in Sessions, SessionStep(s)
    PROVE  ChangeInv'
<1>1. CASE OverlayLoad(s)
  <2>1. PICK bit \in Bitfiles : Start(s, "load", bit, "construct")
    BY <1>1 DEF OverlayLoad
  <2> QED BY <2>1, StartChange DEF Ops, Contents
<1>2. CASE OverlayUnload(s)
  BY <1>2, StartChange DEF OverlayUnload, Ops, Contents
<1>3. CASE Answer(s) \/ CommandTimeout(s)
  <2>1. \/ UNCHANGED job
        \/ \E w \in Workers : Ended(w) /\ job' = [job EXCEPT ![w] = NoJob]
    <3>1. worker[s] \in Workers \cup {None}
      BY DEF TypeInv, TypeOK
    <3>2. worker[s] \notin Workers =>
             [job EXCEPT ![worker[s]] = NoJob] = job
      BY DEF TypeInv, TypeOK
    <3> QED BY <1>3, <3>1, <3>2 DEF Answer, CommandTimeout
  <2> QED BY <1>3, <2>1, ChangeSame DEF Answer, CommandTimeout
<1>4. CASE Dispatch(s) \/ Verify(s) \/ Inject(s) \/ HandlerReturns(s)
  BY <1>4, ChangeSame DEF Dispatch, Verify, Inject, HandlerReturns
<1> QED BY <1>1, <1>2, <1>3, <1>4 DEF SessionStep

\* Whoever has loaded or unloaded with no other change beside it finds, when
\* nobody is changing the manager, all four fields as its change left them.
THEOREM LastChangeAlways == Spec => []LastChangeHolds
<1>1. Init => ChangeInv
  BY DEF Init, ChangeInv, LoadsBitfile, Undisturbed, KnownLeft, Ended, Changing,
         NoJob, Job
<1>2. TypeInv /\ ChangeInv /\ [Next]_vars => ChangeInv'
  <2> SUFFICES ASSUME TypeInv, ChangeInv, [Next]_vars PROVE ChangeInv'
    OBVIOUS
  <2>1. CASE UNCHANGED vars
    BY <2>1, ChangeSame DEF vars
  <2> QED BY <2>1, SessionChange, ThreadChange DEF Next
<1>3. ChangeInv => LastChangeHolds
  BY DEF ChangeInv, KnownLeft, LastChangeHolds
<1> QED BY <1>1, <1>2, <1>3, TypeAlways, PTL DEF Spec
===============================================================================
