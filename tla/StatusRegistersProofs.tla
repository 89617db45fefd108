------------------------ MODULE StatusRegistersProofs ------------------------
(***************************************************************************)
(* Theorems about StatusRegisters, for any number of sessions, device      *)
(* clears and errors: an event is lost, or reported twice, only where a    *)
(* write of the register was under way as it was recorded or reported; the *)
(* error queue holds exactly the newest errors.                            *)
(***************************************************************************)
EXTENDS StatusRegisters, Integers, TLAPS

-----------------------------------------------------------------------------
(* Events.                                                                 *)

\* A thread that is about to write the register back has read every event
\* that is still due, and none that has been reported, but for what happened
\* since it has read, and for what a race has spoiled before.
EventInv ==
    /\ pc \in [Threads -> Pcs]
    /\ {acc, recorded, reported} \subseteq [Threads -> SUBSET EventBits]
    /\ due \subseteq esr \cup raced
    /\ esr \subseteq unreported \cup raced
    /\ \A t \in Threads : Midway(t) =>
         /\ due \subseteq acc[t] \cup recorded[t] \cup raced
         /\ acc[t] \subseteq unreported \cup reported[t] \cup raced
    /\ esr \subseteq EventBits

\* The invariant holds initially.
LEMMA EventInit == Init => EventInv
BY DEF Init, EventInv, Pcs, Midway

\* A thread reads the register.
LEMMA LoadKeeps ==
    ASSUME EventInv, NEW t \in Threads, NEW from, NEW to \in Pcs,
           LoadEsr(t, from, to)
    PROVE  EventInv'
BY DEF EventInv, LoadEsr, Goto, eventVars, Midway

\* What the others have missed when t writes, element by element.
LEMMA MissedBy ==
    ASSUME NEW t \in Threads, NEW seen \in [Threads -> SUBSET EventBits],
           NEW events \in SUBSET EventBits
    PROVE  /\ Missed(t, seen, events) \in [Threads -> SUBSET EventBits]
           /\ \A s \in Threads : s # t /\ Midway(s) =>
                Missed(t, seen, events)[s] = seen[s] \cup events
BY DEF Missed

\* A thread writes the register back with one more event.
LEMMA StoreKeeps ==
    ASSUME EventInv, NEW t \in Threads, NEW from, NEW bit \in EventBits,
           from \in {"opcStore", "tstStore"}, StoreEsr(t, from, bit)
    PROVE  EventInv'
<1>1. /\ pc[t] = from /\ pc' = [pc EXCEPT ![t] = "idle"]
      /\ acc' = [acc EXCEPT ![t] = {}]
      /\ esr' = acc[t] \cup {bit}
      /\ due' = due \cup {bit} /\ unreported' = unreported \cup {bit}
      /\ raced' = (raced \cup recorded[t] \cup reported[t]) \ {bit}
      /\ recorded' = Missed(t, recorded, {bit})
      /\ reported' = Missed(t, reported, {})
  BY DEF StoreEsr, Goto, WithBit
<1>2. /\ pc \in [Threads -> Pcs] /\ acc \in [Threads -> SUBSET EventBits]
      /\ recorded \in [Threads -> SUBSET EventBits]
      /\ reported \in [Threads -> SUBSET EventBits]
  BY DEF EventInv
<1>3. /\ recorded' \in [Threads -> SUBSET EventBits]
      /\ \A s \in Threads : s # t /\ Midway(s) =>
           recorded'[s] = recorded[s] \cup {bit}
  BY <1>1, <1>2, MissedBy
<1>4. /\ reported' \in [Threads -> SUBSET EventBits]
      /\ \A s \in Threads : s # t /\ Midway(s) => reported'[s] = reported[s]
  <2>1. /\ Missed(t, reported, {}) \in [Threads -> SUBSET EventBits]
        /\ \A s \in Threads : s # t /\ Midway(s) =>
             Missed(t, reported, {})[s] = reported[s]
    BY <1>2 DEF Missed
  <2> QED BY <1>1, <2>1
<1>5. Midway(t)
  BY <1>1 DEF Midway
<1>6. /\ pc' \in [Threads -> Pcs] /\ acc' \in [Threads -> SUBSET EventBits]
      /\ esr' \subseteq EventBits
  BY <1>1, <1>2 DEF Pcs
<1>7. due' \subseteq esr' \cup raced'
  BY <1>1, <1>5 DEF EventInv
<1>8. esr' \subseteq unreported' \cup raced'
  BY <1>1, <1>5 DEF EventInv
<1>9. ASSUME NEW s \in Threads, Midway(s)'
      PROVE  /\ due' \subseteq acc'[s] \cup recorded'[s] \cup raced'
             /\ acc'[s] \subseteq unreported' \cup reported'[s] \cup raced'
  <2>1. s # t /\ Midway(s) /\ acc'[s] = acc[s]
    BY <1>1, <1>2, <1>9 DEF Midway
  <2>2. /\ due \subseteq acc[s] \cup recorded[s] \cup raced
        /\ acc[s] \subseteq unreported \cup reported[s] \cup raced
    BY <2>1 DEF EventInv
  <2>3. recorded'[s] = recorded[s] \cup {bit} /\ reported'[s] = reported[s]
    BY <1>3, <1>4, <2>1
  <2> QED BY <1>1, <2>1, <2>2, <2>3
<1> QED BY <1>3, <1>4, <1>6, <1>7, <1>8, <1>9 DEF EventInv

\* A thread reports what it has read and clears the register.
LEMMA ClearKeeps ==
    ASSUME EventInv, NEW t \in Threads, EsrClear(t)
    PROVE  EventInv'
<1> DEFINE told == acc[t] \ recorded[t]
<1>1. /\ pc[t] = "esrClear" /\ pc' = [pc EXCEPT ![t] = "idle"]
      /\ acc' = [acc EXCEPT ![t] = {}]
      /\ esr' = {}
      /\ due' = due \ told /\ unreported' = unreported \ told
      /\ raced' = (raced \ told) \cup recorded[t]
      /\ recorded' = Missed(t, recorded, {})
      /\ reported' = Missed(t, reported, told)
  BY DEF EsrClear, Goto, EsrReported
<1>2. /\ pc \in [Threads -> Pcs] /\ acc \in [Threads -> SUBSET EventBits]
      /\ recorded \in [Threads -> SUBSET EventBits]
      /\ reported \in [Threads -> SUBSET EventBits]
      /\ told \in SUBSET EventBits
  BY DEF EventInv
<1> HIDE DEF told
<1>3. /\ recorded' \in [Threads -> SUBSET EventBits]
      /\ \A s \in Threads : s # t /\ Midway(s) => recorded'[s] = recorded[s]
  <2>1. /\ Missed(t, recorded, {}) \in [Threads -> SUBSET EventBits]
        /\ \A s \in Threads : s # t /\ Midway(s) =>
             Missed(t, recorded, {})[s] = recorded[s]
    BY <1>2 DEF Missed
  <2> QED BY <1>1, <2>1
<1>4. /\ reported' \in [Threads -> SUBSET EventBits]
      /\ \A s \in Threads : s # t /\ Midway(s) =>
           reported'[s] = reported[s] \cup told
  BY <1>1, <1>2, MissedBy
<1>5. Midway(t)
  BY <1>1 DEF Midway
<1>6. pc' \in [Threads -> Pcs] /\ acc' \in [Threads -> SUBSET EventBits]
  BY <1>1, <1>2 DEF Pcs
<1>7. due' \subseteq raced'
  <2>1. due \subseteq acc[t] \cup recorded[t] \cup raced
    BY <1>5 DEF EventInv
  <2> QED BY <1>1, <2>1 DEF told
<1>8. ASSUME NEW s \in Threads, Midway(s)'
      PROVE  acc'[s] \subseteq unreported' \cup reported'[s] \cup raced'
  <2>1. s # t /\ Midway(s) /\ acc'[s] = acc[s]
    BY <1>1, <1>2, <1>8 DEF Midway
  <2>2. acc[s] \subseteq unreported \cup reported[s] \cup raced
    BY <2>1 DEF EventInv
  <2>3. reported'[s] = reported[s] \cup told
    BY <1>4, <2>1
  <2> QED BY <1>1, <2>1, <2>2, <2>3
<1>9. esr' \subseteq unreported' \cup raced' /\ esr' \subseteq EventBits
  BY <1>1
<1> QED BY <1>1, <1>3, <1>4, <1>6, <1>7, <1>8, <1>9 DEF EventInv

\* Every step of every thread keeps the invariant.
LEMMA EventStep == EventInv /\ [Next]_vars => EventInv'
<1> SUFFICES ASSUME EventInv, [Next]_vars PROVE EventInv'
  OBVIOUS
<1>1. CASE UNCHANGED <<eventVars, threadVars, pc>>
  BY <1>1 DEF EventInv, eventVars, threadVars, Midway
<1>2. CASE Next
  <2> PICK t \in Threads : Step(t) BY <1>2 DEF Next
  <2>1. CASE Fail(t) \/ Enable(t) \/ PopError(t)
    BY <2>1, <1>1 DEF Fail, Enable, PopError
  <2>2. CASE Cls(t)
    BY <2>2 DEF Cls, Goto, EventInv, threadVars, Midway, Pcs
  <2>3. CASE ClsErrors(t) \/ Tst(t)
    BY <2>3
    DEF ClsErrors, Tst, Goto, EventInv, eventVars, threadVars, Midway, Pcs
  <2>4. CASE Opc(t) \/ TstLoad(t) \/ EsrQuery(t)
    BY <2>4, LoadKeeps DEF Opc, TstLoad, EsrQuery, Pcs
  <2>5. CASE OpcStore(t) \/ TstStore(t)
    BY <2>5, StoreKeeps DEF OpcStore, TstStore, EventBits
  <2>6. CASE EsrClear(t)
    BY <2>6, ClearKeeps
  <2> QED
    BY <2>1, <2>2, <2>3, <2>4, <2>5, <2>6 DEF Step
<1> QED
  BY <1>1, <1>2 DEF vars

\* For any number of sessions and of device clears: an event that is neither
\* reported nor cleared is in the register, unless it was recorded between
\* another thread's read and its write.
THEOREM EventsKept == Spec => []EventNotLost
<1>1. EventInv => EventNotLost
  BY DEF EventInv, EventNotLost
<1> QED
  BY EventInit, EventStep, <1>1, PTL DEF Spec

\* What is in the register, and what an *ESR? is about to report, has not
\* been reported since it was recorded, unless it was reported between
\* another thread's read and its write.
THEOREM NoneReportedTwice == Spec => []ReportedOnce
<1>1. EventInv => ReportedOnce
  BY DEF EventInv, ReportedOnce, Midway
<1> QED
  BY EventInit, EventStep, <1>1, PTL DEF Spec

\* With one session no thread is midway when another records or reports.
AloneInv ==
    /\ pc \in [Threads -> Pcs]
    /\ raced = {}
    /\ \A t \in Threads :
         /\ pc[t] = "tstLoad" \/ Midway(t) => t \in Sessions
         /\ recorded[t] = {} /\ reported[t] = {}

\* So the race that the two theorems except is one between sessions: an
\* instrument with one session loses no event and reports none twice, however
\* many device clears there are.
LEMMA NoRaceAlone ==
    ASSUME \A s, t \in Sessions : s = t
    PROVE  Spec => []AloneInv
<1> USE DEF AloneInv, Pcs, Midway
<1>1. Init => AloneInv
  BY DEF Init
<1>2. ASSUME AloneInv, [Next]_vars PROVE AloneInv'
  <2>1. CASE UNCHANGED vars
    BY <1>2, <2>1 DEF vars, eventVars, threadVars
  <2>2. CASE Next
    <3> PICK t \in Threads : Step(t) BY <2>2 DEF Next
    <3>1. CASE Fail(t) \/ Enable(t) \/ PopError(t)
      BY <1>2, <3>1 DEF Fail, Enable, PopError, eventVars, threadVars
    <3>2. CASE Cls(t) \/ ClsErrors(t) \/ Tst(t) \/ Opc(t) \/ TstLoad(t)
               \/ EsrQuery(t)
      <4>1. PICK to \in Pcs :
               /\ pc' = [pc EXCEPT ![t] = to]
               /\ to \notin {"idle", "clsErrors"} => t \in Sessions
        BY <1>2, <3>2
        DEF Cls, ClsErrors, Tst, Opc, TstLoad, EsrQuery, LoadEsr, Goto
      <4>2. UNCHANGED <<raced, recorded, reported>>
        BY <3>2
        DEF Cls, ClsErrors, Tst, Opc, TstLoad, EsrQuery, LoadEsr, eventVars,
            threadVars
      <4>3. ASSUME NEW s \in Threads, pc'[s] = "tstLoad" \/ Midway(s)'
            PROVE  s \in Sessions
        BY <1>2, <4>1, <4>3
      <4> QED BY <1>2, <4>1, <4>2, <4>3
    <3>3. CASE OpcStore(t) \/ TstStore(t) \/ EsrClear(t)
      <4>1. /\ pc' = [pc EXCEPT ![t] = "idle"] /\ Midway(t)
            /\ \E bits \in {{bit} : bit \in EventBits} \cup {{}} :
                 recorded' = Missed(t, recorded, bits)
            /\ \E bits : reported' = Missed(t, reported, bits)
            /\ raced' \subseteq raced \cup recorded[t] \cup reported[t]
        BY <3>3
        DEF OpcStore, TstStore, StoreEsr, EsrClear, Goto, EventBits
      <4>2. ASSUME NEW s \in Threads
            PROVE  ~(s # t /\ Midway(s))
        BY <1>2, <4>1
      <4>3. ASSUME NEW s \in Threads
            PROVE  recorded'[s] = {} /\ reported'[s] = {}
        BY <4>1, <4>2 DEF Missed
      <4>4. raced' = {}
        BY <1>2, <4>1
      <4> QED BY <1>2, <4>1, <4>3, <4>4
    <3> QED
      BY <3>1, <3>2, <3>3 DEF Step
  <2> QED BY <1>2, <2>1, <2>2
<1> QED BY <1>1, <1>2, PTL DEF Spec

-----------------------------------------------------------------------------
(* Errors.                                                                 *)

\* The n errors up to the one numbered last, in order.
Newest(n, last) == [k \in 1..n |-> last - n + k]

\* How many of the errors not taken yet the queue has room for.
Kept(p, t) == IF p - t < ErrorDepth THEN p - t ELSE ErrorDepth

ErrorInv ==
    /\ pushed \in Nat /\ taken \in Nat /\ taken <= pushed
    /\ errors = Newest(Kept(pushed, taken), pushed)

\* Pushing one more keeps the newest.
LEMMA PushNewest ==
    ASSUME NEW p \in Nat, NEW t \in Nat, t <= p
    PROVE  KeepNewest(Append(Newest(Kept(p, t), p), p + 1)) =
           Newest(Kept(p + 1, t), p + 1)
<1> DEFINE n == Kept(p, t)
           q == Append(Newest(n, p), p + 1)
<1>1. n \in Nat /\ n <= p /\ n <= ErrorDepth /\ ErrorDepth \in Nat \ {0}
  BY RegistersAssumption DEF Kept
<1>2. Newest(n, p) \in Seq(Int) /\ Len(Newest(n, p)) = n
  BY <1>1 DEF Newest
<1>3. /\ q \in Seq(Int) /\ Len(q) = n + 1
      /\ \A k \in 1..(n + 1) : q[k] = p - n + k
  BY <1>1, <1>2 DEF Newest
<1>4. q = Newest(n + 1, p + 1)
  BY <1>1, <1>3 DEF Newest
<1>0. q = Append(Newest(Kept(p, t), p), p + 1)
  OBVIOUS
<1> HIDE DEF q
<1>5. CASE n + 1 <= ErrorDepth
  <2>1. Kept(p + 1, t) = n + 1
    BY <1>5, <1>1 DEF Kept
  <2>2. KeepNewest(q) = q
    BY <1>1, <1>3, <1>5 DEF KeepNewest
  <2>3. QED
    BY <2>1, <2>2, <1>0, <1>4
<1>6. CASE n = ErrorDepth
  <2>1. Kept(p + 1, t) = n
    BY <1>6, <1>1 DEF Kept
  <2>2. n + 1 > ErrorDepth /\ (n + 1) - ErrorDepth + 1 = 2
    BY <1>1, <1>6
  <2>3. KeepNewest(q) = SubSeq(q, 2, n + 1)
    BY <1>3, <2>2 DEF KeepNewest
  <2>4. /\ SubSeq(q, 2, n + 1) \in Seq(Int)
        /\ Len(SubSeq(q, 2, n + 1)) = n
        /\ \A k \in 1..n : SubSeq(q, 2, n + 1)[k] = q[k + 1]
    BY <1>1, <1>3
  <2>5. \A k \in 1..n : q[k + 1] = (p + 1) - n + k
    BY <1>1, <1>3
  <2>6. SubSeq(q, 2, n + 1) = [k \in 1..n |-> (p + 1) - n + k]
    BY <1>1, <2>4, <2>5
  <2>7. QED
    BY <2>1, <1>0, <2>3, <2>6 DEF Newest
<1>7. QED
  BY <1>1, <1>5, <1>6

\* A sequence is the function it is, entry by entry.
LEMMA Entries ==
    ASSUME NEW s \in Seq(Int), NEW m \in Nat, Len(s) = m, NEW p \in Nat,
           \A k \in 1..m : s[k] = p - m + k
    PROVE  s = [k \in 1..m |-> p - m + k]
OBVIOUS

\* Taking the head leaves the rest.
LEMMA TailNewest ==
    ASSUME NEW n \in Nat \ {0}, NEW p \in Nat
    PROVE  /\ Newest(n, p) # << >>
           /\ Head(Newest(n, p)) = p - n + 1
           /\ Tail(Newest(n, p)) = Newest(n - 1, p)
<1>1. Newest(n, p) \in Seq(Int) /\ Len(Newest(n, p)) = n
  BY DEF Newest
<1>2. Head(Newest(n, p)) = p - n + 1
  BY <1>1 DEF Newest
<1>3. /\ Tail(Newest(n, p)) \in Seq(Int)
      /\ Len(Tail(Newest(n, p))) = n - 1
      /\ \A k \in 1..(n - 1) : Tail(Newest(n, p))[k] = Newest(n, p)[k + 1]
  BY <1>1
<1>4. \A k \in 1..(n - 1) : Newest(n, p)[k + 1] = p - (n - 1) + k
  BY DEF Newest
<1>5. ASSUME NEW m \in Nat, m = n - 1
      PROVE  Tail(Newest(n, p)) = [k \in 1..m |-> p - m + k]
  <2>1. /\ Tail(Newest(n, p)) \in Seq(Int) /\ Len(Tail(Newest(n, p))) = m
        /\ \A k \in 1..m : Tail(Newest(n, p))[k] = p - m + k
    BY <1>3, <1>4, <1>5
  <2>2. QED
    BY <2>1, Entries
<1>6. Tail(Newest(n, p)) = Newest(n - 1, p)
  BY <1>5 DEF Newest
<1>7. QED
  BY <1>1, <1>2, <1>6

\* Every step of every thread keeps the invariant.
LEMMA ErrorStep == ErrorInv /\ [Next]_vars => ErrorInv'
<1> SUFFICES ASSUME ErrorInv, [Next]_vars PROVE ErrorInv'
  OBVIOUS
<1>1. CASE UNCHANGED errVars
  BY <1>1 DEF ErrorInv, errVars
<1>2. CASE PushError
  BY <1>2, PushNewest DEF ErrorInv, PushError
<1>3. CASE errors' = << >> /\ taken' = pushed /\ UNCHANGED pushed
  <2>1. Kept(pushed, pushed) = 0
    BY RegistersAssumption DEF Kept, ErrorInv
  <2>2. << >> = Newest(0, pushed)
    BY DEF Newest, ErrorInv
  <2>3. QED
    BY <1>3, <2>1, <2>2 DEF ErrorInv
<1>4. CASE errors # << >> /\ errors' = Tail(errors) /\ taken' = Head(errors)
           /\ UNCHANGED pushed
  <2> DEFINE n == Kept(pushed, taken)
  <2>1. n \in Nat /\ n <= pushed - taken /\ n <= ErrorDepth
    BY RegistersAssumption DEF Kept, ErrorInv
  <2>2. n # 0
    BY <1>4 DEF ErrorInv, Newest
  <2>3. /\ taken' = pushed - n + 1
        /\ errors' = Newest(n - 1, pushed)
    BY <1>4, <2>1, <2>2, TailNewest DEF ErrorInv
  <2>4. Kept(pushed, taken') = n - 1
    BY <2>1, <2>2, <2>3, RegistersAssumption DEF Kept, ErrorInv
  <2>5. QED
    BY <1>4, <2>1, <2>2, <2>3, <2>4 DEF ErrorInv
<1>5. QED
  <2>1. CASE UNCHANGED vars
    BY <1>1, <2>1 DEF vars
  <2>2. CASE Next
    <3> PICK t \in Threads : Step(t) BY <2>2 DEF Next
    <3>1. CASE Fail(t) \/ Enable(t) \/ Tst(t)
      BY <3>1, <1>2 DEF Fail, Enable, Tst
    <3>2. CASE PopError(t)
      BY <3>2, <1>4 DEF PopError
    <3>3. CASE ClsErrors(t)
      BY <3>3, <1>3 DEF ClsErrors
    <3>4. CASE Cls(t) \/ Opc(t) \/ OpcStore(t) \/ TstLoad(t) \/ TstStore(t)
               \/ EsrQuery(t) \/ EsrClear(t)
      BY <3>4, <1>1 DEF Cls, Opc, OpcStore, TstLoad, TstStore, EsrQuery,
         EsrClear, LoadEsr, StoreEsr
    <3>5. QED
      BY <3>1, <3>2, <3>3, <3>4 DEF Step
  <2>3. QED
    BY <2>1, <2>2

\* Whatever the sessions do at the same time, the error queue holds the
\* newest errors that nobody has taken, as many as it has room for.
THEOREM ErrorsAlwaysExact == Spec => []ErrorsExact
<1>1. Init => ErrorInv
  BY RegistersAssumption DEF Init, ErrorInv, Newest, Kept
<1>2. ErrorInv => ErrorsExact
  BY DEF ErrorInv, ErrorsExact, Newest, Kept
<1>3. QED
  BY <1>1, <1>2, ErrorStep, PTL DEF Spec

-----------------------------------------------------------------------------
(* Types.                                                                  *)

\* What EventInv and ErrorInv leave open.
RegisterInv ==
    /\ due \subseteq EventBits /\ unreported \subseteq EventBits
    /\ raced \subseteq EventBits
    /\ pushed <= MaxErrors

\* Every step of every thread keeps the types of the registers.
LEMMA RegisterStep ==
    EventInv /\ ErrorInv /\ RegisterInv /\ [Next]_vars => RegisterInv'
<1> SUFFICES ASSUME EventInv, ErrorInv, RegisterInv, [Next]_vars
             PROVE  RegisterInv'
  OBVIOUS
<1>1. pushed' <= MaxErrors
  <2>1. pushed' = pushed \/ PushError
    BY DEF Next, Step, Fail, Enable, PopError, Cls, ClsErrors, Opc, OpcStore,
           Tst, TstLoad, TstStore, EsrQuery, EsrClear, LoadEsr, StoreEsr,
           errVars, vars
  <2> QED
    BY <2>1, RegistersAssumption DEF PushError, ErrorInv, RegisterInv
<1>2. /\ due' \subseteq EventBits /\ unreported' \subseteq EventBits
      /\ raced' \subseteq EventBits
  <2> USE DEF RegisterInv, eventVars
  <2>1. CASE UNCHANGED vars
    BY <2>1 DEF vars
  <2>2. CASE Next
    <3> PICK t \in Threads : Step(t) BY <2>2 DEF Next
    <3>1. recorded[t] \subseteq EventBits /\ reported[t] \subseteq EventBits
      BY DEF EventInv
    <3>2. CASE Fail(t) \/ Enable(t) \/ PopError(t) \/ ClsErrors(t) \/ Tst(t)
      BY <3>2 DEF Fail, Enable, PopError, ClsErrors, Tst
    <3>3. CASE Cls(t)
      BY <3>3 DEF Cls
    <3>4. CASE Opc(t) \/ TstLoad(t) \/ EsrQuery(t)
      BY <3>4 DEF Opc, TstLoad, EsrQuery, LoadEsr
    <3>5. CASE OpcStore(t) \/ TstStore(t)
      BY <3>1, <3>5 DEF OpcStore, TstStore, StoreEsr, EventBits
    <3>6. CASE EsrClear(t)
      BY <3>1, <3>6 DEF EsrClear
    <3> QED
      BY <3>2, <3>3, <3>4, <3>5, <3>6 DEF Step
  <2> QED BY <2>1, <2>2
<1> QED BY <1>1, <1>2 DEF RegisterInv

\* The errors of the queue are errors that were pushed, no more than fit.
LEMMA ErrorsType ==
    ASSUME EventInv, ErrorInv, RegisterInv
    PROVE  TypeOK
<1>1. PICK n \in Nat : n = Kept(pushed, taken)
  BY RegistersAssumption DEF Kept, ErrorInv
<1>2. n <= ErrorDepth /\ n <= pushed - taken
  BY <1>1, RegistersAssumption DEF Kept, ErrorInv
<1>3. PICK p \in Nat : p = pushed /\ n <= p /\ p <= MaxErrors
  BY <1>2 DEF ErrorInv, RegisterInv
<1>4. errors = [k \in 1..n |-> p - n + k]
  BY <1>1, <1>3 DEF ErrorInv, Newest
<1>5. \A k \in 1..n : p - n + k \in 1..MaxErrors
  BY <1>3, RegistersAssumption
<1>6. errors \in Seq(1..MaxErrors) /\ Len(errors) = n
  BY <1>4, <1>5
<1>7. pushed \in 0..MaxErrors /\ taken \in 0..pushed
  BY RegistersAssumption DEF ErrorInv, RegisterInv
<1> QED BY <1>2, <1>6, <1>7 DEF EventInv, RegisterInv, TypeOK

\* Whatever the sessions and the receive loops do at the same time, the
\* registers and the queue keep to their types: the queue never outgrows its
\* limit.
THEOREM TypeCorrect == Spec => []TypeOK
<1>1. Init => ErrorInv /\ RegisterInv
  BY RegistersAssumption DEF Init, ErrorInv, RegisterInv, Newest, Kept
<1> QED BY <1>1, EventInit, EventStep, ErrorStep, RegisterStep, ErrorsType, PTL
        DEF Spec
=============================================================================
