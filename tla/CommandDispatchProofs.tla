------------------------ MODULE CommandDispatchProofs ------------------------
(***************************************************************************)
(* Theorems about CommandDispatch, for any number of sessions, calls and   *)
(* threads: types, what is awaited is in one place and what is in a place  *)
(* is awaited, and no handler starts after its caller has given it up.     *)
(***************************************************************************)
EXTENDS CommandDispatch, FiniteSetTheorems, TLAPS

\* The running jobs are counted, so it matters that they are finitely many.
Inv == TypeOK /\ OwnJob /\ IsFiniteSet(running)

-----------------------------------------------------------------------------
(* The queue of the pool.                                                  *)

Elements(q)   == {q[k] : k \in DOMAIN q}
NoneTwice(q)  == \A k, l \in DOMAIN q : q[k] = q[l] => k = l

\* A job that is new to the queue joins it.
LEMMA Appended ==
    ASSUME NEW q \in Seq(Calls), NEW j \in Calls
    PROVE  /\ Append(q, j) \in Seq(Calls)
           /\ Elements(Append(q, j)) = Elements(q) \cup {j}
           /\ NoneTwice(q) /\ j \notin Elements(q) => NoneTwice(Append(q, j))
<1> DEFINE r == Append(q, j)
<1>1. /\ r \in Seq(Calls) /\ Len(r) = Len(q) + 1 /\ Len(q) \in Nat
      /\ r[Len(q) + 1] = j
      /\ \A k \in 1..Len(q) : r[k] = q[k]
  OBVIOUS
<1>2. DOMAIN r = 1..(Len(q) + 1) /\ DOMAIN q = 1..Len(q)
  BY <1>1
<1> HIDE DEF r
<1>3. Elements(r) = Elements(q) \cup {j}
  BY <1>1, <1>2 DEF Elements
<1>4. NoneTwice(q) /\ j \notin Elements(q) => NoneTwice(r)
  BY <1>1, <1>2 DEF NoneTwice, Elements
<1>5. QED
  BY <1>1, <1>3, <1>4 DEF r

\* The first job leaves the queue, and the others stay.
LEMMA Taken ==
    ASSUME NEW q \in Seq(Calls), q # << >>, NoneTwice(q)
    PROVE  LET r == SubSeq(q, 1, 0) \o SubSeq(q, 2, Len(q)) IN
           /\ r \in Seq(Calls) /\ q[1] \in Elements(q)
           /\ Elements(r) = Elements(q) \ {q[1]}
           /\ NoneTwice(r)
<1> DEFINE n == Len(q)
           a == SubSeq(q, 1, 0)
           b == SubSeq(q, 2, n)
           r == a \o b
<1>1. n \in Nat /\ n # 0 /\ DOMAIN q = 1..n
  OBVIOUS
<1>2. a \in Seq(Calls) /\ Len(a) = 0
  OBVIOUS
<1>3. b \in Seq(Calls) /\ Len(b) = n - 1 /\ \A k \in 1..(n - 1) : b[k] = q[k + 1]
  BY <1>1
<1> HIDE DEF n, a, b
<1>4. /\ r \in Seq(Calls) /\ Len(r) = n - 1
      /\ \A k \in 1..(n - 1) : r[k] = q[k + 1]
  BY <1>1, <1>2, <1>3
<1>5. DOMAIN r = 1..(n - 1)
  BY <1>4
<1> HIDE DEF r
<1>6. q[1] \in Elements(q)
  BY <1>1 DEF Elements
<1>7. Elements(r) \subseteq Elements(q) \ {q[1]}
  BY <1>1, <1>4, <1>5 DEF Elements, NoneTwice
<1>8. ASSUME NEW k \in 1..n, k # 1 PROVE q[k] \in Elements(r)
  <2>1. k - 1 \in 1..(n - 1) /\ r[k - 1] = q[k]
    BY <1>1, <1>4, <1>8
  <2>2. QED
    BY <2>1, <1>5 DEF Elements
<1>9. Elements(q) \ {q[1]} \subseteq Elements(r)
  BY <1>1, <1>8 DEF Elements
<1>10. NoneTwice(r)
  <2>1. ASSUME NEW k \in 1..(n - 1), NEW l \in 1..(n - 1), r[k] = r[l]
        PROVE  k = l
    <3>1. k + 1 \in 1..n /\ l + 1 \in 1..n /\ q[k + 1] = q[l + 1]
      BY <1>1, <1>4, <2>1
    <3>2. k + 1 = l + 1
      BY <1>1, <3>1 DEF NoneTwice
    <3>3. QED
      BY <1>1, <3>2
  <2>2. QED
    BY <1>5, <2>1 DEF NoneTwice
<1>11. QED
  BY <1>4, <1>6, <1>7, <1>9, <1>10 DEF r, a, b, n

-----------------------------------------------------------------------------
\* The invariant part by part, with the queue behind Elements and NoneTwice.
Parts ==
    /\ awaits \in [Callers -> Calls \cup {None}]
    /\ kind \in [Callers -> Kinds \cup {None}]
    /\ \A c \in Callers : awaits[c] = None <=> kind[c] = None
    /\ backlog \in Seq(Calls) /\ NoneTwice(backlog)
    /\ withdrawn \subseteq Elements(backlog)
    /\ running \subseteq Calls /\ results \subseteq Calls
    /\ IsFiniteSet(running) /\ Cardinality(running) <= Threads
    /\ \A c, d \in Callers : awaits[c] = awaits[d] /\ awaits[c] # None => c = d
    /\ \A c \in Callers : kind[c] \in {"function", "offload"} =>
         awaits[c] \in (Elements(backlog) \ withdrawn) \cup running \cup results
    /\ \A c \in Callers : kind[c] = "coroutine" =>
         awaits[c] \notin Elements(backlog) \cup running \cup results
    /\ running \cap results = {}
    /\ Elements(backlog) \cap (running \cup results) = {}
    /\ Elements(backlog) \ withdrawn \subseteq Awaited
    /\ results \subseteq Awaited

\* Both say the same, in a state and in the next.
LEMMA InvDef == Inv <=> Parts
BY DEF Inv, Parts, TypeOK, OwnJob, Waiting, Elements, NoneTwice

LEMMA InvNext == Inv' <=> Parts'
BY InvDef, PTL

\* The invariant holds initially.
LEMMA InitInv == Init => Inv
<1> SUFFICES ASSUME Init PROVE Inv
  OBVIOUS
<1>1. Elements(backlog) = {} /\ NoneTwice(backlog) /\ backlog \in Seq(Calls)
  BY DEF Init, Elements, NoneTwice
<1>2. IsFiniteSet(running) /\ Cardinality(running) = 0
  BY FS_EmptySet DEF Init
<1>3. Cardinality(running) <= Threads
  BY <1>2, DispatchAssumption
<1>4. QED
  BY <1>1, <1>2, <1>3, DispatchAssumption, InvDef DEF Parts, Init, Kinds, Awaited

\* A call begins: only its caller awaits it, and only the queue may have it.
LEMMA CallStep ==
    ASSUME Inv, NEW c \in Callers, NEW k \in Kinds, Call(c, k)
    PROVE  Inv'
<1> DEFINE j == CHOOSE i \in Calls : Unused(i)
<1>1. j \in Calls /\ Unused(j)
  BY DEF Call
<1>2. /\ awaits[c] = None /\ kind[c] = None
      /\ awaits' = [awaits EXCEPT ![c] = j] /\ kind' = [kind EXCEPT ![c] = k]
      /\ backlog' = IF k = "coroutine" THEN backlog ELSE Append(backlog, j)
      /\ UNCHANGED <<withdrawn, running, results>>
  BY InvDef DEF Call, Parts
<1> HIDE DEF j
<1>3. /\ j \notin Awaited /\ j \notin Elements(backlog)
      /\ j \notin running /\ j \notin results /\ j # None /\ k # None
  BY <1>1, DispatchAssumption DEF Unused, Waiting, Elements, Kinds
<1>4. /\ backlog' \in Seq(Calls) /\ NoneTwice(backlog)'
      /\ Elements(backlog)' = IF k = "coroutine" THEN Elements(backlog)
                              ELSE Elements(backlog) \cup {j}
  BY <1>1, <1>2, <1>3, InvDef, Appended DEF Parts
<1>5. /\ awaits' \in [Callers -> Calls \cup {None}]
      /\ kind' \in [Callers -> Kinds \cup {None}]
      /\ awaits'[c] = j /\ kind'[c] = k
      /\ \A d \in Callers \ {c} : awaits'[d] = awaits[d] /\ kind'[d] = kind[d]
  BY <1>1, <1>2, InvDef DEF Parts
<1>6. Awaited' = Awaited \cup {j}
  BY <1>2, <1>3, <1>5 DEF Awaited
<1>7. \A d, e \in Callers : awaits'[d] = awaits'[e] /\ awaits'[d] # None => d = e
  BY <1>3, <1>5, InvDef DEF Awaited, Parts
<1>8. \A d \in Callers : kind'[d] \in {"function", "offload"} =>
        awaits'[d] \in (Elements(backlog)' \ withdrawn) \cup running \cup results
  BY <1>3, <1>4, <1>5, InvDef DEF Parts
<1>9. \A d \in Callers : awaits'[d] = None <=> kind'[d] = None
  BY <1>3, <1>5, InvDef DEF Parts
<1>10. \A d \in Callers : kind'[d] = "coroutine" =>
         awaits'[d] \notin Elements(backlog)' \cup running \cup results
  <2>1. \A d \in Callers \ {c} : kind[d] = "coroutine" => awaits[d] # j
    BY <1>3, InvDef, DispatchAssumption DEF Parts, Awaited
  <2>2. QED
    BY <2>1, <1>3, <1>4, <1>5, InvDef DEF Parts
<1>11. QED
  BY <1>1, <1>2, <1>3, <1>4, <1>5, <1>6, <1>7, <1>8, <1>9, <1>10, InvDef, InvNext DEF Parts

\* A caller goes on: what it awaited is withdrawn, done or given up.
LEMMA FreeStep ==
    ASSUME Inv, NEW c \in Callers, awaits[c] # None, Free(c),
           UNCHANGED <<backlog, running>>,
           withdrawn' \in {withdrawn, withdrawn \cup {awaits[c]}},
           withdrawn' \subseteq Elements(backlog),
           awaits[c] \in Elements(backlog) => awaits[c] \in withdrawn'
    PROVE  Inv'
<1>1. /\ awaits' \in [Callers -> Calls \cup {None}]
      /\ kind' \in [Callers -> Kinds \cup {None}]
      /\ awaits'[c] = None /\ kind'[c] = None
      /\ \A d \in Callers \ {c} : awaits'[d] = awaits[d] /\ kind'[d] = kind[d]
  BY InvDef DEF Free, Parts
<1>2. Awaited' = Awaited \ {awaits[c]}
  BY <1>1, InvDef DEF Awaited, Parts
<1>3. \A d \in Callers \ {c} : awaits[d] # awaits[c]
  BY InvDef DEF Parts
<1>4. results' = results \ {awaits[c]}
  BY DEF Free
<1>5. \A d \in Callers : kind'[d] \in {"function", "offload"} =>
        awaits'[d] \in (Elements(backlog) \ withdrawn') \cup running \cup results'
  BY <1>1, <1>3, <1>4, DispatchAssumption, InvDef DEF Parts
<1>6. \A d, e \in Callers : awaits'[d] = awaits'[e] /\ awaits'[d] # None => d = e
  BY <1>1, InvDef DEF Parts
<1>7. \A d \in Callers : awaits'[d] = None <=> kind'[d] = None
  BY <1>1, InvDef DEF Parts
<1>8. \A d \in Callers : kind'[d] = "coroutine" =>
         awaits'[d] \notin Elements(backlog) \cup running \cup results'
  BY <1>1, <1>4, DispatchAssumption, InvDef DEF Parts
<1>9. /\ Elements(backlog) \ withdrawn' \subseteq Awaited'
      /\ results' \subseteq Awaited' /\ results' \subseteq results
  BY <1>2, <1>4, InvDef DEF Parts
<1>10. QED
  BY <1>1, <1>5, <1>6, <1>7, <1>8, <1>9, InvDef, InvNext DEF Parts

\* A result arrives: its call is in no queue.
LEMMA ReturnStep ==
    ASSUME Inv, NEW c \in Callers, Return(c)
    PROVE  Inv'
<1>1. awaits[c] \notin Elements(backlog)
  BY InvDef DEF Parts, Return
<1>2. awaits[c] # None /\ Free(c) /\ UNCHANGED <<backlog, running, withdrawn>>
  BY DEF Return
<1>3. withdrawn' \subseteq Elements(backlog)
  BY <1>2, InvDef DEF Parts
<1>4. QED
  BY <1>1, <1>2, <1>3, FreeStep

\* A timeout: what it leaves in the queue has been withdrawn.
LEMMA TimeOutStep ==
    ASSUME Inv, NEW c \in Callers, TimeOut(c)
    PROVE  Inv'
<1>1. awaits[c] # None /\ Free(c) /\ UNCHANGED <<backlog, running>>
  BY DEF TimeOut
<1>2. withdrawn' = IF awaits[c] \in Elements(backlog)
                   THEN withdrawn \cup {awaits[c]} ELSE withdrawn
  BY DEF TimeOut, Withdraw, Waiting, Elements
<1>3. /\ withdrawn' \in {withdrawn, withdrawn \cup {awaits[c]}}
      /\ withdrawn' \subseteq Elements(backlog)
      /\ awaits[c] \in Elements(backlog) => awaits[c] \in withdrawn'
  BY <1>2, InvDef DEF Parts
<1>4. QED
  BY <1>1, <1>3, FreeStep

\* A thread takes the first job, or throws it away.
LEMMA TakeStep ==
    ASSUME Inv, Take
    PROVE  /\ Inv'
           /\ \A j \in running' \ running : j \in Awaited
<1> DEFINE j == backlog[1]
<1>1. /\ backlog # << >> /\ backlog \in Seq(Calls) /\ NoneTwice(backlog)
      /\ backlog' = SubSeq(backlog, 1, 0) \o SubSeq(backlog, 2, Len(backlog))
      /\ running' = IF j \in withdrawn THEN running ELSE running \cup {j}
      /\ withdrawn' = withdrawn \ {j}
      /\ Cardinality(running) < Threads
      /\ UNCHANGED <<awaits, kind, results>>
  <2>1. backlog # << >> /\ ThreadFree /\ UNCHANGED <<awaits, kind, results>>
    BY DEF Take
  <2>2. /\ running' = RunUnlessWithdrawn(j) /\ withdrawn' = withdrawn \ {j}
        /\ backlog' = Without(1)
    BY DEF Take, Turn
  <2>3. 1 - 1 = 0 /\ 1 + 1 = 2
    OBVIOUS
  <2>4. Without(1) = SubSeq(backlog, 1, 0) \o SubSeq(backlog, 2, Len(backlog))
    BY <2>3 DEF Without
  <2>5. QED
    BY <2>1, <2>2, <2>4, InvDef DEF ThreadFree, RunUnlessWithdrawn, Parts
<1>2. /\ backlog' \in Seq(Calls) /\ j \in Elements(backlog) /\ NoneTwice(backlog)'
      /\ Elements(backlog)' = Elements(backlog) \ {j}
  <2>1. /\ backlog' \in Seq(Calls) /\ j \in Elements(backlog)
        /\ NoneTwice(backlog')
        /\ Elements(backlog') = Elements(backlog) \ {j}
    BY <1>1, Taken
  <2>2. QED
    BY <2>1 DEF Elements, NoneTwice
<1> HIDE DEF j
<1>3. j \in Calls /\ j \notin running /\ j \notin results
  BY <1>2, <1>1, InvDef DEF Parts, Elements, j
<1>4. /\ IsFiniteSet(running \cup {j})
      /\ Cardinality(running \cup {j}) = Cardinality(running) + 1
      /\ Cardinality(running) \in Nat
  BY <1>3, InvDef, FS_AddElement, FS_CardinalityType DEF Parts
<1>5. IsFiniteSet(running') /\ Cardinality(running') <= Threads
  BY <1>1, <1>4, DispatchAssumption, InvDef DEF Parts
<1>6. \A i \in running' \ running : i \in Awaited
  BY <1>1, <1>2, InvDef DEF Parts
<1>7. \A c \in Callers : kind[c] \in {"function", "offload"} =>
        awaits[c] \in (Elements(backlog)' \ withdrawn') \cup running' \cup results
  BY <1>1, <1>2, InvDef DEF Parts
<1>8. \A c \in Callers : kind[c] = "coroutine" =>
        awaits[c] \notin Elements(backlog)' \cup running' \cup results
  BY <1>1, <1>2, InvDef DEF Parts
<1>9. /\ running' \cap results = {} /\ running' \subseteq Calls
      /\ Elements(backlog)' \cap (running' \cup results) = {}
      /\ withdrawn' \subseteq Elements(backlog)'
      /\ Elements(backlog)' \ withdrawn' \subseteq Awaited
  BY <1>1, <1>2, <1>3, InvDef DEF Parts
<1>10. Awaited' = Awaited
  BY <1>1 DEF Awaited
<1>11. QED
  BY <1>1, <1>2, <1>5, <1>6, <1>7, <1>8, <1>9, <1>10, InvDef, InvNext DEF Parts

\* A job ends: its result goes to its caller, if it still has one.
LEMMA EndStep ==
    ASSUME Inv, NEW j \in Calls, JobEnds(j)
    PROVE  Inv'
<1>1. /\ j \in running /\ running' = running \ {j}
      /\ results' = IF j \in Awaited THEN results \cup {j} ELSE results
      /\ UNCHANGED <<awaits, kind, backlog, withdrawn>>
  BY DEF JobEnds
<1>2. Awaited' = Awaited /\ Elements(backlog)' = Elements(backlog)
      /\ NoneTwice(backlog)' = NoneTwice(backlog)
  BY <1>1 DEF Awaited, Elements, NoneTwice
<1>3. /\ IsFiniteSet(running \ {j}) /\ Cardinality(running) \in Nat
      /\ Cardinality(running \ {j}) = Cardinality(running) - 1
  BY <1>1, InvDef, FS_RemoveElement, FS_CardinalityType DEF Parts
<1>4. IsFiniteSet(running') /\ Cardinality(running') <= Threads
  BY <1>1, <1>3, DispatchAssumption, InvDef DEF Parts
<1>5. \A c \in Callers : awaits[c] = j => j \in Awaited
  BY <1>1, DispatchAssumption DEF Awaited
<1>6. \A c \in Callers : kind[c] \in {"function", "offload"} =>
        awaits[c] \in (Elements(backlog) \ withdrawn) \cup running' \cup results'
  BY <1>1, <1>5, InvDef DEF Parts
<1>7. \A c \in Callers : kind[c] = "coroutine" =>
        awaits[c] \notin Elements(backlog) \cup running' \cup results'
  BY <1>1, InvDef DEF Parts
<1>8. QED
  BY <1>1, <1>2, <1>4, <1>6, <1>7, InvDef, InvNext DEF Parts

\* Every step keeps the invariant and starts no job that nobody awaits.
LEMMA Steps ==
    ASSUME Inv, [Next]_vars
    PROVE  Inv' /\ [\A j \in running' \ running : j \in Awaited]_vars
<1>1. CASE UNCHANGED vars
  <2>1. Parts'
    BY <1>1, InvDef DEF vars, Parts, Elements, NoneTwice, Awaited
  <2>2. QED
    BY <1>1, <2>1, InvNext
<1>2. ASSUME NEW c \in Callers, NEW k \in Kinds, Call(c, k)
      PROVE  Inv' /\ running' = running
  BY <1>2, CallStep DEF Call
<1>3. ASSUME NEW c \in Callers, Return(c) \/ TimeOut(c)
      PROVE  Inv' /\ running' = running
  BY <1>3, ReturnStep, TimeOutStep DEF Return, TimeOut
<1>4. ASSUME NEW j \in Calls, JobEnds(j)
      PROVE  Inv' /\ running' \subseteq running
  BY <1>4, EndStep DEF JobEnds
<1>5. QED
  BY <1>1, <1>2, <1>3, <1>4, TakeStep DEF Next

\* Types, with at most as many jobs running as there are threads.
THEOREM TypeCorrect == Spec => []TypeOK
<1>1. Inv => TypeOK
  BY DEF Inv
<1>2. QED
  BY <1>1, InitInv, Steps, PTL DEF Spec

\* What is awaited is in one place, and what is in a place is awaited.
THEOREM OwnJobAlways == Spec => []OwnJob
<1>1. Inv => OwnJob
  BY DEF Inv
<1>2. QED
  BY <1>1, InitInv, Steps, PTL DEF Spec

\* No handler starts after its caller has given it up.
THEOREM NeverLate == Spec => NoLateStart
<1>1. QED
  BY InitInv, Steps, PTL DEF Spec, NoLateStart
=============================================================================
