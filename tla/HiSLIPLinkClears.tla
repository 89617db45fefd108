--------------------------- MODULE HiSLIPLinkClears ---------------------------
(***************************************************************************)
(* What a device clear and an abandoned command leave behind, for every    *)
(* client and every schedule of the three tasks: WholeCommands,            *)
(* OnlyClearedLost, ClearLeavesNothing and MavReported.                    *)
(***************************************************************************)
EXTENDS HiSLIPLinkProofs

USE DEF loopVars, doneVars, clearVars, statusVars, sendVars, recvVars,
        dispVars, asyncVars, histVars, sessionVars, clientVars

-----------------------------------------------------------------------------
(* WholeCommands.  A fragment meets no other command's end: before one     *)
(* comes its own end or the acknowledgement of a clear, and as long as     *)
(* neither is on its way the client can send no other command.             *)

\* The frames that empty the buffer.
Cut(f) == f.kind \in {"dataEnd", "clearAck"}

\* Fragments of command i, seen from position j of the socket, are not taken
\* for another command's ...
Apart(i, j) ==
    \A k \in DOMAIN toSync : k > j /\ toSync[k].kind = "dataEnd" =>
        \/ toSync[k].id = i
        \/ \E l \in DOMAIN toSync : j < l /\ l < k /\ Cut(toSync[l])

\* ... and will not be, whatever the client sends next.
Settles(i, j) ==
    \/ \E l \in DOMAIN toSync : l > j /\ Cut(toSync[l])
    \/ i = nextId /\ partial
    \/ completeDue
    \/ ~connected

Safe(i, j) == Apart(i, j) /\ Settles(i, j)

WholeInv ==
    /\ \A i \in cmdBuf : Safe(i, 0)
    /\ \A j \in DOMAIN toSync : toSync[j].kind = "data" => Safe(toSync[j].id, j)
    /\ WholeCommands

\* Reading the head of the socket moves every position one down.
LEMMA SafeTail ==
    ASSUME TypeOK, toSync # << >>, toSync' = Tail(toSync),
           UNCHANGED <<nextId, partial, completeDue, connected>>
    PROVE  /\ \A i \in Ids, j \in Nat : Safe(i, j + 1) => Safe(i, j)'
           /\ ~Cut(Head(toSync)) => \A i \in Ids : Safe(i, 0) => Safe(i, 1)
           /\ \A j \in DOMAIN toSync' :
                 j \in Nat /\ j + 1 \in DOMAIN toSync /\ toSync'[j] = toSync[j + 1]
           /\ 1 \in DOMAIN toSync /\ Head(toSync) = toSync[1]
<1>1. /\ 1 \in DOMAIN toSync /\ Head(toSync) = toSync[1]
      /\ DOMAIN toSync = 1..Len(toSync) /\ Len(toSync) \in Nat
      /\ DOMAIN toSync' = 1..(Len(toSync) - 1)
      /\ \A j \in DOMAIN toSync' :
            j \in Nat /\ j + 1 \in DOMAIN toSync /\ toSync'[j] = toSync[j + 1]
  BY TailElements DEF TypeOK, SessionTypeOK
<1>2. \A l \in DOMAIN toSync, j \in Nat :
         l > j + 1 => l - 1 \in DOMAIN toSync' /\ (l - 1) + 1 = l /\ l - 1 > j
  BY <1>1
<1>3. ASSUME NEW i \in Ids, NEW j \in Nat, Safe(i, j + 1)
      PROVE  Safe(i, j)'
  <2>1. ASSUME NEW k \in DOMAIN toSync', k > j, toSync'[k].kind = "dataEnd"
        PROVE  \/ toSync'[k].id = i
               \/ \E l \in DOMAIN toSync' : j < l /\ l < k /\ Cut(toSync'[l])
    <3>1. k + 1 \in DOMAIN toSync /\ k + 1 > j + 1 /\ toSync'[k] = toSync[k + 1]
      BY <1>1, <2>1
    <3>2. CASE toSync[k + 1].id = i
      BY <3>1, <3>2
    <3>3. CASE \E l \in DOMAIN toSync : j + 1 < l /\ l < k + 1 /\ Cut(toSync[l])
      <4>1. PICK l \in DOMAIN toSync : j + 1 < l /\ l < k + 1 /\ Cut(toSync[l])
        BY <3>3
      <4>2. l - 1 \in DOMAIN toSync' /\ (l - 1) + 1 = l /\ l - 1 > j
        BY <1>1, <1>2, <4>1
      <4>3. j < l - 1 /\ l - 1 < k
        BY <1>1, <2>1, <4>1
      <4>4. Cut(toSync'[l - 1])
        BY <1>1, <4>1, <4>2
      <4> QED BY <4>2, <4>3, <4>4
    <3> QED BY <1>3, <2>1, <3>1, <3>2, <3>3 DEF Safe, Apart
  <2>2. Apart(i, j)'
    BY <2>1 DEF Apart, Cut
  <2>3. ASSUME NEW l \in DOMAIN toSync, l > j + 1, Cut(toSync[l])
        PROVE  \E m \in DOMAIN toSync' : m > j /\ Cut(toSync'[m])
    BY <1>1, <1>2, <2>3
  <2>4. Settles(i, j)'
    BY <1>3, <2>3 DEF Safe, Settles, Cut
  <2> QED BY <2>2, <2>4 DEF Safe
<1>4. ASSUME ~Cut(Head(toSync)), NEW i \in Ids, Safe(i, 0) PROVE Safe(i, 1)
  <2>1. \A l \in DOMAIN toSync : Cut(toSync[l]) => l > 1
    BY <1>1, <1>4
  <2>2. \A l \in DOMAIN toSync : l > 1 => l > 0
    BY <1>1
  <2> QED BY <1>4, <2>1, <2>2 DEF Safe, Apart, Settles
<1> QED BY <1>1, <1>3, <1>4

\* What is said of the frames of the socket survives reading one of them ...
LEMMA FragmentsTail ==
    ASSUME TypeOK, WholeInv, toSync # << >>, toSync' = Tail(toSync),
           UNCHANGED <<nextId, partial, completeDue, connected>>
    PROVE  \A j \in DOMAIN toSync' :
              toSync'[j].kind = "data" => Safe(toSync[j].id, j)'
<1> SUFFICES ASSUME NEW j \in DOMAIN toSync', toSync'[j].kind = "data"
             PROVE  Safe(toSync[j].id, j)'
  OBVIOUS
<1>1. j \in Nat /\ j + 1 \in DOMAIN toSync /\ toSync'[j] = toSync[j + 1]
  BY SafeTail
<1>2. toSync[j + 1].id \in Ids
  BY <1>1, NumbersTyped DEF Numbered
<1>3. PICK i \in Ids : i = toSync[j + 1].id
  BY <1>2
<1>4. Safe(i, j + 1)
  BY <1>1, <1>3 DEF WholeInv
<1>5. Safe(i, j)'
  BY <1>1, <1>4, SafeTail
<1> QED BY <1>1, <1>3, <1>5 DEF Safe, Apart, Settles

\* ... and so does what is said of the buffer, if the frame keeps it.
LEMMA BufferTail ==
    ASSUME TypeOK, WholeInv, toSync # << >>, toSync' = Tail(toSync),
           ~Cut(Head(toSync)),
           UNCHANGED <<nextId, partial, completeDue, connected>>
    PROVE  \A i \in cmdBuf : Safe(i, 0)'
<1>1. \A i \in cmdBuf : i \in Ids /\ Safe(i, 0)
  BY DEF WholeInv, TypeOK, SessionTypeOK
<1>2. ASSUME NEW i \in cmdBuf PROVE Safe(i, 0)'
  <2>1. i \in Ids /\ Safe(i, 1)
    BY <1>1, SafeTail
  <2>2. 0 \in Nat /\ 0 + 1 = 1
    OBVIOUS
  <2> QED BY <2>1, <2>2, SafeTail
<1> QED BY <1>2

\* A command's text is fixed while it is new.
LEMMA WholeKept ==
    ASSUME WholeCommands, UNCHANGED body,
           \A i \in Ids : fate'[i] # "new" => fate[i] # "new"
    PROVE  WholeCommands'
  BY DEF WholeCommands

\* The end of a command finds at most its own fragments in the buffer.
LEMMA OwnFragments ==
    ASSUME TypeOK, WholeInv, Receive("dataEnd"), TakeBuffer(Head(toSync).id),
           NEW f, fate' = [fate EXCEPT ![Head(toSync).id] = f]
    PROVE  WholeCommands'
<1>1. /\ 1 \in DOMAIN toSync /\ Head(toSync) = toSync[1]
      /\ toSync[1].kind = "dataEnd" /\ DOMAIN toSync \subseteq Nat \ {0}
  <2>1. toSync # << >> /\ Head(toSync).kind = "dataEnd"
    BY DEF Receive
  <2>2. 1 \in DOMAIN toSync /\ Head(toSync) = toSync[1]
        /\ DOMAIN toSync = 1..Len(toSync)
    BY <2>1, TailElements DEF TypeOK, SessionTypeOK
  <2> QED BY <2>1, <2>2
<1>2. PICK i \in Ids : i = toSync[1].id
  BY <1>1, NumbersTyped DEF Numbered
<1>3. \A b \in cmdBuf : b = i
  <2> SUFFICES ASSUME NEW b \in cmdBuf PROVE b = i
    OBVIOUS
  <2>1. Apart(b, 0)
    BY DEF WholeInv, Safe
  <2>2. ~\E l \in DOMAIN toSync : 0 < l /\ l < 1
    BY <1>1
  <2>3. 1 > 0
    OBVIOUS
  <2> QED BY <1>1, <1>2, <2>1, <2>2, <2>3 DEF Apart
<1>4. cmdBuf \cup {i} = {i}
  BY <1>3
<1>5. /\ fate \in [Ids -> Fates] /\ body \in [Ids -> SUBSET Ids]
      /\ fate' = [fate EXCEPT ![i] = f] /\ body' = [body EXCEPT ![i] = {i}]
  BY <1>1, <1>2, <1>4 DEF TypeOK, SessionTypeOK, TakeBuffer
<1>6. ASSUME NEW m \in Ids, fate'[m] # "new" PROVE body'[m] = {m}
  <2>1. CASE m = i
    BY <1>5, <2>1
  <2>2. CASE m # i
    BY <1>5, <1>6, <2>2 DEF WholeInv, WholeCommands
  <2> QED BY <2>1, <2>2
<1> QED BY <1>6 DEF WholeCommands

\* Every step of the receive loop keeps the fragments apart.
LEMMA ReceiveWhole ==
    TypeOK /\ OrderInv /\ WholeInv /\ ReceiveNext /\ UNCHANGED clientVars
    => WholeInv'
<1> SUFFICES ASSUME TypeOK, OrderInv, WholeInv, ReceiveNext,
                    UNCHANGED clientVars
             PROVE  WholeInv'
  OBVIOUS
<1> USE DEF recvFrame
<1>w. WholeCommands
  BY DEF WholeInv
<1>1. CASE RecvData
  <2>1. /\ toSync # << >> /\ toSync' = Tail(toSync) /\ ~Cut(Head(toSync))
        /\ Head(toSync).kind = "data"
        /\ cmdBuf' = cmdBuf \cup {Head(toSync).id}
        /\ UNCHANGED <<connected, fate, body>>
    BY <1>1 DEF RecvData, Receive, Cut
  <2>2. \A j \in DOMAIN toSync' :
           toSync'[j].kind = "data" => Safe(toSync[j].id, j)'
    BY <2>1, FragmentsTail
  <2>3. \A i \in cmdBuf : Safe(i, 0)'
    BY <2>1, BufferTail
  <2>4. 1 \in DOMAIN toSync /\ Head(toSync) = toSync[1]
    BY <2>1, SafeTail
  <2>5. PICK i \in Ids : i = toSync[1].id
    BY <2>1, <2>4, NumbersTyped DEF Numbered
  <2>6. Safe(i, 1) /\ 0 \in Nat /\ 0 + 1 = 1
    BY <2>1, <2>4, <2>5 DEF WholeInv
  <2>7. Safe(i, 0)'
    BY <2>1, <2>6, SafeTail
  <2>8. WholeCommands'
    BY <1>w, <2>1 DEF WholeCommands
  <2>9. \A b \in cmdBuf' : Safe(b, 0)'
    BY <2>1, <2>3, <2>4, <2>5, <2>7
  <2> QED BY <2>2, <2>8, <2>9 DEF WholeInv
<1>2. CASE RecvCommand \/ RecvOverflow
  <2>1. /\ Receive("dataEnd") /\ TakeBuffer(Head(toSync).id)
        /\ toSync # << >> /\ toSync' = Tail(toSync) /\ UNCHANGED connected
    BY <1>2 DEF RecvCommand, RecvOverflow, Receive
  <2>2. \A j \in DOMAIN toSync' :
           toSync'[j].kind = "data" => Safe(toSync[j].id, j)'
    BY <2>1, FragmentsTail
  <2>3. PICK f : fate' = [fate EXCEPT ![Head(toSync).id] = f]
    BY <1>2 DEF RecvCommand, RecvOverflow
  <2>4. WholeCommands'
    BY <2>1, <2>3, OwnFragments
  <2>5. cmdBuf' = {}
    BY <2>1 DEF TakeBuffer
  <2> QED BY <2>2, <2>4, <2>5 DEF WholeInv
<1>3. CASE RecvTrigger \/ RecvOther
  <2>1. /\ toSync # << >> /\ toSync' = Tail(toSync) /\ ~Cut(Head(toSync))
        /\ UNCHANGED <<connected, fate, body, cmdBuf>>
    BY <1>3 DEF RecvTrigger, RecvOther, Receive, Cut
  <2>2. \A j \in DOMAIN toSync' :
           toSync'[j].kind = "data" => Safe(toSync[j].id, j)'
    BY <2>1, FragmentsTail
  <2>3. \A i \in cmdBuf : Safe(i, 0)'
    BY <2>1, BufferTail
  <2>4. WholeCommands'
    BY <1>w, <2>1 DEF WholeCommands
  <2> QED BY <2>1, <2>2, <2>3, <2>4 DEF WholeInv
<1>4. CASE RecvClearAck
  <2>1. /\ toSync # << >> /\ toSync' = Tail(toSync) /\ cmdBuf' = {}
        /\ DrainQueue /\ UNCHANGED <<connected, body>>
    BY <1>4 DEF RecvClearAck, Receive, ClearBuffer
  <2>2. \A j \in DOMAIN toSync' :
           toSync'[j].kind = "data" => Safe(toSync[j].id, j)'
    BY <2>1, FragmentsTail
  <2>3. \A i \in Ids : fate'[i] # "new" => fate[i] # "new"
    BY <2>1 DEF DrainQueue, OrderInv, FateAgrees
  <2>4. WholeCommands'
    BY <1>w, <2>1, <2>3, WholeKept
  <2> QED BY <2>1, <2>2, <2>4 DEF WholeInv
<1>5. CASE \/ RecvWake \/ RecvSent \/ RecvClsDone \/ RecvClsSent \/ RecvStop
           \/ RunClose
  <2>1. /\ UNCHANGED <<toSync, cmdBuf, fate, body>>
        /\ connected' = connected \/ ~connected'
    BY <1>5 DEF RecvWake, RecvSent, RecvClsDone, RecvClsSent, RecvStop, RunClose
  <2> QED BY <2>1 DEF WholeInv, WholeCommands, Safe, Apart, Settles
<1> QED BY <1>1, <1>2, <1>3, <1>4, <1>5 DEF ReceiveNext

\* Every step of the dispatch loop keeps the fragments apart.
LEMMA DispatchWhole ==
    TypeOK /\ OrderInv /\ WholeInv /\ DispatchNext /\ UNCHANGED clientVars
    => WholeInv'
<1> SUFFICES ASSUME TypeOK, OrderInv, WholeInv, DispatchNext,
                    UNCHANGED clientVars
             PROVE  WholeInv'
  OBVIOUS
<1> USE DEF dispFrame
<1>1. UNCHANGED <<toSync, cmdBuf, body, connected>>
  BY DEF DispatchNext, DispRun, DispSkip, DispStop, DispFinish, DispReplied
<1>t. fate \in [Ids -> Fates]
  BY DEF TypeOK, SessionTypeOK
<1>2. \A i \in Ids : fate'[i] # "new" => fate[i] # "new"
  <2>1. CASE DispRun \/ DispSkip
    <3>1. PICK f : fate' = [fate EXCEPT ![Head(queue)] = f]
      BY <2>1 DEF DispRun, DispSkip
    <3>2. queue # << >> /\ Take
      BY <2>1 DEF DispRun, DispSkip
    <3>3. fate[Head(queue)] = "queued"
      BY <3>2, TakeElements DEF OrderInv, FateAgrees
    <3> QED BY <1>t, <3>1, <3>3
  <2>2. CASE DispStop
    BY <2>2 DEF DispStop
  <2>3. CASE DispReplied \/ \E outcome \in Outcomes : DispFinish(outcome)
    <3>1. dispPc \in {"run", "send"}
      BY <2>3 DEF DispReplied, DispFinish
    <3>2. fate[cur] = "running"
      BY <3>1 DEF OrderInv, FateAgrees
    <3>3. UNCHANGED fate \/ \E f : fate' = [fate EXCEPT ![cur] = f]
      BY <2>3, OutcomesAssumption DEF DispReplied, DispFinish
    <3> QED BY <1>t, <3>2, <3>3
  <2> QED BY <2>1, <2>2, <2>3 DEF DispatchNext
<1>3. WholeCommands'
  BY <1>1, <1>2, WholeKept DEF WholeInv
<1> QED BY <1>1, <1>3 DEF WholeInv, Safe, Apart, Settles

\* What the client sends next joins the fragments it sent last, or comes
\* after a frame that empties the buffer.
LEMMA PutWhole ==
    ASSUME TypeOK, WholeInv, NEW kind \in SyncIn \ {"clearAck"}, MaySend,
           Put(kind), kind # "dataEnd" => ~partial,
           kind = "data" => partial' /\ UNCHANGED nextId,
           UNCHANGED <<cmdBuf, body, fate, completeDue, connected>>
    PROVE  WholeInv'
<1>1. PICK f \in InFrames :
         f.id = nextId /\ f.kind = kind /\ toSync' = Append(toSync, f)
  <2>1. nextId \in Ids
    BY SessionAssumption DEF TypeOK, ClientTypeOK, MaySend, Ids
  <2>2. Frame(kind, nextId) \in InFrames
    BY <2>1 DEF Frame, InFrames
  <2> QED BY <2>2 DEF Put, Frame
<1>2. PICK n \in Nat \ {0} :
         /\ DOMAIN toSync = 1..(n - 1) /\ DOMAIN toSync' = 1..n
         /\ toSync'[n] = f
         /\ \A k \in DOMAIN toSync : toSync'[k] = toSync[k]
  <2>1. /\ Len(toSync) \in Nat /\ DOMAIN toSync = 1..Len(toSync)
        /\ DOMAIN toSync' = 1..(Len(toSync) + 1)
        /\ toSync'[Len(toSync) + 1] = f
        /\ \A k \in DOMAIN toSync : toSync'[k] = toSync[k]
    BY <1>1, AppendElements DEF TypeOK, SessionTypeOK
  <2>2. Len(toSync) + 1 \in Nat \ {0} /\ (Len(toSync) + 1) - 1 = Len(toSync)
    BY <2>1
  <2> QED BY <2>1, <2>2
<1>3. \A k \in DOMAIN toSync' : k \in DOMAIN toSync \/ k = n
  BY <1>2
<1>n. DOMAIN toSync \subseteq DOMAIN toSync' /\ n \in DOMAIN toSync'
      /\ \A k \in DOMAIN toSync : k < n
  BY <1>2
<1>4. ASSUME NEW i \in Ids, NEW j \in Nat, j < n, Safe(i, j) PROVE Safe(i, j)'
  <2>1. CASE \E l \in DOMAIN toSync : l > j /\ Cut(toSync[l])
    <3>1. PICK l \in DOMAIN toSync : l > j /\ Cut(toSync[l])
      BY <2>1
    <3>2. l \in DOMAIN toSync' /\ toSync'[l] = toSync[l] /\ l < n
      BY <1>2, <1>n
    <3>3. j < l
      BY <1>2, <3>1
    <3>4. ASSUME NEW k \in DOMAIN toSync', k > j, toSync'[k].kind = "dataEnd"
          PROVE  \/ toSync'[k].id = i
                 \/ \E m \in DOMAIN toSync' : j < m /\ m < k /\ Cut(toSync'[m])
      <4>1. CASE k = n
        BY <3>1, <3>2, <3>3, <4>1
      <4>2. CASE k \in DOMAIN toSync
        BY <1>2, <1>4, <1>n, <3>4, <4>2 DEF Safe, Apart
      <4> QED BY <1>3, <4>1, <4>2
    <3> QED BY <3>1, <3>2, <3>4 DEF Safe, Apart, Settles, Cut
  <2>2. CASE i = nextId /\ partial
    <3>1. kind = "dataEnd" /\ Cut(f)
      BY <1>1, <2>2 DEF Cut
    <3>2. ASSUME NEW k \in DOMAIN toSync', k > j, toSync'[k].kind = "dataEnd"
          PROVE  \/ toSync'[k].id = i
                 \/ \E m \in DOMAIN toSync' : j < m /\ m < k /\ Cut(toSync'[m])
      <4>1. CASE k = n
        BY <1>1, <1>2, <2>2, <4>1
      <4>2. CASE k \in DOMAIN toSync
        BY <1>2, <1>4, <1>n, <3>2, <4>2 DEF Safe, Apart
      <4> QED BY <1>3, <4>1, <4>2
    <3>3. n \in DOMAIN toSync' /\ n > j /\ Cut(toSync'[n])
      BY <1>2, <1>4, <1>n, <3>1
    <3> QED BY <3>2, <3>3 DEF Safe, Apart, Settles, Cut
  <2> QED BY <1>4, <2>1, <2>2 DEF Safe, Settles, MaySend
<1>5. \A i \in cmdBuf' : Safe(i, 0)'
  <2> SUFFICES ASSUME NEW i \in cmdBuf PROVE Safe(i, 0)'
    OBVIOUS
  <2>1. i \in Ids /\ Safe(i, 0) /\ 0 \in Nat /\ 0 < n
    BY <1>2 DEF WholeInv, TypeOK, SessionTypeOK
  <2> QED BY <1>4, <2>1
<1>6. ASSUME NEW j \in DOMAIN toSync', toSync'[j].kind = "data"
      PROVE  Safe(toSync[j].id, j)'
  <2>1. CASE j \in DOMAIN toSync
    <3>1. toSync[j].kind = "data" /\ toSync'[j] = toSync[j]
      BY <1>2, <1>6, <2>1
    <3>2. PICK i \in Ids : i = toSync[j].id
      BY <2>1, <3>1, NumbersTyped DEF Numbered
    <3>3. Safe(i, j) /\ j \in Nat /\ j < n
      BY <1>2, <1>n, <2>1, <3>1, <3>2 DEF WholeInv
    <3>4. Safe(i, j)'
      BY <1>4, <3>3
    <3> QED BY <3>1, <3>2, <3>4 DEF Safe, Apart, Settles
  <2>2. CASE j = n
    <3>1. toSync'[j].id = nextId' /\ partial'
      BY <1>1, <1>2, <1>6, <2>2
    <3>2. \A k \in DOMAIN toSync' : ~(k > j)
      BY <1>2, <2>2
    <3> QED BY <3>1, <3>2 DEF Safe, Apart, Settles
  <2> QED BY <1>3, <2>1, <2>2
<1>7. WholeCommands'
  BY DEF WholeInv, WholeCommands
<1> QED BY <1>5, <1>6, <1>7 DEF WholeInv

\* DEVICE_CLEAR_ACK cuts off whatever came before it.
LEMMA AckWhole ==
    ASSUME TypeOK, WholeInv, toSync' = Append(toSync, Frame("clearAck", NoId)),
           UNCHANGED <<cmdBuf, body, fate>>
    PROVE  WholeInv'
<1>1. PICK f \in InFrames :
         f.kind = "clearAck" /\ toSync' = Append(toSync, f)
  <2>1. Frame("clearAck", NoId) \in InFrames /\
        Frame("clearAck", NoId).kind = "clearAck"
    BY DEF InFrames, Frame
  <2> QED BY <2>1
<1>2. PICK n \in Nat \ {0} :
         /\ DOMAIN toSync = 1..(n - 1) /\ DOMAIN toSync' = 1..n
         /\ toSync'[n] = f
         /\ \A k \in DOMAIN toSync : toSync'[k] = toSync[k]
  <2>1. /\ Len(toSync) \in Nat /\ DOMAIN toSync = 1..Len(toSync)
        /\ DOMAIN toSync' = 1..(Len(toSync) + 1)
        /\ toSync'[Len(toSync) + 1] = f
        /\ \A k \in DOMAIN toSync : toSync'[k] = toSync[k]
    BY <1>1, AppendElements DEF TypeOK, SessionTypeOK
  <2>2. Len(toSync) + 1 \in Nat \ {0} /\ (Len(toSync) + 1) - 1 = Len(toSync)
    BY <2>1
  <2> QED BY <2>1, <2>2
<1>3. /\ DOMAIN toSync \subseteq DOMAIN toSync' /\ n \in DOMAIN toSync'
      /\ Cut(toSync'[n])
      /\ \A k \in DOMAIN toSync : k < n
  BY <1>1, <1>2 DEF Cut
<1>4. \A k \in DOMAIN toSync' : toSync'[k].kind \in {"data", "dataEnd"} =>
         k \in DOMAIN toSync /\ toSync'[k] = toSync[k]
  <2>1. \A k \in DOMAIN toSync' : k \in DOMAIN toSync \/ k = n
    BY <1>2
  <2> QED BY <1>1, <1>2, <2>1
<1>5. ASSUME NEW i, NEW j \in Nat, j < n, Safe(i, j) PROVE Safe(i, j)'
  <2>1. Settles(i, j)'
    BY <1>3, <1>5 DEF Settles, Cut
  <2>2. Apart(i, j)'
    BY <1>2, <1>3, <1>4, <1>5 DEF Safe, Apart, Cut
  <2> QED BY <2>1, <2>2 DEF Safe
<1>6. \A i \in cmdBuf' : Safe(i, 0)'
  <2>1. 0 \in Nat /\ 0 < n
    BY <1>2
  <2> QED BY <1>5, <2>1 DEF WholeInv
<1>7. ASSUME NEW j \in DOMAIN toSync', toSync'[j].kind = "data"
      PROVE  Safe(toSync[j].id, j)'
  <2>1. j \in DOMAIN toSync /\ toSync'[j] = toSync[j] /\ j \in Nat /\ j < n
    BY <1>2, <1>3, <1>4, <1>7
  <2>2. PICK i : i = toSync[j].id
    OBVIOUS
  <2>3. Safe(i, j)
    BY <1>7, <2>1, <2>2 DEF WholeInv
  <2>4. Safe(i, j)'
    BY <1>5, <2>1, <2>3
  <2> QED BY <2>1, <2>2, <2>4 DEF Safe, Apart, Settles
<1>8. WholeCommands'
  BY DEF WholeInv, WholeCommands
<1> QED BY <1>6, <1>7, <1>8 DEF WholeInv

\* Every step of the client keeps the fragments apart.
LEMMA ClientWhole ==
    TypeOK /\ WholeInv /\ ClientNext => WholeInv'
<1> SUFFICES ASSUME TypeOK, WholeInv, ClientNext PROVE WholeInv'
  OBVIOUS
<1> USE DEF clientRest
<1>1. CASE \/ ClientFragment \/ ClientCommand
           \/ \E kind \in {"trigger", "other", "bad"} : ClientMessage(kind)
  <2>1. PICK kind \in SyncIn \ {"clearAck"} :
           /\ Put(kind)
           /\ kind # "dataEnd" => ~partial
           /\ kind = "data" => partial' /\ UNCHANGED nextId
    BY <1>1 DEF ClientFragment, ClientCommand, ClientMessage, SyncIn
  <2>2. MaySend /\ UNCHANGED <<cmdBuf, body, fate, completeDue, connected>>
    BY <1>1 DEF ClientFragment, ClientCommand, ClientMessage
  <2> QED BY <2>1, <2>2, PutWhole
<1>2. CASE ClientRead
  <2>1. UNCHANGED <<cmdBuf, body, fate, nextId, partial, connected>>
    BY <1>2 DEF ClientRead
  <2>2. CASE Head(outSync).kind = "complete"
    BY <1>2, <2>1, <2>2, AckWhole DEF ClientRead
  <2>3. CASE UNCHANGED <<toSync, completeDue>>
    BY <2>1, <2>3 DEF WholeInv, WholeCommands, Safe, Apart, Settles
  <2> QED BY <1>2, <2>2, <2>3 DEF ClientRead
<1>3. CASE ClientClear
  <2>1. /\ UNCHANGED <<toSync, cmdBuf, body, fate, connected>>
        /\ completeDue' = connected /\ connected \in BOOLEAN
    BY <1>3 DEF ClientClear, TypeOK, SessionTypeOK
  <2>2. completeDue' \/ ~connected'
    BY <2>1
  <2> QED BY <2>1, <2>2 DEF WholeInv, WholeCommands, Safe, Apart, Settles
<1>4. CASE \/ \E kind \in AsyncKinds : ClientPoll(kind)
           \/ ClientReadAsync \/ ClientLeave \/ ClientLeaveAsync
  <2>1. /\ UNCHANGED <<toSync, cmdBuf, body, fate, nextId, partial, completeDue>>
        /\ connected' = connected \/ ~connected'
    BY <1>4 DEF ClientPoll, ClientReadAsync, ClientLeave, ClientLeaveAsync
  <2> QED BY <2>1 DEF WholeInv, WholeCommands, Safe, Apart, Settles
<1> QED BY <1>1, <1>2, <1>3, <1>4 DEF ClientNext

\* Every step keeps the fragments apart.
LEMMA WholeStep ==
    TypeOK /\ OrderInv /\ WholeInv /\ [Next]_vars => WholeInv'
<1> SUFFICES ASSUME TypeOK, OrderInv, WholeInv, [Next]_vars PROVE WholeInv'
  OBVIOUS
<1>1. CASE (ReceiveNext \/ DispatchNext) /\ UNCHANGED clientVars
  BY <1>1, ReceiveWhole, DispatchWhole
<1>2. CASE (AsyncNext \/ AsyncStart) /\ UNCHANGED clientVars
  <2>1. UNCHANGED <<toSync, cmdBuf, body, fate, connected, nextId, partial,
                    completeDue>>
    BY <1>2 DEF AsyncNext, AsyncStart, AsyncStop, AsyncStatusQuery,
                AsyncRemoteLocal, AsyncOther, AsyncClear, AsyncCompleteSent,
                AsyncAcked, AsyncTimeout, asyncFrame
  <2> QED BY <2>1 DEF WholeInv, WholeCommands, Safe, Apart, Settles
<1>3. CASE ClientNext
  BY <1>3, ClientWhole
<1>4. CASE UNCHANGED vars
  BY <1>4 DEF vars, WholeInv, WholeCommands, Safe, Apart, Settles
<1> QED
  BY <1>1, <1>2, <1>3, <1>4 DEF Next, ServerNext, Connect, Over

\* The text of a command is made of its own fragments, in every mode and
\* whatever clears the client sends in between.
THEOREM WholeAlways == Spec => []WholeCommands
<1>1. Init => WholeInv
  BY DEF Init, SessionInit, WholeInv, WholeCommands
<1>2. WholeInv => WholeCommands
  BY DEF WholeInv
<1> QED BY <1>1, <1>2, WholeStep, OrderAlways, PTL DEF Spec

-----------------------------------------------------------------------------
(* The messages of a device clear: ASYNC_DEVICE_CLEAR on its way in,       *)
(* DEVICE_CLEAR_COMPLETE and ASYNC_DEV_CLEAR_ACK on their way out.  Of     *)
(* each there is at most one.                                              *)

Has(s, V)   == \E k \in DOMAIN s : s[k] \in V
Twice(s, V) == \E j, k \in DOMAIN s : j < k /\ s[j] \in V /\ s[k] \in V

\* What a sequence still has without its head.
LEMMA HasTail ==
    ASSUME NEW S, NEW s \in Seq(S), s # << >>, NEW V
    PROVE  /\ Has(Tail(s), V) => Has(s, V)
           /\ Twice(Tail(s), V) => Twice(s, V)
           /\ Head(s) \in V => Has(s, V)
           /\ Head(s) \in V /\ Has(Tail(s), V) => Twice(s, V)
<1>1. /\ 1 \in DOMAIN s /\ Head(s) = s[1]
      /\ \A k \in DOMAIN Tail(s) :
            k \in Nat \ {0} /\ k + 1 \in DOMAIN s /\ Tail(s)[k] = s[k + 1]
  BY TailElements
<1>2. \A j, k \in DOMAIN Tail(s) : j < k => j + 1 < k + 1
  BY <1>1
<1>3. \A k \in DOMAIN Tail(s) : 1 < k + 1
  BY <1>1
<1>4. Has(Tail(s), V) => Has(s, V)
  BY <1>1 DEF Has
<1>5. Twice(Tail(s), V) => Twice(s, V)
  BY <1>1, <1>2 DEF Twice
<1>6. Head(s) \in V => Has(s, V)
  BY <1>1 DEF Has
<1>7. Head(s) \in V /\ Has(Tail(s), V) => Twice(s, V)
  BY <1>1, <1>3 DEF Has, Twice
<1> QED BY <1>4, <1>5, <1>6, <1>7

\* What a sequence has with one more element.
LEMMA HasAppend ==
    ASSUME NEW S, NEW s \in Seq(S), NEW e \in S, NEW V
    PROVE  /\ Has(Append(s, e), V) => Has(s, V) \/ e \in V
           /\ e \in V => Has(Append(s, e), V)
           /\ Twice(Append(s, e), V) => Twice(s, V) \/ (Has(s, V) /\ e \in V)
<1> DEFINE a == Append(s, e)
           n == Len(s) + 1
<1>1. /\ n \in DOMAIN a /\ a[n] = e
      /\ \A k \in DOMAIN s : a[k] = s[k] /\ k < n
      /\ \A k \in DOMAIN a : k \in DOMAIN s \/ k = n
      /\ n \in Nat
  <2>1. /\ Len(s) \in Nat /\ DOMAIN s = 1..Len(s)
        /\ DOMAIN a = 1..(Len(s) + 1) /\ a[Len(s) + 1] = e
        /\ \A k \in DOMAIN s : a[k] = s[k]
    BY AppendElements
  <2> QED BY <2>1
<1> HIDE DEF a, n
<1>2. Has(a, V) => Has(s, V) \/ e \in V
  BY <1>1 DEF Has
<1>3. e \in V => Has(a, V)
  BY <1>1 DEF Has
<1>4. ASSUME Twice(a, V) PROVE Twice(s, V) \/ (Has(s, V) /\ e \in V)
  <2>1. PICK j \in DOMAIN a, k \in DOMAIN a : j < k /\ a[j] \in V /\ a[k] \in V
    BY <1>4 DEF Twice
  <2>2. j \in DOMAIN s
    <3>1. CASE j = n
      <4>1. k < n \/ k = n
        BY <1>1
      <4> QED BY <1>1, <2>1, <3>1, <4>1
    <3> QED BY <1>1, <3>1
  <2> QED BY <1>1, <2>1, <2>2 DEF Has, Twice
<1> QED BY <1>2, <1>3, <1>4 DEF a

\* What a part of a sequence has, the sequence has.
LEMMA HasWithin ==
    ASSUME NEW s, NEW r, NEW V, Within(s, r)
    PROVE  (Has(s, V) => Has(r, V)) /\ (Twice(s, V) => Twice(r, V))
<1>1. Has(s, V) => Has(r, V)
  BY DEF Has, Within
<1>2. Twice(s, V) => Twice(r, V)
  BY DEF Twice, Within
<1> QED BY <1>1, <1>2

Completes == {f \in OutFrames : f.kind = "complete"}
AckFrames == {f \in AFrames : f.kind = "clearAck"}

SomeClear    == Has(toAsync, {"clear"})
TwoClears    == Twice(toAsync, {"clear"})
SomeComplete == Has(Outgoing, Completes)
TwoCompletes == Twice(Outgoing, Completes)
SomeAck      == Has(outAsync, AckFrames)
TwoAcks      == Twice(outAsync, AckFrames)

NoMoreClears    == (SomeClear' => SomeClear) /\ (TwoClears' => TwoClears)
NoMoreCompletes ==
    (SomeComplete' => SomeComplete) /\ (TwoCompletes' => TwoCompletes)
NoMoreAcks      == (SomeAck' => SomeAck) /\ (TwoAcks' => TwoAcks)

\* A device clear is one token that goes from the client to the session and
\* back: a message on the async socket, then a frame of the sync socket.
TokenInv ==
    connected =>
        /\ SomeClear \/ SomeComplete => completeDue
        /\ ~TwoClears /\ ~TwoCompletes
        /\ ~(SomeClear /\ SomeComplete)

\* A step that sends no ASYNC_DEVICE_CLEAR adds none.
LEMMA ClearsKept ==
    ASSUME TypeOK,
           \/ UNCHANGED toAsync
           \/ toAsync' = << >>
           \/ toAsync # << >> /\ toAsync' = Tail(toAsync)
           \/ \E k \in AsyncIn \ {"clear"} : toAsync' = Append(toAsync, k)
    PROVE  NoMoreClears
<1>t. toAsync \in Seq(AsyncIn)
  BY DEF TypeOK, SessionTypeOK
<1>1. CASE UNCHANGED toAsync
  BY <1>1 DEF NoMoreClears, SomeClear, TwoClears
<1>2. CASE toAsync' = << >>
  BY <1>2 DEF NoMoreClears, SomeClear, TwoClears, Has, Twice
<1>3. CASE toAsync # << >> /\ toAsync' = Tail(toAsync)
  BY <1>t, <1>3, HasTail DEF NoMoreClears, SomeClear, TwoClears
<1>4. ASSUME NEW k \in AsyncIn \ {"clear"}, toAsync' = Append(toAsync, k)
      PROVE  NoMoreClears
  <2>1. k \notin {"clear"}
    BY <1>4
  <2> QED BY <1>t, <1>4, <2>1, HasAppend DEF NoMoreClears, SomeClear, TwoClears
<1> QED BY <1>1, <1>2, <1>3, <1>4

\* A step that sends no DEVICE_CLEAR_COMPLETE adds none.
LEMMA CompletesKept ==
    ASSUME TypeOK,
           \/ UNCHANGED sendVars
           \/ \E t \in Tasks : Drained(t)
           \/ outSync # << >> /\ outSync' = Tail(outSync) /\ UNCHANGED sendQ
           \/ \E t \in Tasks, k \in SyncOut \ {"complete"}, i \in Ids \cup {NoId} :
                 Send(t, Frame(k, i))
    PROVE  NoMoreCompletes
<1>1. CASE \/ UNCHANGED sendVars
           \/ \E t \in Tasks : Drained(t)
           \/ outSync # << >> /\ outSync' = Tail(outSync) /\ UNCHANGED sendQ
  <2>1. Within(Outgoing', Outgoing)
    BY <1>1, OutgoingOfStep
  <2> QED BY <2>1, HasWithin DEF NoMoreCompletes, SomeComplete, TwoCompletes
<1>2. ASSUME NEW t \in Tasks, NEW k \in SyncOut \ {"complete"},
             NEW i \in Ids \cup {NoId}, Send(t, Frame(k, i))
      PROVE  NoMoreCompletes
  <2>1. Frame(k, i) \in OutFrames /\ Frame(k, i) \notin Completes
    BY FrameType DEF Frame, Completes
  <2>2. CASE Outgoing' = Outgoing
    BY <2>2 DEF NoMoreCompletes, SomeComplete, TwoCompletes
  <2>3. CASE Outgoing' = Append(Outgoing, Frame(k, i))
    <3>1. Outgoing \in Seq(OutFrames)
      BY OutgoingType
    <3> QED BY <2>1, <2>3, <3>1, HasAppend
            DEF NoMoreCompletes, SomeComplete, TwoCompletes
  <2> QED BY <1>2, <2>1, <2>2, <2>3, SendOutgoing
<1> QED BY <1>1, <1>2

\* A step that sends no ASYNC_DEV_CLEAR_ACK adds none.
LEMMA AcksKept ==
    ASSUME TypeOK,
           \/ UNCHANGED outAsync
           \/ outAsync' = << >>
           \/ outAsync # << >> /\ outAsync' = Tail(outAsync)
           \/ \E k \in AsyncOut \ {"clearAck"}, b \in BOOLEAN :
                 outAsync' = Append(outAsync, AFrame(k, b))
    PROVE  NoMoreAcks
<1>t. outAsync \in Seq(AFrames)
  BY DEF TypeOK, SessionTypeOK
<1>1. CASE UNCHANGED outAsync
  BY <1>1 DEF NoMoreAcks, SomeAck, TwoAcks
<1>2. CASE outAsync' = << >>
  BY <1>2 DEF NoMoreAcks, SomeAck, TwoAcks, Has, Twice
<1>3. CASE outAsync # << >> /\ outAsync' = Tail(outAsync)
  BY <1>t, <1>3, HasTail DEF NoMoreAcks, SomeAck, TwoAcks
<1>4. ASSUME NEW k \in AsyncOut \ {"clearAck"}, NEW b \in BOOLEAN,
             outAsync' = Append(outAsync, AFrame(k, b))
      PROVE  NoMoreAcks
  <2>1. AFrame(k, b) \in AFrames /\ AFrame(k, b) \notin AckFrames
    BY DEF AFrame, AFrames, AckFrames
  <2> QED BY <1>t, <1>4, <2>1, HasAppend DEF NoMoreAcks, SomeAck, TwoAcks
<1> QED BY <1>1, <1>2, <1>3, <1>4

\* The two loops of the session send no message of a device clear.
LEMMA LoopsSendNoToken ==
    TypeOK /\ (ReceiveNext \/ DispatchNext)
    => NoMoreClears /\ NoMoreCompletes /\ NoMoreAcks
<1> SUFFICES ASSUME TypeOK, ReceiveNext \/ DispatchNext
             PROVE  NoMoreClears /\ NoMoreCompletes /\ NoMoreAcks
  OBVIOUS
<1>1. CASE ReceiveNext
  <2> USE DEF recvFrame
  <2>1. UNCHANGED toAsync /\ UNCHANGED outAsync
    BY <1>1 DEF ReceiveNext, RecvData, RecvCommand, RecvOverflow, RecvWake,
                RecvTrigger, RecvOther, RecvSent, RecvClearAck, RecvClsDone,
                RecvClsSent, RecvStop, RunClose
  <2>2. CASE RecvOverflow \/ RecvTrigger
    <3>1. Head(toSync).id \in Ids
      BY <2>2, ReceiveType DEF RecvOverflow, RecvTrigger, TypeOK, SyncIn
    <3> QED BY <2>1, <2>2, <3>1, ClearsKept, CompletesKept, AcksKept
            DEF RecvOverflow, RecvTrigger, Tasks, SyncOut
  <2>3. CASE RecvOther \/ RecvClsDone
    BY <2>1, <2>3, ClearsKept, CompletesKept, AcksKept
    DEF RecvOther, RecvClsDone, Tasks, SyncOut
  <2>4. CASE ~(RecvOverflow \/ RecvTrigger \/ RecvOther \/ RecvClsDone)
    <3>1. UNCHANGED sendVars \/ Drained("recv")
      BY <1>1, <2>4
      DEF ReceiveNext, RecvData, RecvCommand, RecvWake, RecvSent,
          RecvClearAck, RecvClsSent, RecvStop, RunClose
    <3> QED BY <2>1, <3>1, ClearsKept, CompletesKept, AcksKept DEF Tasks
  <2> QED BY <2>2, <2>3, <2>4
<1>2. CASE DispatchNext
  <2> USE DEF dispFrame
  <2>1. UNCHANGED toAsync
    BY <1>2 DEF DispatchNext, DispRun, DispSkip, DispStop, DispFinish,
                DispReplied
  <2>2. NoMoreAcks
    <3>1. \/ UNCHANGED outAsync
          \/ outAsync' = Append(outAsync, AFrame("srq", TRUE))
      BY <1>2 DEF DispatchNext, DispRun, DispSkip, DispStop, DispFinish,
                  DispReplied, EmitSrq
    <3> QED BY <3>1, AcksKept DEF AsyncOut
  <2>3. NoMoreCompletes
    <3>1. \/ UNCHANGED sendVars
          \/ Drained("disp")
          \/ Send("disp", Frame("reply", cur))
      BY <1>2, OutcomesAssumption
      DEF DispatchNext, DispRun, DispSkip, DispStop, DispFinish, DispReplied
    <3>2. cur \in Ids \cup {NoId}
      BY DEF TypeOK, SessionTypeOK
    <3> QED BY <3>1, <3>2, CompletesKept DEF Tasks, SyncOut
  <2> QED BY <2>1, <2>2, <2>3, ClearsKept
<1> QED BY <1>1, <1>2

\* Of the async channel, only AsyncClear and the end of its wait do.
LEMMA ChannelSendsNoToken ==
    ASSUME TypeOK,
           \/ AsyncStart \/ AsyncStop \/ AsyncOther \/ AsyncCompleteSent
           \/ \E kind \in AsyncIn : AsyncStatusQuery(kind)
                                    \/ AsyncRemoteLocal(kind)
    PROVE  NoMoreClears /\ NoMoreCompletes /\ NoMoreAcks
<1> USE DEF asyncFrame
<1>1. NoMoreClears
  <2>1. \/ UNCHANGED toAsync
        \/ toAsync' = << >>
        \/ toAsync # << >> /\ toAsync' = Tail(toAsync)
    BY DEF AsyncStart, AsyncStop, AsyncOther, AsyncCompleteSent,
           AsyncStatusQuery, AsyncRemoteLocal, AsyncReceive
  <2> QED BY <2>1, ClearsKept
<1>2. NoMoreCompletes
  <2>1. UNCHANGED sendVars \/ Drained("async")
    BY DEF AsyncStart, AsyncStop, AsyncOther, AsyncCompleteSent,
           AsyncStatusQuery, AsyncRemoteLocal
  <2> QED BY <2>1, CompletesKept DEF Tasks
<1>3. NoMoreAcks
  <2>1. CASE AsyncStart \/ AsyncStop \/ AsyncCompleteSent
    <3>1. UNCHANGED outAsync \/ outAsync' = << >>
      BY <2>1 DEF AsyncStart, AsyncStop, AsyncCompleteSent
    <3> QED BY <3>1, AcksKept
  <2>2. CASE AsyncOther \/ \E kind \in AsyncIn : AsyncRemoteLocal(kind)
    <3>1. ASend(AFrame("answer", FALSE))
      BY <2>2 DEF AsyncOther, AsyncRemoteLocal
    <3> QED BY <3>1, AcksKept DEF ASend, AsyncOut
  <2>3. ASSUME NEW kind \in AsyncIn, AsyncStatusQuery(kind) PROVE NoMoreAcks
    <3>1. ASend(AFrame("status", mav)) /\ mav \in BOOLEAN
      BY <2>3 DEF AsyncStatusQuery, StatusByte, TypeOK, SessionTypeOK
    <3> QED BY <3>1, AcksKept DEF ASend, AsyncOut
  <2> QED BY <2>1, <2>2, <2>3
<1> QED BY <1>1, <1>2, <1>3

\* AsyncClear turns the message into DEVICE_CLEAR_COMPLETE, or drops it
\* where the sync socket is closed.
LEMMA ClearTurnsToken ==
    ASSUME TypeOK, AsyncClear
    PROVE  /\ SomeClear
           /\ SomeClear' => TwoClears
           /\ TwoClears' => TwoClears
           /\ TwoCompletes' => TwoCompletes \/ SomeComplete
           /\ ~SyncOpen => NoMoreCompletes
<1>1. /\ toAsync \in Seq(AsyncIn) /\ toAsync # << >>
      /\ Head(toAsync) \in {"clear"} /\ toAsync' = Tail(toAsync)
  BY DEF AsyncClear, AsyncReceive, TypeOK, SessionTypeOK
<1>2. SomeClear /\ (SomeClear' => TwoClears) /\ (TwoClears' => TwoClears)
  BY <1>1, HasTail DEF SomeClear, TwoClears
<1>3. CASE SyncOpen
  <2>1. Send("async", Frame("complete", NoId))
    BY <1>3 DEF AsyncClear
  <2>2. Frame("complete", NoId) \in OutFrames
    BY FrameType DEF SyncOut
  <2>3. \/ Outgoing' = Outgoing
        \/ Outgoing' = Append(Outgoing, Frame("complete", NoId))
    BY <2>1, <2>2, SendOutgoing DEF Tasks
  <2>4. CASE Outgoing' = Outgoing
    BY <1>2, <1>3, <2>4 DEF TwoCompletes
  <2>5. CASE Outgoing' = Append(Outgoing, Frame("complete", NoId))
    <3>1. Outgoing \in Seq(OutFrames)
      BY OutgoingType
    <3> QED BY <1>2, <1>3, <2>2, <2>5, <3>1, HasAppend
            DEF TwoCompletes, SomeComplete
  <2> QED BY <2>3, <2>4, <2>5
<1>4. CASE ~SyncOpen
  <2>1. NoMoreCompletes
    BY <1>4, CompletesKept DEF AsyncClear
  <2> QED BY <1>2, <2>1 DEF NoMoreCompletes
<1> QED BY <1>3, <1>4

\* Answering DEVICE_CLEAR_COMPLETE takes the token off the way.
LEMMA ReadToken ==
    ASSUME TypeOK, ClientRead
    PROVE  /\ NoMoreCompletes
           /\ Head(outSync).kind = "complete" =>
                 SomeComplete /\ (SomeComplete' => TwoCompletes)
<1>1. /\ outSync # << >> /\ outSync' = Tail(outSync) /\ UNCHANGED sendQ
  BY DEF ClientRead, clientRest
<1>2. /\ Outgoing # << >> /\ Head(Outgoing) = Head(outSync)
      /\ Outgoing' = Tail(Outgoing) /\ Outgoing \in Seq(OutFrames)
  BY <1>1, ReadOutgoing, OutgoingType
<1>3. Head(Outgoing) \in OutFrames
  BY <1>2, TailElements
<1>4. NoMoreCompletes
  BY <1>1, CompletesKept
<1>5. ASSUME Head(outSync).kind = "complete"
      PROVE  SomeComplete /\ (SomeComplete' => TwoCompletes)
  <2>1. Head(Outgoing) \in Completes
    BY <1>2, <1>3, <1>5 DEF Completes
  <2> QED BY <1>2, <2>1, HasTail DEF SomeComplete, TwoCompletes
<1> QED BY <1>4, <1>5

\* The token survives a step that adds no message of a device clear.
LEMMA TokenKept ==
    ASSUME TokenInv, NoMoreClears, NoMoreCompletes, connected' => connected,
           UNCHANGED completeDue
    PROVE  TokenInv'
  BY DEF TokenInv, NoMoreClears, NoMoreCompletes

\* What the client sends on the async socket, and what it sends on the sync
\* socket, but for ClientClear.
LEMMA ClientSendsNoToken ==
    ASSUME TypeOK, ClientNext, ~ClientClear, ~ClientRead
    PROVE  NoMoreClears /\ NoMoreCompletes /\ NoMoreAcks
           /\ (connected' => connected) /\ UNCHANGED completeDue
<1> USE DEF clientRest
<1>1. /\ UNCHANGED sendVars /\ UNCHANGED completeDue
      /\ connected' = connected \/ ~connected'
      /\ UNCHANGED outAsync \/ (outAsync # << >> /\ outAsync' = Tail(outAsync))
  BY DEF ClientNext, ClientFragment, ClientCommand, ClientMessage, ClientPoll,
         ClientReadAsync, ClientLeave, ClientLeaveAsync
<1>2. \/ UNCHANGED toAsync
      \/ \E k \in AsyncIn \ {"clear"} : toAsync' = Append(toAsync, k)
  BY ClientAssumption
  DEF ClientNext, ClientFragment, ClientCommand, ClientMessage, ClientPoll,
      ClientReadAsync, ClientLeave, ClientLeaveAsync
<1> QED BY <1>1, <1>2, ClearsKept, CompletesKept, AcksKept

\* Every step keeps the messages of a clear single.
LEMMA TokenStep == TypeOK /\ TokenInv /\ [Next]_vars => TokenInv'
<1> SUFFICES ASSUME TypeOK, TokenInv, [Next]_vars PROVE TokenInv'
  OBVIOUS
<1>1. CASE (ReceiveNext \/ DispatchNext) /\ UNCHANGED clientVars
  <2>1. connected' = connected \/ ~connected'
    BY <1>1 DEF ReceiveNext, RecvData, RecvCommand, RecvOverflow, RecvWake,
                RecvTrigger, RecvOther, RecvSent, RecvClearAck, RecvClsDone,
                RecvClsSent, RecvStop, RunClose, recvFrame,
                DispatchNext, DispRun, DispSkip, DispStop, DispFinish,
                DispReplied, dispFrame
  <2> QED BY <1>1, <2>1, LoopsSendNoToken, TokenKept
<1>2. CASE (AsyncNext \/ AsyncStart) /\ UNCHANGED clientVars
  <2>0. UNCHANGED connected
    BY <1>2 DEF AsyncNext, AsyncStart, AsyncStop, AsyncStatusQuery,
                AsyncRemoteLocal, AsyncOther, AsyncClear, AsyncCompleteSent,
                AsyncAcked, AsyncTimeout, asyncFrame
  <2>1. CASE AsyncClear
    BY <1>2, <2>0, <2>1, ClearTurnsToken DEF TokenInv
  <2>2. CASE AsyncAcked \/ AsyncTimeout
    <3>1. NoMoreClears /\ NoMoreCompletes
      BY <2>2, ClearsKept, CompletesKept DEF AsyncAcked, AsyncTimeout
    <3> QED BY <1>2, <2>0, <3>1, TokenKept
  <2>3. CASE ~AsyncClear /\ ~AsyncAcked /\ ~AsyncTimeout
    BY <1>2, <2>0, <2>3, ChannelSendsNoToken, TokenKept DEF AsyncNext
  <2> QED BY <2>1, <2>2, <2>3
<1>3. CASE ClientRead
  <2>1. NoMoreClears /\ UNCHANGED connected
    BY <1>3, ClearsKept DEF ClientRead
  <2> QED BY <1>3, <2>1, ReadToken
          DEF ClientRead, TokenInv, NoMoreClears, NoMoreCompletes
<1>4. CASE ClientClear
  <2>1. /\ toAsync' = Append(toAsync, "clear") /\ toAsync \in Seq(AsyncIn)
        /\ "clear" \in AsyncIn
    BY <1>4 DEF ClientClear, TypeOK, SessionTypeOK, AsyncIn
  <2>2. TwoClears' => TwoClears \/ SomeClear
    BY <2>1, HasAppend DEF TwoClears, SomeClear
  <2>3. NoMoreCompletes
    BY <1>4, CompletesKept DEF ClientClear, clientRest
  <2> QED BY <1>4, <2>2, <2>3 DEF ClientClear, TokenInv, NoMoreCompletes
<1>5. CASE ClientNext /\ ~ClientClear /\ ~ClientRead
  BY <1>5, ClientSendsNoToken, TokenKept
<1>6. CASE UNCHANGED vars
  <2>1. NoMoreClears /\ NoMoreCompletes
    BY <1>6, ClearsKept, CompletesKept DEF vars
  <2> QED BY <1>6, <2>1, TokenKept DEF vars
<1> QED
  BY <1>1, <1>2, <1>3, <1>4, <1>5, <1>6 DEF Next, ServerNext, Connect, Over

\* No clear is under way initially.
LEMMA TokenInit == Init => TokenInv /\ ~SomeAck /\ ~SomeClear /\ ~SomeComplete
<1> SUFFICES ASSUME Init
             PROVE  TokenInv /\ ~SomeAck /\ ~SomeClear /\ ~SomeComplete
  OBVIOUS
<1>1. toAsync = << >> /\ outAsync = << >> /\ outSync = << >> /\ sendQ = << >>
  BY DEF Init, SessionInit
<1>2. DOMAIN Outgoing = {}
  BY <1>1, NothingSent
<1>3. ~SomeClear /\ ~TwoClears /\ ~SomeAck
  BY <1>1 DEF SomeClear, TwoClears, SomeAck, Has, Twice
<1>4. ~SomeComplete /\ ~TwoCompletes
  BY <1>2 DEF SomeComplete, TwoCompletes, Has, Twice
<1> QED BY <1>3, <1>4 DEF TokenInv

-----------------------------------------------------------------------------
(* OnlyClearedLost.  While the session drops commands, all it can get hold *)
(* of was sent before the clear, for what comes after is behind the        *)
(* client's DEVICE_CLEAR_ACK.                                              *)

IsAck(f) == f.kind = "clearAck"

\* Until the client has answered a clear it sends nothing.
Marked ==
    /\ clearFrom < nextId
    /\ completeDue \/ SomeClear => clearFrom = nextId - 1 /\ ~partial

\* The queue, and what the socket holds before an acknowledgement.
AckBounds ==
    \A k \in DOMAIN toSync : IsAck(toSync[k]) =>
        /\ \A j \in DOMAIN queue : queue[j] <= clearFrom
        /\ \A j \in DOMAIN toSync : j < k => toSync[j].id <= clearFrom

PendingBounds ==
    clearPending =>
        /\ \A j \in DOMAIN queue : queue[j] <= clearFrom
        /\ \A k \in DOMAIN toSync :
              toSync[k].kind = "dataEnd" /\ toSync[k].id > clearFrom =>
                  \E l \in DOMAIN toSync : l < k /\ IsAck(toSync[l])
        /\ connected =>
              completeDue \/ \E l \in DOMAIN toSync : IsAck(toSync[l])

LostInv == Marked /\ AckBounds /\ PendingBounds /\ OnlyClearedLost

Lost(i) == fate[i] \in {"skipped", "flushed"}

\* It survives a step that neither moves commands nor starts a clear.
LEMMA LostSame ==
    ASSUME TypeOK, LostInv,
           UNCHANGED <<toSync, queue, nextId, partial, clearFrom, completeDue>>,
           SomeClear' => SomeClear, clearPending' => clearPending,
           connected' => connected, \A i \in Ids : Lost(i)' => Lost(i)
    PROVE  LostInv'
<1>1. Marked'
  BY DEF LostInv, Marked
<1>2. AckBounds' /\ PendingBounds'
  BY DEF LostInv, AckBounds, PendingBounds, IsAck
<1>3. OnlyClearedLost'
  BY DEF LostInv, OnlyClearedLost, Lost
<1> QED BY <1>1, <1>2, <1>3 DEF LostInv

\* Reading a frame that is no acknowledgement keeps what is said of the
\* socket.
LEMMA SocketBoundsTail ==
    ASSUME TypeOK, toSync # << >>, toSync' = Tail(toSync),
           ~IsAck(Head(toSync))
    PROVE  /\ 1 \in DOMAIN toSync /\ Head(toSync) = toSync[1]
           /\ \A k \in DOMAIN toSync' :
                 k \in Nat \ {0} /\ k + 1 \in DOMAIN toSync
                 /\ toSync'[k] = toSync[k + 1]
           /\ \A k \in DOMAIN toSync' :
                 (\E l \in DOMAIN toSync : l < k + 1 /\ IsAck(toSync[l]))
                 => \E l \in DOMAIN toSync' : l < k /\ IsAck(toSync'[l])
           /\ (\E l \in DOMAIN toSync : IsAck(toSync[l]))
              => \E l \in DOMAIN toSync' : IsAck(toSync'[l])
<1>1. /\ 1 \in DOMAIN toSync /\ Head(toSync) = toSync[1]
      /\ Len(toSync) \in Nat /\ DOMAIN toSync = 1..Len(toSync)
      /\ DOMAIN toSync' = 1..(Len(toSync) - 1)
      /\ \A k \in DOMAIN toSync' :
            k \in Nat \ {0} /\ k + 1 \in DOMAIN toSync
            /\ toSync'[k] = toSync[k + 1]
  BY TailElements DEF TypeOK, SessionTypeOK
<1>2. ASSUME NEW l \in DOMAIN toSync, IsAck(toSync[l])
      PROVE  /\ l - 1 \in DOMAIN toSync' /\ IsAck(toSync'[l - 1])
             /\ l \in Nat
  <2>1. l # 1
    BY <1>1, <1>2
  <2>2. l - 1 \in DOMAIN toSync' /\ (l - 1) + 1 = l /\ l \in Nat
    BY <1>1, <2>1
  <2> QED BY <1>1, <1>2, <2>2
<1>3. ASSUME NEW k \in DOMAIN toSync', NEW l \in DOMAIN toSync,
             l < k + 1, IsAck(toSync[l])
      PROVE  \E m \in DOMAIN toSync' : m < k /\ IsAck(toSync'[m])
  <2>1. l - 1 \in DOMAIN toSync' /\ IsAck(toSync'[l - 1]) /\ l \in Nat
    BY <1>2, <1>3
  <2>2. l - 1 < k
    BY <1>1, <1>3, <2>1
  <2> QED BY <2>1, <2>2
<1> QED BY <1>1, <1>2, <1>3

\* A message that is no acknowledgement is read.
LEMMA LostTail ==
    ASSUME TypeOK, LostInv, toSync # << >>, toSync' = Tail(toSync),
           ~IsAck(Head(toSync)),
           \A j \in DOMAIN queue' :
              \/ j \in DOMAIN queue /\ queue'[j] = queue[j]
              \/ queue'[j] = Head(toSync).id /\ Head(toSync).kind = "dataEnd",
           UNCHANGED <<nextId, partial, clearFrom, completeDue, clearPending>>,
           SomeClear' => SomeClear, connected' => connected,
           \A i \in Ids : Lost(i)' => Lost(i)
    PROVE  LostInv'
<1>1. /\ 1 \in DOMAIN toSync /\ Head(toSync) = toSync[1]
      /\ \A k \in DOMAIN toSync' :
            k \in Nat \ {0} /\ k + 1 \in DOMAIN toSync
            /\ toSync'[k] = toSync[k + 1]
      /\ \A k \in DOMAIN toSync' :
            (\E l \in DOMAIN toSync : l < k + 1 /\ IsAck(toSync[l]))
            => \E l \in DOMAIN toSync' : l < k /\ IsAck(toSync'[l])
      /\ (\E l \in DOMAIN toSync : IsAck(toSync[l]))
         => \E l \in DOMAIN toSync' : IsAck(toSync'[l])
  BY SocketBoundsTail
<1>t. DOMAIN toSync \subseteq Nat \ {0} /\ clearFrom \in Nat
      /\ \A k \in DOMAIN toSync : toSync[k].id \in Nat
  <2>1. DOMAIN toSync \subseteq Nat \ {0}
    BY LenProperties DEF TypeOK, SessionTypeOK
  <2> QED BY <2>1, NumbersTyped, SessionAssumption DEF TypeOK, ClientTypeOK
<1>2. Marked'
  BY DEF LostInv, Marked
<1>3. AckBounds'
  <2> SUFFICES ASSUME NEW k \in DOMAIN toSync', IsAck(toSync'[k])
               PROVE  /\ \A j \in DOMAIN queue' : queue'[j] <= clearFrom
                      /\ \A j \in DOMAIN toSync' :
                            j < k => toSync'[j].id <= clearFrom
    BY DEF AckBounds, IsAck
  <2>1. /\ k + 1 \in DOMAIN toSync /\ IsAck(toSync[k + 1]) /\ k \in Nat \ {0}
        /\ 1 < k + 1
    BY <1>1
  <2>2. /\ \A j \in DOMAIN queue : queue[j] <= clearFrom
        /\ \A j \in DOMAIN toSync : j < k + 1 => toSync[j].id <= clearFrom
    BY <2>1 DEF LostInv, AckBounds
  <2>3. \A j \in DOMAIN queue' : queue'[j] <= clearFrom
    BY <1>1, <2>1, <2>2
  <2>4. ASSUME NEW j \in DOMAIN toSync', j < k PROVE toSync'[j].id <= clearFrom
    <3>1. j + 1 < k + 1 /\ j + 1 \in DOMAIN toSync
      BY <1>1, <2>1, <2>4
    <3> QED BY <1>1, <2>2, <3>1
  <2> QED BY <2>3, <2>4
<1>4. PendingBounds'
  <2> SUFFICES ASSUME clearPending
               PROVE  /\ \A j \in DOMAIN queue' : queue'[j] <= clearFrom
                      /\ \A k \in DOMAIN toSync' :
                            toSync'[k].kind = "dataEnd"
                            /\ toSync'[k].id > clearFrom =>
                               \E l \in DOMAIN toSync' :
                                  l < k /\ IsAck(toSync'[l])
                      /\ connected' =>
                            completeDue \/
                            \E l \in DOMAIN toSync' : IsAck(toSync'[l])
    BY DEF PendingBounds, IsAck
  <2>1. ASSUME Head(toSync).kind = "dataEnd" PROVE Head(toSync).id <= clearFrom
    <3>1. ~\E l \in DOMAIN toSync : l < 1
      BY <1>t
    <3>2. ~(toSync[1].id > clearFrom)
      BY <1>1, <2>1, <3>1 DEF LostInv, PendingBounds
    <3> QED BY <1>1, <1>t, <3>2
  <2>2. \A j \in DOMAIN queue' : queue'[j] <= clearFrom
    BY <2>1 DEF LostInv, PendingBounds
  <2>3. ASSUME NEW k \in DOMAIN toSync', toSync'[k].kind = "dataEnd",
               toSync'[k].id > clearFrom
        PROVE  \E l \in DOMAIN toSync' : l < k /\ IsAck(toSync'[l])
    <3>1. \E l \in DOMAIN toSync : l < k + 1 /\ IsAck(toSync[l])
      BY <1>1, <2>3 DEF LostInv, PendingBounds
    <3> QED BY <1>1, <3>1
  <2>4. connected' => completeDue \/
           \E l \in DOMAIN toSync' : IsAck(toSync'[l])
    BY <1>1 DEF LostInv, PendingBounds
  <2> QED BY <2>2, <2>3, <2>4
<1>5. OnlyClearedLost'
  BY DEF LostInv, OnlyClearedLost, Lost
<1> QED BY <1>2, <1>3, <1>4, <1>5 DEF LostInv

\* Every step of the receive loop keeps LostInv.
LEMMA ReceiveLost ==
    TypeOK /\ OrderInv /\ LostInv /\ ReceiveNext /\ UNCHANGED clientVars
    => LostInv'
<1> SUFFICES ASSUME TypeOK, OrderInv, LostInv, ReceiveNext,
                    UNCHANGED clientVars
             PROVE  LostInv'
  OBVIOUS
<1> USE DEF recvFrame
<1>c. SomeClear' => SomeClear
  BY LoopsSendNoToken DEF NoMoreClears
<1>t. fate \in [Ids -> Fates]
  BY DEF TypeOK, SessionTypeOK
<1>1. CASE RecvData \/ RecvTrigger \/ RecvOther
  <2>1. /\ toSync # << >> /\ toSync' = Tail(toSync) /\ ~IsAck(Head(toSync))
        /\ UNCHANGED <<queue, fate, clearPending, connected>>
    BY <1>1 DEF RecvData, RecvTrigger, RecvOther, Receive, IsAck
  <2> QED BY <1>c, <2>1, LostTail DEF Lost
<1>2. CASE RecvCommand \/ RecvOverflow
  <2>1. /\ toSync # << >> /\ toSync' = Tail(toSync)
        /\ Head(toSync).kind = "dataEnd" /\ ~IsAck(Head(toSync))
        /\ UNCHANGED <<clearPending, connected>>
    BY <1>2 DEF RecvCommand, RecvOverflow, Receive, IsAck
  <2>2. Head(toSync).id \in Ids
    BY <1>2, ReceiveType DEF RecvCommand, RecvOverflow, TypeOK, SyncIn
  <2>3. \A j \in DOMAIN queue' :
           \/ j \in DOMAIN queue /\ queue'[j] = queue[j]
           \/ queue'[j] = Head(toSync).id
    <3>1. UNCHANGED queue \/ queue' = Append(queue, Head(toSync).id)
      BY <1>2 DEF RecvCommand, RecvOverflow
    <3>2. queue \in Seq(Ids)
      BY DEF TypeOK, SessionTypeOK
    <3>3. CASE queue' = Append(queue, Head(toSync).id)
      <4>1. PICK i \in Ids : i = Head(toSync).id
        BY <2>2
      <4>2. /\ \A k \in DOMAIN queue : Append(queue, i)[k] = queue[k]
            /\ Append(queue, i)[Len(queue) + 1] = i
            /\ \A k \in DOMAIN Append(queue, i) :
                  k \in DOMAIN queue \/ k = Len(queue) + 1
        BY <3>2, AppendElements
      <4> QED BY <3>3, <4>1, <4>2
    <3> QED BY <3>1, <3>3
  <2>4. \A i \in Ids : Lost(i)' => Lost(i)
    BY <1>2, <1>t DEF RecvCommand, RecvOverflow, Lost
  <2> QED BY <1>c, <2>1, <2>3, <2>4, LostTail
<1>3. CASE RecvClearAck
  <2>1. /\ toSync # << >> /\ toSync' = Tail(toSync) /\ IsAck(Head(toSync))
        /\ queue' = << >> /\ DrainQueue /\ clearPending' = FALSE
    BY <1>3 DEF RecvClearAck, Receive, EndPending, DrainQueue, IsAck
  <2>2. /\ 1 \in DOMAIN toSync /\ Head(toSync) = toSync[1]
        /\ \A k \in DOMAIN toSync' :
              k \in Nat \ {0} /\ k + 1 \in DOMAIN toSync
              /\ toSync'[k] = toSync[k + 1]
    BY <2>1, TailElements DEF TypeOK, SessionTypeOK
  <2>3. \A j \in DOMAIN queue : queue[j] <= clearFrom
    BY <2>1, <2>2 DEF LostInv, AckBounds
  <2>4. Marked'
    BY <1>c DEF LostInv, Marked
  <2>5. AckBounds'
    <3> SUFFICES ASSUME NEW k \in DOMAIN toSync', IsAck(toSync'[k]),
                        NEW j \in DOMAIN toSync', j < k
                 PROVE  toSync'[j].id <= clearFrom
      BY <2>1 DEF AckBounds, IsAck
    <3>1. j + 1 < k + 1
      BY <2>2
    <3> QED BY <2>2, <3>1 DEF LostInv, AckBounds
  <2>6. PendingBounds'
    BY <2>1 DEF PendingBounds
  <2>7. OnlyClearedLost'
    BY <2>1, <2>3 DEF DrainQueue, LostInv, OnlyClearedLost
  <2> QED BY <2>4, <2>5, <2>6, <2>7 DEF LostInv
<1>4. CASE \/ RecvWake \/ RecvSent \/ RecvClsDone \/ RecvClsSent \/ RecvStop
           \/ RunClose
  <2>1. /\ UNCHANGED <<toSync, queue, fate, clearPending>>
        /\ connected' = connected \/ ~connected'
    BY <1>4 DEF RecvWake, RecvSent, RecvClsDone, RecvClsSent, RecvStop, RunClose
  <2> QED BY <1>c, <2>1, LostSame DEF Lost
<1> QED BY <1>1, <1>2, <1>3, <1>4 DEF ReceiveNext

\* Every step of the dispatch loop keeps LostInv.
LEMMA DispatchLost ==
    TypeOK /\ OrderInv /\ LostInv /\ DispatchNext /\ UNCHANGED clientVars
    => LostInv'
<1> SUFFICES ASSUME TypeOK, OrderInv, LostInv, DispatchNext,
                    UNCHANGED clientVars
             PROVE  LostInv'
  OBVIOUS
<1> USE DEF dispFrame
<1>c. (SomeClear' => SomeClear) /\ UNCHANGED <<toSync, connected, clearPending>>
  BY LoopsSendNoToken
  DEF NoMoreClears, DispatchNext, DispRun, DispSkip, DispStop, DispFinish,
      DispReplied
<1>t. fate \in [Ids -> Fates]
  BY DEF TypeOK, SessionTypeOK
<1>1. CASE DispRun \/ DispSkip
  <2>1. /\ queue # << >> /\ Take
        /\ \/ clearPending /\ fate' = [fate EXCEPT ![Head(queue)] = "skipped"]
           \/ fate' = [fate EXCEPT ![Head(queue)] = "running"]
    BY <1>1 DEF DispRun, DispSkip
  <2>2. /\ 1 \in DOMAIN queue /\ Head(queue) = queue[1] /\ Head(queue) \in Ids
        /\ \A k \in DOMAIN queue' :
              k + 1 \in DOMAIN queue /\ queue'[k] = queue[k + 1]
    BY <2>1, TakeElements
  <2>3. Marked' /\ AckBounds' /\ PendingBounds'
    <3>1. Marked'
      BY <1>c DEF LostInv, Marked
    <3>2. AckBounds'
      BY <1>c, <2>2 DEF LostInv, AckBounds, IsAck
    <3>3. PendingBounds'
      BY <1>c, <2>2 DEF LostInv, PendingBounds, IsAck
    <3> QED BY <3>1, <3>2, <3>3
  <2>4. clearPending => Head(queue) <= clearFrom
    BY <2>2 DEF LostInv, PendingBounds
  <2>5. OnlyClearedLost'
    BY <1>t, <2>1, <2>2, <2>4 DEF LostInv, OnlyClearedLost
  <2> QED BY <2>3, <2>5 DEF LostInv
<1>2. CASE DispStop \/ DispReplied \/ \E o \in Outcomes : DispFinish(o)
  <2>1. UNCHANGED queue
    BY <1>2 DEF DispStop, DispReplied, DispFinish
  <2>2. \A i \in Ids : Lost(i)' => Lost(i)
    BY <1>t, <1>2, OutcomesAssumption DEF DispStop, DispReplied, DispFinish, Lost
  <2> QED BY <1>c, <2>1, <2>2, LostSame
<1> QED BY <1>1, <1>2 DEF DispatchNext

\* Every step of the channel keeps LostInv.
LEMMA AsyncLost ==
    TypeOK /\ OrderInv /\ TokenInv /\ LostInv /\ (AsyncNext \/ AsyncStart)
    /\ UNCHANGED clientVars => LostInv'
<1> SUFFICES ASSUME TypeOK, OrderInv, TokenInv, LostInv,
                    AsyncNext \/ AsyncStart, UNCHANGED clientVars
             PROVE  LostInv'
  OBVIOUS
<1>u. UNCHANGED <<toSync, queue, fate, connected>>
  BY DEF AsyncNext, AsyncStart, AsyncStop, AsyncStatusQuery, AsyncRemoteLocal,
         AsyncOther, AsyncClear, AsyncCompleteSent, AsyncAcked, AsyncTimeout,
         asyncFrame
<1>1. CASE AsyncClear
  <2>1. SomeClear /\ (SomeClear' => SomeClear)
    BY <1>1, ClearTurnsToken, HasTail
    DEF AsyncClear, AsyncReceive, TypeOK, SessionTypeOK, SomeClear
  <2>2. clearFrom = nextId - 1 /\ ~partial /\ nextId \in Nat
    BY <2>1, NumbersTyped DEF LostInv, Marked
  <2>3. \A j \in DOMAIN queue : queue[j] <= clearFrom
    BY <2>2, NumbersTyped DEF OrderInv, QueueOrder
  <2>4. \A k \in DOMAIN toSync :
           ~(toSync[k].kind = "dataEnd" /\ toSync[k].id > clearFrom)
    BY <2>2, NumbersTyped DEF OrderInv, SocketOrder, Numbered
  <2>5. connected => completeDue
    BY <2>1 DEF TokenInv
  <2>6. Marked' /\ AckBounds' /\ OnlyClearedLost'
    <3>1. Marked'
      BY <2>1 DEF LostInv, Marked
    <3>2. AckBounds' /\ OnlyClearedLost'
      BY <1>u DEF LostInv, AckBounds, OnlyClearedLost, IsAck
    <3> QED BY <3>1, <3>2
  <2>7. PendingBounds'
    BY <1>u, <2>3, <2>4, <2>5 DEF PendingBounds, IsAck
  <2> QED BY <2>6, <2>7 DEF LostInv
<1>2. CASE ~AsyncClear
  <2>1. clearPending' = clearPending \/ ~clearPending'
    BY <1>2 DEF AsyncNext, AsyncStart, AsyncStop, AsyncStatusQuery,
                AsyncRemoteLocal, AsyncOther, AsyncCompleteSent, AsyncAcked,
                AsyncTimeout
  <2>2. SomeClear' => SomeClear
    <3>1. CASE AsyncAcked \/ AsyncTimeout
      BY <3>1, ClearsKept DEF AsyncAcked, AsyncTimeout, NoMoreClears
    <3>2. CASE ~(AsyncAcked \/ AsyncTimeout)
      BY <1>2, <3>2, ChannelSendsNoToken DEF AsyncNext, NoMoreClears
    <3> QED BY <3>1, <3>2
  <2> QED BY <1>u, <2>1, <2>2, LostSame DEF Lost
<1> QED BY <1>1, <1>2

\* What the client sends next is newer than its last clear, and where a
\* clear is pending its acknowledgement goes first.
LEMMA PutLost ==
    ASSUME TypeOK, TokenInv, LostInv, NEW kind \in SyncIn \ {"clearAck"},
           MaySend, Put(kind), nextId' \in {nextId, nextId + 1},
           UNCHANGED <<queue, fate, clearFrom, completeDue, clearPending,
                       connected, toAsync>>
    PROVE  LostInv'
<1>1. PICK f \in InFrames :
         f.id = nextId /\ ~IsAck(f) /\ toSync' = Append(toSync, f)
  <2>1. nextId \in Ids
    BY SessionAssumption DEF TypeOK, ClientTypeOK, MaySend, Ids
  <2>2. Frame(kind, nextId) \in InFrames /\ ~IsAck(Frame(kind, nextId))
    BY <2>1 DEF Frame, InFrames, IsAck
  <2> QED BY <2>2 DEF Put, Frame
<1>2. /\ \A k \in DOMAIN toSync : k \in DOMAIN toSync' /\ toSync'[k] = toSync[k]
      /\ \A k \in DOMAIN toSync' : k \in DOMAIN toSync \/
            (toSync'[k] = f /\ \A j \in DOMAIN toSync : j < k)
      /\ \A j, k \in DOMAIN toSync' :
            k \in DOMAIN toSync /\ j < k => j \in DOMAIN toSync
  <2>1. /\ Len(toSync) \in Nat /\ DOMAIN toSync = 1..Len(toSync)
        /\ DOMAIN toSync' = 1..(Len(toSync) + 1)
        /\ toSync'[Len(toSync) + 1] = f
        /\ \A k \in DOMAIN toSync : toSync'[k] = toSync[k]
        /\ \A k \in DOMAIN toSync' : k \in DOMAIN toSync \/
              (k = Len(toSync) + 1 /\ \A j \in DOMAIN toSync : j < k)
    BY <1>1, AppendElements DEF TypeOK, SessionTypeOK
  <2>2. \A j, k \in DOMAIN toSync' :
           k \in DOMAIN toSync /\ j < k => j \in DOMAIN toSync
    BY <2>1
  <2> QED BY <2>1, <2>2
<1>3. Marked'
  <2>1. ~SomeClear /\ ~SomeClear' /\ ~completeDue'
    BY DEF TokenInv, MaySend, SomeClear
  <2>2. clearFrom \in Nat /\ nextId \in Nat /\ clearFrom < nextId
    BY NumbersTyped, SessionAssumption
    DEF TypeOK, ClientTypeOK, LostInv, Marked
  <2>3. clearFrom' < nextId'
    BY <2>2
  <2> QED BY <2>1, <2>3 DEF Marked
<1>4. AckBounds'
  <2> SUFFICES ASSUME NEW k \in DOMAIN toSync', IsAck(toSync'[k])
               PROVE  /\ \A j \in DOMAIN queue : queue[j] <= clearFrom
                      /\ \A j \in DOMAIN toSync' :
                            j < k => toSync'[j].id <= clearFrom
    BY DEF AckBounds, IsAck
  <2>1. k \in DOMAIN toSync /\ IsAck(toSync[k])
    BY <1>1, <1>2
  <2> QED BY <1>2, <2>1 DEF LostInv, AckBounds
<1>5. PendingBounds'
  <2> SUFFICES ASSUME clearPending
               PROVE  /\ \A j \in DOMAIN queue : queue[j] <= clearFrom
                      /\ \A k \in DOMAIN toSync' :
                            toSync'[k].kind = "dataEnd"
                            /\ toSync'[k].id > clearFrom =>
                               \E l \in DOMAIN toSync' :
                                  l < k /\ IsAck(toSync'[l])
                      /\ connected =>
                            completeDue \/
                            \E l \in DOMAIN toSync' : IsAck(toSync'[l])
    BY DEF PendingBounds, IsAck
  <2>1. PICK l \in DOMAIN toSync : IsAck(toSync[l])
    BY DEF LostInv, PendingBounds, MaySend
  <2>2. l \in DOMAIN toSync' /\ IsAck(toSync'[l])
    BY <1>2, <2>1
  <2>3. ASSUME NEW k \in DOMAIN toSync', toSync'[k].kind = "dataEnd",
               toSync'[k].id > clearFrom
        PROVE  \E m \in DOMAIN toSync' : m < k /\ IsAck(toSync'[m])
    <3>1. CASE k \in DOMAIN toSync
      <4>1. PICK m \in DOMAIN toSync : m < k /\ IsAck(toSync[m])
        BY <1>2, <2>3, <3>1 DEF LostInv, PendingBounds
      <4> QED BY <1>2, <4>1
    <3>2. CASE \A j \in DOMAIN toSync : j < k
      BY <2>1, <2>2, <3>2
    <3> QED BY <1>2, <3>1, <3>2
  <2> QED BY <2>2, <2>3 DEF LostInv, PendingBounds
<1>6. OnlyClearedLost'
  BY DEF LostInv, OnlyClearedLost
<1> QED BY <1>3, <1>4, <1>5, <1>6 DEF LostInv

\* The acknowledgement comes after all that was sent before the clear.
LEMMA AckLost ==
    ASSUME TypeOK, OrderInv, TokenInv, LostInv, ClientRead,
           Head(outSync).kind = "complete"
    PROVE  LostInv'
<1>1. PICK f \in InFrames :
         IsAck(f) /\ toSync' = Append(toSync, f)
  <2>1. Frame("clearAck", NoId) \in InFrames /\ IsAck(Frame("clearAck", NoId))
    BY DEF Frame, InFrames, IsAck
  <2> QED BY <2>1 DEF ClientRead
<1>2. /\ \A k \in DOMAIN toSync : k \in DOMAIN toSync' /\ toSync'[k] = toSync[k]
      /\ \A k \in DOMAIN toSync' : k \in DOMAIN toSync \/
            (toSync'[k] = f /\ \A j \in DOMAIN toSync : j < k)
      /\ \A j, k \in DOMAIN toSync' : j < k => j \in DOMAIN toSync
      /\ \E k \in DOMAIN toSync' : toSync'[k] = f
  <2>1. /\ Len(toSync) \in Nat /\ DOMAIN toSync = 1..Len(toSync)
        /\ DOMAIN toSync' = 1..(Len(toSync) + 1)
        /\ toSync'[Len(toSync) + 1] = f
        /\ \A k \in DOMAIN toSync : toSync'[k] = toSync[k]
        /\ \A k \in DOMAIN toSync' : k \in DOMAIN toSync \/
              (k = Len(toSync) + 1 /\ \A j \in DOMAIN toSync : j < k)
    BY <1>1, AppendElements DEF TypeOK, SessionTypeOK
  <2>2. \A j, k \in DOMAIN toSync' : j < k => j \in DOMAIN toSync
    BY <2>1
  <2>3. Len(toSync) + 1 \in DOMAIN toSync'
    BY <2>1
  <2> QED BY <2>1, <2>2, <2>3
<1>3. /\ connected /\ SomeComplete /\ ~completeDue'
      /\ UNCHANGED <<queue, fate, nextId, partial, clearFrom, clearPending,
                     connected, toAsync>>
  BY ReadToken DEF ClientRead, clientRest
<1>4. clearFrom = nextId - 1 /\ ~partial /\ nextId \in Nat
  BY <1>3, NumbersTyped DEF TokenInv, LostInv, Marked
<1>5. Marked'
  BY <1>3 DEF LostInv, Marked, SomeClear
<1>6. \A j \in DOMAIN queue : queue[j] <= clearFrom
  BY <1>4, NumbersTyped DEF OrderInv, QueueOrder
<1>7. \A k \in DOMAIN toSync : toSync[k].id <= clearFrom
  <2> SUFFICES ASSUME NEW k \in DOMAIN toSync PROVE toSync[k].id <= clearFrom
    OBVIOUS
  <2>1. CASE Numbered(toSync[k])
    BY <1>4, <2>1, NumbersTyped DEF OrderInv, SocketOrder
  <2>2. CASE ~Numbered(toSync[k])
    <3>1. toSync[k] \in InFrames
      BY ElementOfSeq, LenProperties DEF TypeOK, SessionTypeOK
    <3>2. toSync[k].id = 0 /\ clearFrom \in Nat
      BY <2>2, <3>1, SessionAssumption
      DEF Numbered, InFrames, Frame, NoId, TypeOK, ClientTypeOK
    <3> QED BY <3>2
  <2> QED BY <2>1, <2>2
<1>8. AckBounds'
  <2> SUFFICES ASSUME NEW k \in DOMAIN toSync', NEW j \in DOMAIN toSync', j < k
               PROVE  toSync'[j].id <= clearFrom
    BY <1>3, <1>6 DEF AckBounds
  <2> QED BY <1>2, <1>7
<1>9. PendingBounds'
  <2>1. \A k \in DOMAIN toSync' : IsAck(toSync'[k]) \/ k \in DOMAIN toSync
    BY <1>1, <1>2
  <2>2. ASSUME NEW k \in DOMAIN toSync', toSync'[k].kind = "dataEnd",
               toSync'[k].id > clearFrom, clearPending
        PROVE  \E m \in DOMAIN toSync' : m < k /\ IsAck(toSync'[m])
    <3>1. k \in DOMAIN toSync
      BY <2>1, <2>2 DEF IsAck
    <3>2. PICK m \in DOMAIN toSync : m < k /\ IsAck(toSync[m])
      BY <1>2, <2>2, <3>1 DEF LostInv, PendingBounds
    <3> QED BY <1>2, <3>2
  <2>3. \E l \in DOMAIN toSync' : IsAck(toSync'[l])
    BY <1>1, <1>2
  <2> QED BY <1>3, <1>6, <2>2, <2>3 DEF PendingBounds, IsAck
<1>10. OnlyClearedLost'
  BY <1>3 DEF LostInv, OnlyClearedLost
<1> QED BY <1>5, <1>8, <1>9, <1>10 DEF LostInv

\* A new clear moves the mark up.
LEMMA ClearLost ==
    ASSUME TypeOK, OrderInv, LostInv, ClientClear
    PROVE  LostInv'
<1>1. /\ nextId' \in {nextId, nextId + 1} /\ clearFrom' = nextId' - 1
      /\ partial' = FALSE /\ completeDue' = connected
      /\ UNCHANGED <<toSync, queue, fate, clearPending, connected>>
  BY NumbersTyped DEF ClientClear, clientRest
<1>2. /\ nextId \in Nat /\ clearFrom \in Nat /\ clearFrom < nextId
      /\ \A k \in DOMAIN toSync : toSync[k].id \in Nat
      /\ \A j \in DOMAIN queue : queue[j] \in Nat
  BY NumbersTyped, SessionAssumption DEF TypeOK, ClientTypeOK, LostInv, Marked
<1>3. clearFrom' < nextId' /\ clearFrom <= clearFrom' /\ clearFrom' \in Nat
  <2>1. PICK n \in Nat : n = nextId' /\ clearFrom < n
    BY <1>1, <1>2
  <2>2. PICK c \in Nat : c = clearFrom /\ c < n
    BY <1>2, <2>1
  <2>3. n - 1 \in Nat /\ n - 1 < n /\ c <= n - 1
    BY <2>2
  <2> QED BY <1>1, <2>1, <2>2, <2>3
<1>4. Marked'
  BY <1>1, <1>3 DEF Marked
<1>5. \A n \in Nat : n <= clearFrom => n <= clearFrom'
  BY <1>2, <1>3
<1>6. \A n \in Nat : n > clearFrom' => n > clearFrom
  BY <1>2, <1>3
<1>7. AckBounds'
  BY <1>1, <1>2, <1>5 DEF LostInv, AckBounds, IsAck
<1>8. PendingBounds'
  <2>1. connected \in BOOLEAN
    BY DEF TypeOK, SessionTypeOK
  <2> QED BY <1>1, <1>2, <1>5, <1>6, <2>1 DEF LostInv, PendingBounds, IsAck
<1>9. OnlyClearedLost'
  BY <1>1, <1>5, NumbersTyped DEF LostInv, OnlyClearedLost
<1> QED BY <1>4, <1>7, <1>8, <1>9 DEF LostInv

\* Every step of the client keeps LostInv.
LEMMA ClientLost ==
    TypeOK /\ OrderInv /\ TokenInv /\ LostInv /\ ClientNext => LostInv'
<1> SUFFICES ASSUME TypeOK, OrderInv, TokenInv, LostInv, ClientNext
             PROVE  LostInv'
  OBVIOUS
<1> USE DEF clientRest
<1>1. CASE \/ ClientFragment \/ ClientCommand
           \/ \E kind \in {"trigger", "other", "bad"} : ClientMessage(kind)
  <2>1. PICK kind \in SyncIn \ {"clearAck"} : Put(kind)
    BY <1>1 DEF ClientFragment, ClientCommand, ClientMessage, SyncIn
  <2>2. /\ MaySend /\ nextId' \in {nextId, nextId + 1}
        /\ UNCHANGED <<queue, fate, clearFrom, completeDue, clearPending,
                       connected, toAsync>>
    BY <1>1 DEF ClientFragment, ClientCommand, ClientMessage
  <2> QED BY <2>1, <2>2, PutLost
<1>2. CASE ClientRead
  <2>1. CASE Head(outSync).kind # "complete"
    BY <1>2, <2>1, LostSame DEF ClientRead, Lost, SomeClear
  <2> QED BY <1>2, <2>1, AckLost
<1>3. CASE \/ \E kind \in AsyncKinds : ClientPoll(kind)
           \/ ClientReadAsync \/ ClientLeave \/ ClientLeaveAsync
  <2>1. (~ClientClear /\ ~ClientRead) \/ ClientClear \/ ClientRead
    OBVIOUS
  <2>2. CASE ~ClientClear /\ ~ClientRead
    <3>1. UNCHANGED <<toSync, queue, nextId, partial, clearFrom, completeDue,
                      clearPending, fate>>
      BY <1>3 DEF ClientPoll, ClientReadAsync, ClientLeave, ClientLeaveAsync
    <3> QED BY <2>2, <3>1, ClientSendsNoToken, LostSame
            DEF NoMoreClears, Lost
  <2> QED BY <1>2, <2>1, <2>2, ClearLost
<1> QED BY <1>1, <1>2, <1>3, ClearLost DEF ClientNext

\* Every step keeps LostInv.
LEMMA LostStep ==
    TypeOK /\ OrderInv /\ TokenInv /\ LostInv /\ [Next]_vars => LostInv'
<1> SUFFICES ASSUME TypeOK, OrderInv, TokenInv, LostInv, [Next]_vars
             PROVE  LostInv'
  OBVIOUS
<1>1. CASE ServerNext
  BY <1>1, ReceiveLost, DispatchLost, AsyncLost DEF ServerNext
<1>2. CASE Connect
  BY <1>2, AsyncLost DEF Connect
<1>3. CASE ClientNext
  BY <1>3, ClientLost
<1>4. CASE UNCHANGED vars
  BY <1>4, LostSame DEF vars, Lost, SomeClear
<1> QED BY <1>1, <1>2, <1>3, <1>4 DEF Next, Over

\* The messages of a clear are single in every reachable state.
LEMMA TokenAlways == Spec => [](TypeOK /\ OrderInv /\ TokenInv)
<1>1. Init => TokenInv
  BY TokenInit
<1> QED BY <1>1, TokenStep, OrderAlways, PTL DEF Spec

\* LostInv holds in every reachable state.
LEMMA LostAlways == Spec => []LostInv
<1>1. Init => LostInv
  <2> SUFFICES ASSUME Init PROVE LostInv
    OBVIOUS
  <2>1. /\ toSync = << >> /\ queue = << >> /\ clearPending = FALSE
        /\ fate = [i \in Ids |-> "new"] /\ nextId = 1 /\ clearFrom = 0
        /\ partial = FALSE /\ ~completeDue
    BY DEF Init, SessionInit, ClientInit, NoId
  <2>2. Marked
    BY <2>1, TokenInit DEF Marked
  <2>3. AckBounds /\ PendingBounds /\ OnlyClearedLost
    BY <2>1 DEF AckBounds, PendingBounds, OnlyClearedLost
  <2> QED BY <2>2, <2>3 DEF LostInv
<1> QED BY <1>1, LostStep, TokenAlways, PTL DEF Spec

\* A command the client sent after its last device clear is never dropped,
\* neither with the queue nor by the dispatch loop, whether that clear was
\* acknowledged in time, late or never.
THEOREM OnlyClearedLostAlways == Spec => []OnlyClearedLost
  BY LostAlways, PTL DEF LostInv

-----------------------------------------------------------------------------
(* ClearLeavesNothing.  The clear is followed through its stages: on its   *)
(* way in (SomeClear), waited for by the channel (Busy) while it is        *)
(* announced (SomeComplete), acknowledged by the client (AckIn), swept by  *)
(* the receive loop (Sweeping) and swept (clearDone), and on its way back  *)
(* (SomeAck).  From the sweep on, nothing older than the clear is left.    *)

Swept ==
    /\ \A k \in DOMAIN queue : queue[k] > clearFrom
    /\ \A i \in cmdBuf : i > clearFrom
    /\ ~clearPending
    /\ \A k \in DOMAIN toSync : ~IsAck(toSync[k]) /\ toSync[k].id > clearFrom

Busy     == asyncPc \in {"sendComplete", "waitAck"}
AckIn    == \E k \in DOMAIN toSync : IsAck(toSync[k])
AckLast  == \A k \in DOMAIN toSync : IsAck(toSync[k]) => k = Len(toSync)
Sweeping == recvPc \in {"cls", "clsSend"}
NeverCleared == clears = 0

ClearInv ==
    connected /\ ~timedOut =>
        /\ SyncOpen
        /\ ~clearing /\ ~NeverCleared => Swept /\ ~completeDue
        /\ NeverCleared => ~clearing
        /\ SomeClear => clearing /\ ~Busy /\ ~SomeAck
        /\ Busy => clearing /\ ~SomeAck
        /\ SomeAck => clearing /\ Swept /\ ~completeDue
        /\ ~TwoAcks
        /\ SomeComplete => Busy /\ ~clearDone /\ ~Sweeping /\ ~AckIn
        /\ AckIn => /\ Busy /\ ~clearDone /\ ~Sweeping
                    /\ ~completeDue /\ AckLast
        /\ Sweeping => Busy /\ ~clearDone /\ ~completeDue /\ Swept
        /\ Busy /\ clearDone => ~completeDue /\ Swept

\* It survives a step that moves no clear to another stage and leaves swept
\* what is swept.
LEMMA ClearKept ==
    ASSUME ClearInv, connected' => connected, timedOut => timedOut',
           connected' => (SyncOpen => SyncOpen'),
           UNCHANGED <<clearing, clears, completeDue, clearDone>>,
           Busy' <=> Busy, Sweeping' => Sweeping,
           NoMoreClears, NoMoreCompletes, NoMoreAcks,
           Swept => Swept', AckIn' => AckIn, AckIn' /\ AckLast => AckLast'
    PROVE  ClearInv'
  BY DEF ClearInv, NeverCleared, NoMoreClears, NoMoreCompletes, NoMoreAcks

\* What has been swept stays swept if nothing moves.
LEMMA SweptSame ==
    UNCHANGED <<queue, cmdBuf, clearFrom, clearPending, toSync>>
    => (Swept => Swept') /\ (AckIn' => AckIn) /\ (AckLast => AckLast')
  BY DEF Swept, AckIn, AckLast, IsAck

\* After the sweep no acknowledgement is on its way.
LEMMA NoAckSwept == Swept => ~AckIn
  BY DEF Swept, AckIn

\* Reading a command or a fragment brings nothing older into the session.
LEMMA SweptTail ==
    ASSUME TypeOK, toSync # << >>, toSync' = Tail(toSync),
           ~IsAck(Head(toSync)),
           \A j \in DOMAIN queue' :
              \/ j \in DOMAIN queue /\ queue'[j] = queue[j]
              \/ queue'[j] = Head(toSync).id,
           \A i \in cmdBuf' : i \in cmdBuf \/ i = Head(toSync).id,
           UNCHANGED <<clearFrom, clearPending>>
    PROVE  (Swept => Swept') /\ (AckIn' => AckIn) /\ (AckLast => AckLast')
<1>1. /\ 1 \in DOMAIN toSync /\ Head(toSync) = toSync[1]
      /\ Len(toSync) \in Nat /\ Len(toSync') = Len(toSync) - 1
      /\ \A k \in DOMAIN toSync' :
            k \in Nat \ {0} /\ k + 1 \in DOMAIN toSync
            /\ toSync'[k] = toSync[k + 1]
  BY TailElements DEF TypeOK, SessionTypeOK
<1>2. Swept => Swept'
  BY <1>1 DEF Swept, IsAck
<1>3. AckIn' => AckIn
  BY <1>1 DEF AckIn, IsAck
<1>4. ASSUME AckLast, NEW k \in DOMAIN toSync', IsAck(toSync'[k])
      PROVE  k = Len(toSync')
  <2>1. k \in Nat /\ k + 1 = Len(toSync)
    BY <1>1, <1>4 DEF AckLast
  <2> QED BY <1>1, <2>1
<1> QED BY <1>2, <1>3, <1>4 DEF AckLast, IsAck

\* Every step of the receive loop keeps the stages of a clear.
LEMMA ReceiveClear ==
    TypeOK /\ ClearInv /\ ReceiveNext /\ UNCHANGED clientVars => ClearInv'
<1> SUFFICES ASSUME TypeOK, ClearInv, ReceiveNext, UNCHANGED clientVars
             PROVE  ClearInv'
  OBVIOUS
<1> USE DEF recvFrame
<1>c. NoMoreClears /\ NoMoreCompletes /\ NoMoreAcks
  BY LoopsSendNoToken
<1>1. CASE \/ RecvData \/ RecvCommand \/ RecvOverflow \/ RecvTrigger
           \/ RecvOther
  <2>1. /\ toSync # << >> /\ toSync' = Tail(toSync) /\ ~IsAck(Head(toSync))
        /\ UNCHANGED <<connected, timedOut, clearDone, clearPending, asyncPc>>
        /\ recvPc' \in {"read", "send", "waitDone"} /\ recvPc = "read"
    BY <1>1 DEF RecvData, RecvCommand, RecvOverflow, RecvTrigger, RecvOther,
                Receive, IsAck, AfterPut
  <2>2. \A i \in cmdBuf' : i \in cmdBuf \/ i = Head(toSync).id
    BY <1>1 DEF RecvData, RecvCommand, RecvOverflow, RecvTrigger, RecvOther,
                TakeBuffer
  <2>3. \A j \in DOMAIN queue' :
           \/ j \in DOMAIN queue /\ queue'[j] = queue[j]
           \/ queue'[j] = Head(toSync).id
    <3>1. CASE RecvCommand
      <4>1. PICK i \in Ids : i = Head(toSync).id
        BY <3>1, ReceiveType DEF RecvCommand, TypeOK, SyncIn
      <4>2. queue \in Seq(Ids) /\ queue' = Append(queue, i)
        BY <3>1, <4>1 DEF RecvCommand, TypeOK, SessionTypeOK
      <4>3. /\ \A k \in DOMAIN queue : Append(queue, i)[k] = queue[k]
            /\ Append(queue, i)[Len(queue) + 1] = i
            /\ \A k \in DOMAIN Append(queue, i) :
                  k \in DOMAIN queue \/ k = Len(queue) + 1
        BY <4>2, AppendElements
      <4> QED BY <4>1, <4>2, <4>3
    <3>2. CASE ~RecvCommand
      <4>1. UNCHANGED queue
        BY <1>1, <3>2 DEF RecvData, RecvOverflow, RecvTrigger, RecvOther
      <4> QED BY <4>1
    <3> QED BY <3>1, <3>2
  <2>4. (Swept => Swept') /\ (AckIn' => AckIn) /\ (AckLast => AckLast')
    BY <2>1, <2>2, <2>3, SweptTail
  <2>5. (Busy' <=> Busy) /\ SyncOpen' /\ ~Sweeping'
    BY <2>1 DEF Busy, SyncOpen, Sweeping
  <2> QED BY <1>c, <2>1, <2>4, <2>5, ClearKept
<1>2. CASE RecvWake \/ RecvSent \/ RecvClsDone \/ RecvStop \/ RunClose
  <2>1. /\ UNCHANGED <<queue, cmdBuf, clearPending, toSync, timedOut,
                       clearDone, asyncPc>>
        /\ connected' = connected \/ ~connected'
        /\ recvPc' = "clsSend" => recvPc = "cls"
        /\ recvPc' # "cls"
        /\ recvPc' = "closed" => ~connected'
    BY <1>2 DEF RecvWake, RecvSent, RecvClsDone, RecvStop, RunClose
  <2>2. (Swept => Swept') /\ (AckIn' => AckIn) /\ (AckLast => AckLast')
    BY <2>1, SweptSame
  <2>3. /\ Busy' <=> Busy
        /\ connected' => SyncOpen'
        /\ Sweeping' => Sweeping
    BY <2>1 DEF Busy, SyncOpen, Sweeping
  <2> QED BY <1>c, <2>1, <2>2, <2>3, ClearKept
<1>3. CASE RecvClearAck
  <2>1. /\ toSync # << >> /\ toSync' = Tail(toSync) /\ IsAck(Head(toSync))
        /\ queue' = << >> /\ cmdBuf' = {} /\ clearPending' = FALSE
        /\ recvPc' = "cls" /\ UNCHANGED <<connected, timedOut, clearDone, asyncPc>>
    BY <1>3 DEF RecvClearAck, Receive, DrainQueue, ClearBuffer, EndPending, IsAck
  <2> SUFFICES ASSUME connected, ~timedOut PROVE ClearInv'
    BY <2>1 DEF ClearInv
  <2>2. /\ 1 \in DOMAIN toSync /\ Head(toSync) = toSync[1]
        /\ Len(toSync) \in Nat /\ DOMAIN toSync' = 1..(Len(toSync) - 1)
    BY <2>1, TailElements DEF TypeOK, SessionTypeOK
  <2>3. AckIn
    BY <2>1, <2>2 DEF AckIn
  <2>4. Busy /\ ~clearDone /\ ~completeDue /\ AckLast
    BY <2>3 DEF ClearInv
  <2>5. 1 = Len(toSync)
    BY <2>1, <2>2, <2>4 DEF AckLast
  <2>6. DOMAIN toSync' = {}
    <3>1. Len(toSync) - 1 = 0
      BY <2>5
    <3>2. 1..0 = {}
      OBVIOUS
    <3> QED BY <2>2, <3>1, <3>2
  <2>7. Swept' /\ ~AckIn'
    BY <2>1, <2>6 DEF Swept, AckIn
  <2>8. Busy' /\ SyncOpen' /\ ~clearDone' /\ ~completeDue'
    BY <2>1, <2>4 DEF Busy, SyncOpen
  <2>9. ~SomeComplete'
    BY <1>c, <2>3 DEF ClearInv, NoMoreCompletes
  <2> QED BY <1>c, <2>1, <2>4, <2>7, <2>8, <2>9
          DEF ClearInv, NoMoreClears, NoMoreAcks, NeverCleared
<1>4. CASE RecvClsSent
  <2>1. /\ UNCHANGED <<queue, cmdBuf, clearPending, toSync, timedOut,
                       connected, asyncPc>>
        /\ recvPc' = "read" /\ recvPc = "clsSend" /\ clearDone' = TRUE
    BY <1>4 DEF RecvClsSent
  <2>2. (Swept => Swept') /\ (AckIn' => AckIn)
    BY <2>1, SweptSame
  <2>3. Sweeping /\ ~Sweeping' /\ SyncOpen' /\ (Busy' <=> Busy)
    BY <2>1 DEF Sweeping, SyncOpen, Busy
  <2>4. connected /\ ~timedOut => ~AckIn' /\ ~SomeComplete'
    BY <1>c, <2>2, <2>3 DEF ClearInv, NoMoreCompletes
  <2> QED BY <1>c, <2>1, <2>2, <2>3, <2>4
          DEF ClearInv, NoMoreClears, NoMoreAcks, NeverCleared
<1> QED BY <1>1, <1>2, <1>3, <1>4 DEF ReceiveNext

\* Every step of the dispatch loop keeps the stages of a clear.
LEMMA DispatchClear ==
    TypeOK /\ ClearInv /\ DispatchNext /\ UNCHANGED clientVars => ClearInv'
<1> SUFFICES ASSUME TypeOK, ClearInv, DispatchNext, UNCHANGED clientVars
             PROVE  ClearInv'
  OBVIOUS
<1>1. UNCHANGED <<cmdBuf, clearPending, toSync, connected, timedOut,
                  clearDone, asyncPc, recvPc>>
  BY DEF DispatchNext, DispRun, DispSkip, DispStop, DispFinish, DispReplied,
         dispFrame
<1>2. \A k \in DOMAIN queue' : \E j \in DOMAIN queue : queue'[k] = queue[j]
  <2>1. UNCHANGED queue \/ (queue # << >> /\ queue' = Tail(queue))
    BY DEF DispatchNext, DispRun, DispSkip, DispStop, DispFinish, DispReplied,
           Take
  <2>2. CASE queue # << >> /\ queue' = Tail(queue)
    BY <2>2, TailElements DEF TypeOK, SessionTypeOK
  <2> QED BY <2>1, <2>2
<1>3. (Swept => Swept') /\ (AckIn' => AckIn) /\ (AckLast => AckLast')
  BY <1>1, <1>2 DEF Swept, AckIn, AckLast, IsAck
<1>4. (Busy' <=> Busy) /\ (SyncOpen => SyncOpen') /\ (Sweeping' => Sweeping)
  BY <1>1 DEF Busy, SyncOpen, Sweeping
<1> QED BY <1>1, <1>3, <1>4, LoopsSendNoToken, ClearKept

\* Every step of the channel keeps the stages of a clear.
LEMMA AsyncClearing ==
    TypeOK /\ TokenInv /\ ClearInv /\ (AsyncNext \/ AsyncStart)
    /\ UNCHANGED clientVars => ClearInv'
<1> SUFFICES ASSUME TypeOK, TokenInv, ClearInv, AsyncNext \/ AsyncStart,
                    UNCHANGED clientVars
             PROVE  ClearInv'
  OBVIOUS
<1> USE DEF asyncFrame
<1>u. UNCHANGED <<queue, cmdBuf, toSync, connected, recvPc>>
  BY DEF AsyncNext, AsyncStart, AsyncStop, AsyncStatusQuery, AsyncRemoteLocal,
         AsyncOther, AsyncClear, AsyncCompleteSent, AsyncAcked, AsyncTimeout
<1>v. (SyncOpen => SyncOpen') /\ (Sweeping' <=> Sweeping)
  BY <1>u DEF SyncOpen, Sweeping
<1>1. CASE AsyncClear
  <2> SUFFICES ASSUME connected, ~timedOut PROVE ClearInv'
    BY <1>1, <1>u DEF ClearInv, AsyncClear, StartDeviceClear
  <2>1. SomeClear /\ ~TwoClears /\ ~SomeComplete /\ completeDue
    BY <1>1, ClearTurnsToken DEF TokenInv
  <2>2. clearing /\ ~Busy /\ ~SomeAck /\ SyncOpen /\ ~TwoAcks /\ ~AckIn
        /\ ~Sweeping /\ ~NeverCleared
    BY <2>1 DEF ClearInv
  <2>3. ~SomeClear'
    BY <1>1, <2>1, ClearTurnsToken
  <2>4. ~SomeAck' /\ ~TwoAcks'
    <3>1. NoMoreAcks
      BY <1>1, <2>2, AcksKept DEF AsyncClear
    <3> QED BY <2>2, <3>1 DEF NoMoreAcks
  <2>5. Busy' /\ ~clearDone'
    BY <1>1, <2>2 DEF AsyncClear, StartDeviceClear, Busy
  <2>6. ~AckIn' /\ clearing' /\ ~NeverCleared'
    BY <1>u, <2>2 DEF AckIn, IsAck, NeverCleared
  <2> QED BY <1>v, <2>2, <2>3, <2>4, <2>5, <2>6 DEF ClearInv
<1>2. CASE AsyncAcked
  <2>1. /\ Busy /\ ~Busy' /\ clearDone /\ UNCHANGED <<timedOut, clearPending>>
        /\ ASend(AFrame("clearAck", FALSE))
    BY <1>2 DEF AsyncAcked, Busy
  <2> SUFFICES ASSUME connected, ~timedOut PROVE ClearInv'
    BY <1>u, <2>1 DEF ClearInv
  <2>2. clearing /\ ~SomeAck /\ ~TwoAcks /\ Swept /\ ~completeDue /\ SyncOpen
        /\ ~SomeClear /\ ~SomeComplete /\ ~AckIn /\ ~Sweeping /\ ~NeverCleared
    BY <2>1 DEF ClearInv
  <2>3. NoMoreClears /\ NoMoreCompletes
    BY <1>2, ClearsKept, CompletesKept DEF AsyncAcked
  <2>4. ~TwoAcks'
    <3>1. AFrame("clearAck", FALSE) \in AFrames /\ outAsync \in Seq(AFrames)
      BY DEF AFrame, AFrames, AsyncOut, TypeOK, SessionTypeOK
    <3>2. CASE outAsync' = outAsync
      BY <2>2, <3>2 DEF TwoAcks
    <3>3. CASE outAsync' = Append(outAsync, AFrame("clearAck", FALSE))
      BY <2>2, <3>1, <3>3, HasAppend DEF TwoAcks, SomeAck
    <3> QED BY <2>1, <3>2, <3>3 DEF ASend
  <2>5. Swept' /\ ~AckIn'
    BY <1>u, <2>1, <2>2, SweptSame
  <2>6. ~SomeClear' /\ ~SomeComplete' /\ clearing' /\ ~completeDue'
        /\ ~NeverCleared'
    BY <2>2, <2>3 DEF NoMoreClears, NoMoreCompletes, NeverCleared
  <2> QED BY <1>v, <2>1, <2>2, <2>4, <2>5, <2>6 DEF ClearInv
<1>3. CASE AsyncTimeout
  BY <1>3 DEF AsyncTimeout, ClearInv
<1>4. CASE \/ AsyncStart \/ AsyncStop \/ AsyncOther \/ AsyncCompleteSent
           \/ \E kind \in AsyncIn : AsyncStatusQuery(kind)
                                    \/ AsyncRemoteLocal(kind)
  <2>1. UNCHANGED <<timedOut, clearPending, clearDone>> /\ (Busy' <=> Busy)
    BY <1>4 DEF AsyncStart, AsyncStop, AsyncOther, AsyncCompleteSent,
                AsyncStatusQuery, AsyncRemoteLocal, Busy, AsyncOpen
  <2>2. (Swept => Swept') /\ (AckIn' => AckIn) /\ (AckLast => AckLast')
    BY <1>u, <2>1, SweptSame
  <2> QED BY <1>u, <1>v, <1>4, <2>1, <2>2, ChannelSendsNoToken, ClearKept
<1> QED BY <1>1, <1>2, <1>3, <1>4 DEF AsyncNext

\* Every step of the client keeps the stages of a clear.
LEMMA ClientClearing ==
    TypeOK /\ TokenInv /\ LostInv /\ ClearInv /\ ClientNext => ClearInv'
<1> SUFFICES ASSUME TypeOK, TokenInv, LostInv, ClearInv, ClientNext
             PROVE  ClearInv'
  OBVIOUS
<1> USE DEF clientRest
<1>u. UNCHANGED <<queue, cmdBuf, clearPending, timedOut, clearDone, recvPc,
                  asyncPc>>
  BY DEF ClientNext, ClientFragment, ClientCommand, ClientMessage, ClientRead,
         ClientClear, ClientPoll, ClientReadAsync, ClientLeave,
         ClientLeaveAsync
<1>v. (SyncOpen' <=> SyncOpen) /\ (Sweeping' <=> Sweeping) /\ (Busy' <=> Busy)
  BY <1>u DEF SyncOpen, Sweeping, Busy
<1>1. CASE \/ ClientFragment \/ ClientCommand
           \/ \E kind \in {"trigger", "other", "bad"} : ClientMessage(kind)
  <2>1. PICK kind \in SyncIn \ {"clearAck"} : Put(kind)
    BY <1>1 DEF ClientFragment, ClientCommand, ClientMessage, SyncIn
  <2>2. MaySend /\ UNCHANGED <<clearing, completeDue, clearFrom, clears,
                               connected>>
    BY <1>1 DEF ClientFragment, ClientCommand, ClientMessage
  <2> SUFFICES ASSUME connected, ~timedOut PROVE ClearInv'
    BY <1>u, <2>2 DEF ClearInv
  <2>3. ~AckIn
    BY <2>2 DEF ClearInv, MaySend
  <2>4. PICK f \in InFrames :
           f.id = nextId /\ ~IsAck(f) /\ toSync' = Append(toSync, f)
    <3>1. nextId \in Ids
      BY <2>2, SessionAssumption DEF TypeOK, ClientTypeOK, MaySend, Ids
    <3>2. Frame(kind, nextId) \in InFrames /\ ~IsAck(Frame(kind, nextId))
      BY <3>1 DEF Frame, InFrames, IsAck
    <3> QED BY <2>1, <3>2 DEF Put, Frame
  <2>5. \A k \in DOMAIN toSync' :
           \/ k \in DOMAIN toSync /\ toSync'[k] = toSync[k]
           \/ toSync'[k] = f
    BY <2>4, AppendElements DEF TypeOK, SessionTypeOK
  <2>6. f.id > clearFrom
    BY <2>4, NumbersTyped, SessionAssumption
    DEF LostInv, Marked, TypeOK, ClientTypeOK
  <2>7. Swept => Swept'
    BY <1>u, <2>2, <2>4, <2>5, <2>6 DEF Swept, IsAck
  <2>8. ~AckIn'
    BY <2>3, <2>4, <2>5 DEF AckIn, IsAck
  <2>9. NoMoreClears /\ NoMoreCompletes /\ NoMoreAcks
    <3>1. UNCHANGED <<toAsync, outAsync, sendVars>>
      BY <1>1 DEF ClientFragment, ClientCommand, ClientMessage
    <3> QED BY <3>1, ClearsKept, CompletesKept, AcksKept
  <2> QED BY <1>u, <1>v, <2>2, <2>7, <2>8, <2>9, ClearKept
<1>2. CASE ClientRead
  <2>1. /\ UNCHANGED <<connected, clearing, clearFrom, clears, toAsync,
                       outAsync>>
    BY <1>2 DEF ClientRead
  <2>2. NoMoreClears /\ NoMoreAcks /\ NoMoreCompletes
    BY <1>2, <2>1, ClearsKept, AcksKept, ReadToken
  <2>3. CASE Head(outSync).kind # "complete"
    <3>1. UNCHANGED <<toSync, completeDue>>
      BY <1>2, <2>3 DEF ClientRead
    <3>2. (Swept => Swept') /\ (AckIn' => AckIn) /\ (AckLast => AckLast')
      BY <1>u, <2>1, <3>1, SweptSame
    <3> QED BY <1>u, <1>v, <2>1, <2>2, <3>1, <3>2, ClearKept
  <2>4. CASE Head(outSync).kind = "complete"
    <3> SUFFICES ASSUME connected, ~timedOut PROVE ClearInv'
      BY <1>u, <2>1 DEF ClearInv
    <3>1. SomeComplete /\ ~SomeComplete' /\ ~SomeClear /\ ~SomeClear'
      BY <1>2, <2>2, <2>4, ReadToken DEF TokenInv, NoMoreClears
    <3>2. /\ Busy /\ ~clearDone /\ ~Sweeping /\ ~AckIn
          /\ clearing /\ ~SomeAck /\ SyncOpen /\ ~TwoAcks /\ ~NeverCleared
      BY <3>1 DEF ClearInv
    <3>3. ~completeDue' /\ toSync' = Append(toSync, Frame("clearAck", NoId))
      BY <1>2, <2>4 DEF ClientRead
    <3>4. AckLast'
      <4>1. Frame("clearAck", NoId) \in InFrames
        BY DEF InFrames
      <4>2. /\ toSync \in Seq(InFrames)
            /\ toSync' \in Seq(InFrames)
            /\ Len(toSync') = Len(toSync) + 1
        BY <3>3, <4>1, AppendProperties DEF TypeOK, SessionTypeOK
      <4>3. \A k \in DOMAIN toSync' :
               \/ k \in DOMAIN toSync /\ toSync'[k] = toSync[k]
               \/ k = Len(toSync) + 1
        BY <3>3, <4>1, <4>2, AppendElements
      <4> QED BY <3>2, <4>2, <4>3 DEF AckLast, AckIn, IsAck
    <3>5. clearing' /\ ~SomeAck' /\ ~TwoAcks' /\ ~NeverCleared' /\ ~clearDone'
      BY <1>u, <2>1, <2>2, <3>2 DEF NoMoreAcks, NeverCleared
    <3> QED BY <1>v, <3>1, <3>2, <3>3, <3>4, <3>5 DEF ClearInv
  <2> QED BY <2>3, <2>4
<1>3. CASE ClientClear
  <2>1. /\ clearing' /\ ~clearing /\ ~completeDue
        /\ UNCHANGED <<connected, toSync, outAsync, sendVars>>
    BY <1>3 DEF ClientClear
  <2> SUFFICES ASSUME connected, ~timedOut PROVE ClearInv'
    BY <1>u, <2>1 DEF ClearInv
  <2>2. ~Busy /\ ~SomeAck /\ ~SomeComplete /\ ~AckIn /\ ~Sweeping /\ SyncOpen
        /\ ~TwoAcks
    BY <2>1 DEF ClearInv
  <2>3. NoMoreCompletes /\ NoMoreAcks
    BY <2>1, CompletesKept, AcksKept
  <2>4. ~SomeAck' /\ ~SomeComplete' /\ ~TwoAcks' /\ ~AckIn'
    BY <2>1, <2>2, <2>3 DEF NoMoreCompletes, NoMoreAcks, AckIn, IsAck
  <2>5. ~NeverCleared'
    <3>1. clears' = clears + 1 /\ clears \in Nat
      BY <1>3 DEF ClientClear, TypeOK, ClientTypeOK
    <3> QED BY <3>1 DEF NeverCleared
  <2> QED BY <1>v, <2>1, <2>2, <2>4, <2>5 DEF ClearInv
<1>4. CASE ClientReadAsync
  <2>1. /\ outAsync # << >> /\ outAsync' = Tail(outAsync)
        /\ outAsync \in Seq(AFrames) /\ Head(outAsync) \in AFrames
        /\ UNCHANGED <<connected, toSync, completeDue, clearFrom, clears,
                       toAsync, sendVars>>
    BY <1>4, TailElements DEF ClientReadAsync, TypeOK, SessionTypeOK
  <2>2. (Swept => Swept') /\ (AckIn' => AckIn) /\ (AckLast => AckLast')
    BY <1>u, <2>1, SweptSame
  <2>3. NoMoreClears /\ NoMoreCompletes /\ NoMoreAcks
    BY <2>1, ClearsKept, CompletesKept, AcksKept
  <2>4. CASE Head(outAsync).kind # "clearAck"
    <3>1. clearing' = clearing
      BY <1>4, <2>4 DEF ClientReadAsync, TypeOK, ClientTypeOK
    <3> QED BY <1>u, <1>v, <2>1, <2>2, <2>3, <3>1, ClearKept
  <2>5. CASE Head(outAsync).kind = "clearAck"
    <3> SUFFICES ASSUME connected, ~timedOut PROVE ClearInv'
      BY <1>u, <2>1 DEF ClearInv
    <3>1. Head(outAsync) \in AckFrames
      BY <2>1, <2>5 DEF AckFrames
    <3>2. SomeAck /\ (SomeAck' => TwoAcks)
      BY <2>1, <3>1, HasTail DEF SomeAck, TwoAcks
    <3>3. /\ ~TwoAcks /\ ~SomeClear /\ ~Busy /\ Swept /\ ~completeDue
          /\ ~SomeComplete /\ ~AckIn /\ ~Sweeping /\ SyncOpen
      BY <3>2 DEF ClearInv
    <3>4. ~SomeAck' /\ ~TwoAcks' /\ ~SomeClear' /\ ~SomeComplete'
      BY <2>3, <3>2, <3>3 DEF NoMoreClears, NoMoreCompletes, NoMoreAcks
    <3>5. ~clearing' /\ ~completeDue' /\ Swept' /\ ~AckIn'
      <4>1. ~clearing'
        BY <1>4, <2>5 DEF ClientReadAsync
      <4>2. completeDue' = completeDue
        BY <2>1
      <4> QED BY <2>2, <3>3, <4>1, <4>2
    <3> QED BY <1>v, <3>3, <3>4, <3>5 DEF ClearInv
  <2> QED BY <2>4, <2>5
<1>5. CASE \/ \E kind \in AsyncKinds : ClientPoll(kind)
           \/ ClientLeave \/ ClientLeaveAsync
  <2>1. /\ UNCHANGED <<toSync, clearing, completeDue, clearFrom, clears>>
        /\ connected' = connected \/ ~connected'
    BY <1>5 DEF ClientPoll, ClientLeave, ClientLeaveAsync
  <2>2. NoMoreClears /\ NoMoreCompletes /\ NoMoreAcks
    <3>1. UNCHANGED <<outAsync, sendVars>>
      BY <1>5 DEF ClientPoll, ClientLeave, ClientLeaveAsync
    <3>2. \/ UNCHANGED toAsync
          \/ \E k \in AsyncIn \ {"clear"} : toAsync' = Append(toAsync, k)
      BY <1>5, ClientAssumption DEF ClientPoll, ClientLeave, ClientLeaveAsync
    <3> QED BY <3>1, <3>2, ClearsKept, CompletesKept, AcksKept
  <2>3. (Swept => Swept') /\ (AckIn' => AckIn) /\ (AckLast => AckLast')
    BY <1>u, <2>1, SweptSame
  <2> QED BY <1>u, <1>v, <2>1, <2>2, <2>3, ClearKept
<1> QED BY <1>1, <1>2, <1>3, <1>4, <1>5 DEF ClientNext

\* Every step keeps the stages of a clear.
LEMMA ClearStep ==
    TypeOK /\ TokenInv /\ LostInv /\ ClearInv /\ [Next]_vars => ClearInv'
<1> SUFFICES ASSUME TypeOK, TokenInv, LostInv, ClearInv, [Next]_vars
             PROVE  ClearInv'
  OBVIOUS
<1>1. CASE ServerNext
  BY <1>1, ReceiveClear, DispatchClear, AsyncClearing DEF ServerNext
<1>2. CASE Connect
  BY <1>2, AsyncClearing DEF Connect
<1>3. CASE ClientNext
  BY <1>3, ClientClearing
<1>4. CASE UNCHANGED vars
  <2>1. NoMoreClears /\ NoMoreCompletes /\ NoMoreAcks
    BY <1>4, ClearsKept, CompletesKept, AcksKept DEF vars
  <2>2. (Swept => Swept') /\ (AckIn' => AckIn) /\ (AckLast => AckLast')
    BY <1>4, SweptSame DEF vars
  <2>3. (SyncOpen' <=> SyncOpen) /\ (Sweeping' <=> Sweeping) /\ (Busy' <=> Busy)
    BY <1>4 DEF vars, SyncOpen, Sweeping, Busy
  <2> QED BY <1>4, <2>1, <2>2, <2>3, ClearKept DEF vars
<1> QED BY <1>1, <1>2, <1>3, <1>4 DEF Next, Over

\* Once the client knows its device clear to be over, in time, no command it
\* sent before waits in the queue, none of its fragments is in the buffer
\* and no later command will be dropped for it.
THEOREM ClearLeavesNothingAlways == Spec => []ClearLeavesNothing
<1>1. Init => ClearInv
  <2> SUFFICES ASSUME Init PROVE ClearInv
    OBVIOUS
  <2>1. /\ SyncOpen /\ ~clearing /\ NeverCleared /\ ~Busy /\ ~Sweeping
        /\ toSync = << >> /\ outAsync = << >>
    BY DEF Init, SessionInit, ClientInit, SyncOpen, NeverCleared, Busy,
           Sweeping
  <2>2. ~AckIn /\ ~TwoAcks
    BY <2>1 DEF AckIn, TwoAcks, Twice
  <2> QED BY <2>1, <2>2, TokenInit DEF ClearInv
<1>2. TypeOK /\ ClearInv => ClearLeavesNothing
  <2>1. TypeOK /\ clears > 0 => ~NeverCleared
    BY DEF TypeOK, ClientTypeOK, NeverCleared
  <2> QED BY <2>1 DEF ClearInv, ClearLeavesNothing, Swept
<1> QED BY <1>1, <1>2, ClearStep, TokenAlways, LostAlways, PTL DEF Spec

-----------------------------------------------------------------------------
(* MavReported.                                                            *)

\* MAV is taken back only by a status query that reported it: no other step
\* of the session, and none of the client, clears the bit.
THEOREM MavAlwaysReported == Spec => MavReported
<1> DEFINE Reported ==
              mav /\ ~mav' /\ aConnected =>
                  /\ Len(outAsync') = Len(outAsync) + 1
                  /\ outAsync'[Len(outAsync')] = AFrame("status", TRUE)
<1>1. TypeOK /\ [Next]_vars => Reported
  <2> SUFFICES ASSUME TypeOK, [Next]_vars, mav, ~mav', aConnected
               PROVE  /\ Len(outAsync') = Len(outAsync) + 1
                      /\ outAsync'[Len(outAsync')] = AFrame("status", TRUE)
    OBVIOUS
  <2>1. PICK kind : AsyncStatusQuery(kind)
    BY DEF Next, ServerNext, Connect, Over, vars,
           ReceiveNext, RecvData, RecvCommand, RecvOverflow, RecvWake,
           RecvTrigger, RecvOther, RecvSent, RecvClearAck, RecvClsDone,
           RecvClsSent, RecvStop, RunClose, recvFrame,
           DispatchNext, DispRun, DispSkip, DispStop, DispFinish, DispReplied,
           dispFrame, AsyncNext, AsyncStart, AsyncStop, AsyncRemoteLocal,
           AsyncOther, AsyncClear, AsyncCompleteSent, AsyncAcked,
           AsyncTimeout, asyncFrame, ClientNext, ClientFragment,
           ClientCommand, ClientMessage, ClientRead, ClientClear, ClientPoll,
           ClientReadAsync, ClientLeave, ClientLeaveAsync, clientRest
  <2>2. outAsync' = Append(outAsync, AFrame("status", mav)) /\ mav = TRUE
    BY <2>1
    DEF AsyncStatusQuery, ASend, StatusByte, TypeOK, SessionTypeOK
  <2>3. AFrame("status", TRUE) \in AFrames /\ outAsync \in Seq(AFrames)
    BY DEF AFrame, AFrames, AsyncOut, TypeOK, SessionTypeOK
  <2>4. PICK f \in AFrames :
           f = AFrame("status", TRUE) /\ outAsync' = Append(outAsync, f)
    BY <2>2, <2>3
  <2>5. /\ Len(Append(outAsync, f)) = Len(outAsync) + 1
        /\ Append(outAsync, f)[Len(outAsync) + 1] = f
    BY <2>3, AppendProperties
  <2> QED BY <2>4, <2>5
<1>2. MavReported <=> [][Reported]_vars
  BY PTL DEF MavReported
<1> QED BY <1>1, <1>2, TypeCorrect, PTL DEF Spec
===============================================================================
