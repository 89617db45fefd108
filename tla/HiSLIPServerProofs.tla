-------------------------- MODULE HiSLIPServerProofs --------------------------
(***************************************************************************)
(* For any number of connections and any MaxId: the type invariant of      *)
(* HiSLIPServer and OneChannel.                                            *)
(*                                                                         *)
(* OneChannel is inductive together with two facts: the types, and that a  *)
(* connection serves a session exactly while its program counter says so   *)
(* (without it, AsyncEnd could clear async_open of a session that another  *)
(* connection serves).                                                     *)
(***************************************************************************)
EXTENDS HiSLIPServer, TLAPS

ServingHasSession ==
    \A a \in AsyncConns : asyncPc[a] = "serving" <=> serves[a] # None

Inv == TypeOK /\ ServingHasSession /\ OneChannel

\* The successor of an id is an id, at the wrap too.
LEMMA SuccessorId ==
    ASSUME NEW id \in SessionIds
    PROVE  Successor(id) \in SessionIds
  BY ServerAssumption, Z3 DEF Successor, SessionIds

-----------------------------------------------------------------------------
\* The initial state has the types.
LEMMA TypeInit == Init => TypeOK
<1> SUFFICES ASSUME Init PROVE TypeOK
  OBVIOUS
<1>1. nextSessionId \in SessionIds
  BY ServerAssumption DEF Init, SessionIds
<1>2. /\ sessions \in [SessionIds -> SyncConns \cup {None}]
      /\ sid \in [SyncConns -> SessionIds \cup {0}]
      /\ syncPc \in [SyncConns -> SyncPcs]
      /\ asyncOpen \in [SyncConns -> BOOLEAN]
  BY DEF Init, SyncPcs
<1>3. /\ asyncPc \in [AsyncConns -> AsyncPcs]
      /\ asker \in [AsyncConns -> SyncConns \cup {None}]
      /\ serves \in [AsyncConns -> SyncConns \cup {None}]
      /\ reused \in BOOLEAN
  BY DEF Init, AsyncPcs
<1> QED BY <1>1, <1>2, <1>3 DEF TypeOK

\* The types are preserved by every step.
LEMMA TypeStep == TypeOK /\ [Next]_vars => TypeOK'
<1> SUFFICES ASSUME TypeOK, [Next]_vars PROVE TypeOK'
  OBVIOUS
<1> USE DEF TypeOK
<1>1. ASSUME NEW c \in SyncConns, SyncAccept(c) PROVE TypeOK'
  BY <1>1, SuccessorId DEF SyncAccept, Register, SyncPcs
<1>2. ASSUME NEW c \in SyncConns, Handshake(c) PROVE TypeOK'
  BY <1>2 DEF Handshake, SyncPcs
<1>3. ASSUME NEW c \in SyncConns, SyncEnd(c) PROVE TypeOK'
  BY <1>3 DEF SyncEnd, SyncPcs
<1>4. ASSUME NEW c \in SyncConns, SyncRemove(c) PROVE TypeOK'
  BY <1>4 DEF SyncRemove, Pop, SyncPcs
<1>5. ASSUME NEW a \in AsyncConns, AsyncAccept(a) PROVE TypeOK'
  BY <1>5 DEF AsyncAccept, AsyncPcs
<1>6. ASSUME NEW a \in AsyncConns, AsyncGiveUp(a) PROVE TypeOK'
  BY <1>6 DEF AsyncGiveUp, AsyncPcs
<1>7. ASSUME NEW a \in AsyncConns, NEW c \in SyncConns, AsyncInitialize(a, c)
      PROVE  TypeOK'
  <2> DEFINE s == sessions[sid[c]]
  <2>1. s \in SyncConns \cup {None}
    BY <1>7 DEF AsyncInitialize
  <2>2. CASE Free(s)
    BY <1>7, <2>1, <2>2 DEF AsyncInitialize, Free, AsyncPcs
  <2>3. CASE ~Free(s)
    BY <1>7, <2>3 DEF AsyncInitialize, AsyncPcs
  <2> QED BY <2>2, <2>3
<1>8. ASSUME NEW a \in AsyncConns, AsyncEnd(a) PROVE TypeOK'
  BY <1>8 DEF AsyncEnd, AsyncPcs
<1>9. CASE UNCHANGED vars
  BY <1>9 DEF vars
<1> QED
  BY <1>1, <1>2, <1>3, <1>4, <1>5, <1>6, <1>7, <1>8, <1>9
  DEF Next, SyncNext, AsyncNext, Over

\* The type invariant, for every number of connections and every MaxId.
THEOREM TypeCorrect == Spec => []TypeOK
  BY TypeInit, TypeStep, PTL DEF Spec

-----------------------------------------------------------------------------
\* Attaching and detaching a channel keep one channel to a session.
LEMMA ChannelStep ==
    TypeOK /\ ServingHasSession /\ OneChannel /\ [Next]_vars
        => ServingHasSession' /\ OneChannel'
<1> SUFFICES ASSUME TypeOK, ServingHasSession, OneChannel, [Next]_vars
             PROVE  ServingHasSession' /\ OneChannel'
  OBVIOUS
<1> USE DEF TypeOK, ServingHasSession, OneChannel
<1>1. ASSUME NEW c \in SyncConns, SyncNext(c)
      PROVE  ServingHasSession' /\ OneChannel'
  BY <1>1 DEF SyncNext, SyncAccept, Handshake, SyncEnd, SyncRemove
<1>2. ASSUME NEW a \in AsyncConns, AsyncAccept(a) \/ AsyncGiveUp(a)
      PROVE  ServingHasSession' /\ OneChannel'
  BY <1>2 DEF AsyncAccept, AsyncGiveUp
<1>3. ASSUME NEW a \in AsyncConns, NEW c \in SyncConns, AsyncInitialize(a, c)
      PROVE  ServingHasSession' /\ OneChannel'
  <2> DEFINE s == sessions[sid[c]]
  <2>1. serves[a] = None
    BY <1>3 DEF AsyncInitialize
  <2>2. CASE Free(s)
    <3>1. s \in SyncConns /\ ~asyncOpen[s] /\ s # None
      BY <1>3, <2>2 DEF AsyncInitialize, Free
    <3>2. \A b \in AsyncConns : serves[b] # s
      BY <3>1
    <3>3. /\ serves' = [serves EXCEPT ![a] = s]
          /\ asyncOpen' = [asyncOpen EXCEPT ![s] = TRUE]
          /\ asyncPc' = [asyncPc EXCEPT ![a] = "serving"]
      BY <1>3, <2>2 DEF AsyncInitialize
    <3>4. ServingHasSession'
      BY <3>1, <3>3
    <3>5. \A b1, b2 \in AsyncConns :
              serves'[b1] # None /\ serves'[b1] = serves'[b2] => b1 = b2
      BY <3>1, <3>2, <3>3
    <3>6. \A d \in SyncConns :
              asyncOpen'[d] <=> \E b \in AsyncConns : serves'[b] = d
      BY <2>1, <3>1, <3>2, <3>3, ServerAssumption
    <3> QED BY <3>4, <3>5, <3>6
  <2>3. CASE ~Free(s)
    BY <1>3, <2>1, <2>3 DEF AsyncInitialize
  <2> QED BY <2>2, <2>3
<1>4. ASSUME NEW a \in AsyncConns, AsyncEnd(a)
      PROVE  ServingHasSession' /\ OneChannel'
  <2>1. serves[a] \in SyncConns /\ serves[a] # None
    BY <1>4 DEF AsyncEnd
  <2>2. /\ serves' = [serves EXCEPT ![a] = None]
        /\ asyncOpen' = [asyncOpen EXCEPT ![serves[a]] = FALSE]
        /\ asyncPc' = [asyncPc EXCEPT ![a] = "closed"]
    BY <1>4 DEF AsyncEnd
  <2>3. ServingHasSession'
    BY <2>1, <2>2
  <2>4. \A b1, b2 \in AsyncConns :
            serves'[b1] # None /\ serves'[b1] = serves'[b2] => b1 = b2
    BY <2>1, <2>2
  <2>5. \A d \in SyncConns :
            asyncOpen'[d] <=> \E b \in AsyncConns : serves'[b] = d
    BY <2>1, <2>2, ServerAssumption
  <2> QED BY <2>3, <2>4, <2>5
<1>5. CASE UNCHANGED vars
  BY <1>5 DEF vars
<1> QED
  BY <1>1, <1>2, <1>3, <1>4, <1>5 DEF Next, AsyncNext, Over

\* A session never has two async channels, and async_open says whether it
\* has one, however the connections interleave and the ids wrap around.
THEOREM OneChannelAlways == Spec => []OneChannel
<1>1. Init => Inv
  BY TypeInit, ServerAssumption
  DEF Init, Inv, ServingHasSession, OneChannel
<1>2. Inv /\ [Next]_vars => Inv'
  BY TypeStep, ChannelStep DEF Inv
<1>3. Inv => OneChannel
  BY DEF Inv
<1> QED
  BY <1>1, <1>2, <1>3, PTL DEF Spec

-----------------------------------------------------------------------------
(* The table of sessions.  TableExact is inductive with one fact more: a   *)
(* session that is alive has an id.  That no other session alive has the   *)
(* same one need not be said: TableExact implies it.                       *)

AliveHasId == \A c \in SyncConns : Alive(c) => sid[c] \in SessionIds

TableInv == TypeOK /\ AliveHasId /\ TableExact

LEMMA TableStep ==
    TableInv /\ [Next]_vars => AliveHasId' /\ TableExact'
<1> SUFFICES ASSUME TableInv, [Next]_vars PROVE AliveHasId' /\ TableExact'
  OBVIOUS
<1> USE DEF TableInv, TypeOK, AliveHasId, TableExact, Alive, SyncOpen
<1>1. ASSUME NEW c \in SyncConns, SyncAccept(c)
      PROVE  AliveHasId' /\ TableExact'
  <2>1. /\ syncPc[c] = "new"
        /\ sid' = [sid EXCEPT ![c] = nextSessionId]
        /\ sessions' = [sessions EXCEPT ![nextSessionId] = c]
        /\ syncPc' = [syncPc EXCEPT ![c] = "handshake"]
        /\ reused' = (reused \/ \E d \in SyncConns :
                                    Alive(d) /\ sid[d] = nextSessionId)
    BY <1>1 DEF SyncAccept, Register
  <2>2. AliveHasId'
    BY <2>1
  <2>3. ASSUME ~reused', NEW d \in SyncConns, NEW id \in SessionIds
        PROVE  sessions'[id] = d <=> Alive(d)' /\ sid'[d] = id
    <3>1. ~reused /\ ~(Alive(d) /\ sid[d] = nextSessionId)
      BY <2>1, <2>3
    <3>2. sessions[id] = d <=> Alive(d) /\ sid[d] = id
      BY <2>3, <3>1
    <3>3. CASE d = c
      BY <2>1, <3>1, <3>2, <3>3
    <3>4. CASE d # c
      BY <2>1, <3>1, <3>2, <3>4
    <3> QED BY <3>3, <3>4
  <2> QED BY <2>2, <2>3
<1>2. ASSUME NEW c \in SyncConns, Handshake(c) \/ SyncEnd(c)
      PROVE  AliveHasId' /\ TableExact'
  <2>1. \A d \in SyncConns : Alive(d)' <=> Alive(d)
    BY <1>2 DEF Handshake, SyncEnd
  <2>2. UNCHANGED <<sessions, sid, reused>>
    BY <1>2 DEF Handshake, SyncEnd
  <2> QED BY <2>1, <2>2
<1>3. ASSUME NEW c \in SyncConns, SyncRemove(c)
      PROVE  AliveHasId' /\ TableExact'
  <2>1. /\ syncPc[c] = "ending"
        /\ sessions' = [sessions EXCEPT ![sid[c]] = None]
        /\ syncPc' = [syncPc EXCEPT ![c] = "closed"]
        /\ UNCHANGED <<sid, reused>>
    BY <1>3 DEF SyncRemove, Pop
  <2>2. sid[c] \in SessionIds
    BY <2>1
  <2>3. AliveHasId'
    BY <2>1
  <2>4. ASSUME ~reused, NEW d \in SyncConns, NEW id \in SessionIds
        PROVE  sessions'[id] = d <=> Alive(d)' /\ sid'[d] = id
    <3>1. sessions[sid[c]] = c
      BY <2>1, <2>2, <2>4
    <3>2. CASE d = c
      BY <2>1, <2>2, <2>4, <3>2, ServerAssumption
    <3>3. CASE d # c
      BY <2>1, <2>2, <2>4, <3>1, <3>3, ServerAssumption
    <3> QED BY <3>2, <3>3
  <2> QED BY <2>1, <2>3, <2>4
<1>4. ASSUME NEW a \in AsyncConns, AsyncNext(a)
      PROVE  AliveHasId' /\ TableExact'
  <2>1. UNCHANGED <<sessions, sid, syncPc, reused>>
    BY <1>4 DEF AsyncNext, AsyncAccept, AsyncGiveUp, AsyncEnd, AsyncInitialize
  <2> QED BY <2>1
<1>5. CASE UNCHANGED vars
  BY <1>5 DEF vars
<1> QED
  BY <1>1, <1>2, <1>3, <1>4, <1>5 DEF Next, SyncNext, Over

LEMMA TableInvAlways == Spec => []TableInv
<1>1. Init => TableInv
  BY TypeInit, ServerAssumption
  DEF Init, TableInv, AliveHasId, TableExact, Alive, SyncOpen
<1>2. TableInv /\ [Next]_vars => TableInv'
  BY TypeStep, TableStep DEF TableInv
<1> QED
  BY <1>1, <1>2, PTL DEF Spec

\* The table holds exactly the sessions alive, until an id is given out that
\* a session still has.
THEOREM TableExactAlways == Spec => []TableExact
<1>1. TableInv => TableExact
  BY DEF TableInv
<1> QED
  BY <1>1, TableInvAlways, PTL

-----------------------------------------------------------------------------
(* Correlation.  A connection that has not been asked yet has no asker, so *)
(* the step that gives it one is AsyncInitialize.                          *)

Unasked == \A a \in AsyncConns : asyncPc[a] \in {"new", "first"} => asker[a] = None

LEMMA UnaskedAlways == Spec => []Unasked
<1>1. Init => Unasked
  BY DEF Init, Unasked
<1>2. TypeOK /\ Unasked /\ [Next]_vars => Unasked'
  <2> SUFFICES ASSUME TypeOK, Unasked, [Next]_vars PROVE Unasked'
    OBVIOUS
  <2> USE DEF TypeOK, Unasked
  <2>1. ASSUME NEW c \in SyncConns, SyncNext(c) PROVE Unasked'
    BY <2>1 DEF SyncNext, SyncAccept, Handshake, SyncEnd, SyncRemove
  <2>2. ASSUME NEW a \in AsyncConns, AsyncNext(a) PROVE Unasked'
    BY <2>2 DEF AsyncNext, AsyncAccept, AsyncGiveUp, AsyncEnd, AsyncInitialize
  <2>3. CASE UNCHANGED vars
    BY <2>3 DEF vars
  <2> QED BY <2>1, <2>2, <2>3 DEF Next, Over
<1> QED
  BY <1>1, <1>2, TypeCorrect, PTL DEF Spec

LEMMA CorrelationStep ==
    ASSUME TableInv, Unasked, [Next]_vars,
           NEW a \in AsyncConns, NEW c \in SyncConns,
           ~reused, AsksForOwn(a, c)
    PROVE  serves'[a] = c
<1> USE DEF TableInv, TypeOK, AsksForOwn
<1>1. asker[a] = None /\ asker'[a] = c /\ c # None
  BY ServerAssumption DEF Unasked
<1>2. AsyncInitialize(a, c)
  <2>1. \A d \in SyncConns : ~SyncNext(d)
    BY <1>1 DEF SyncNext, SyncAccept, Handshake, SyncEnd, SyncRemove
  <2>2. ~UNCHANGED vars
    BY <1>1 DEF vars
  <2>3. PICK b \in AsyncConns : AsyncNext(b)
    BY <2>1, <2>2 DEF Next, Over
  <2>4. PICK d \in SyncConns : AsyncInitialize(b, d)
    BY <1>1, <2>3 DEF AsyncNext, AsyncAccept, AsyncGiveUp, AsyncEnd
  <2>5. asker' = [asker EXCEPT ![b] = d]
    BY <2>4 DEF AsyncInitialize
  <2> QED BY <1>1, <2>4, <2>5
<1>3. SyncOpen(c) /\ ~asyncOpen[c]
  OBVIOUS
<1>4. sessions[sid[c]] = c
  BY <1>3 DEF AliveHasId, TableExact, Alive
<1>5. Free(sessions[sid[c]])
  BY <1>1, <1>3, <1>4 DEF Free
<1> QED
  BY <1>2, <1>4, <1>5 DEF AsyncInitialize

\* A client whose session is active gets the channel it asks for, attached to
\* its own session, until an id is given out that a session still has.
THEOREM CorrelatesAlways == Spec => CorrelatesUnlessReused
<1>1. TableInv /\ Unasked /\ [Next]_vars =>
        [\A a \in AsyncConns, c \in SyncConns :
            ~reused /\ AsksForOwn(a, c) => serves'[a] = c]_vars
  BY CorrelationStep
<1> QED
  BY <1>1, TableInvAlways, UnaskedAlways, PTL
  DEF Spec, CorrelatesUnlessReused
=============================================================================
