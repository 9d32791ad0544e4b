------------------------- MODULE RelayServerProofs -------------------------
(***************************************************************************)
(* Safety of the relay server for any number of connections, any id space  *)
(* and any number of requests: its types, the registry, what the players   *)
(* mutex buys (broadcasts do not overlap, so that the server implements    *)
(* PushLog, and each ends as RelayOutcome says), what a session leaves     *)
(* behind, and the answers to its requests.                                *)
(***************************************************************************)
EXTENDS RelayServer, SequenceTheorems, FiniteSetTheorems, TLAPS

USE DEF sessionVars, relayVars, askVars

\* The two constructors build messages.
LEMMA MessageType ==
  /\ \A k \in Nat : Push(k) \in Message
  /\ \A kind \in ControlKinds : Control(kind) \in Message /\ Control(kind).kind # "push"
  /\ {"ok", "denied", "pong", "ping"} \subseteq ControlKinds
BY DEF Push, Control, Message, ControlKinds

-----------------------------------------------------------------------------
\* Type correctness.

\* The first state is of the right type.
LEMMA TypeInit == Init => TypeOK
<1> SUFFICES ASSUME Init PROVE TypeOK
  OBVIOUS
<1>1. 0 \in Ids
  BY RelayAssumption DEF Ids
<1>2. <<>> \in Seq(Message) /\ <<>> \in Seq(Relay)
  OBVIOUS
<1> QED BY <1>1, <1>2 DEF Init, TypeOK, Pcs

\* Each step keeps the types.
LEMMA TypeStep == TypeOK /\ [Next]_vars => TypeOK'
<1> SUFFICES ASSUME TypeOK, [Next]_vars PROVE TypeOK'
  OBVIOUS
<1> USE DEF TypeOK, Goto, Pcs, Present, InRun, InSelect
<1>1. ASSUME NEW s \in Sessions, Accept(s) PROVE TypeOK'
  BY <1>1 DEF Accept
<1>2. ASSUME NEW s \in Sessions, TlsFail(s) PROVE TypeOK'
  BY <1>2 DEF TlsFail
<1>3. ASSUME NEW s \in Sessions, StartSession(s) PROVE TypeOK'
  <2>1. NextId \in Ids /\ FetchAdd(NextId) \in Ids
    BY RelayAssumption DEF NextId, FetchAdd, Ids
  <2> QED BY <1>3, <2>1 DEF StartSession
<1>4. ASSUME NEW s \in Sessions, Register(s) PROVE TypeOK'
  BY <1>4 DEF Register
<1>5. ASSUME NEW s \in Sessions, ReadEnds(s) PROVE TypeOK'
  BY <1>5 DEF ReadEnds, Leave
<1>6. ASSUME NEW s \in Sessions, WriteEnds(s) PROVE TypeOK'
  BY <1>6 DEF WriteEnds, Leave
<1>7. ASSUME NEW s \in Sessions, ShutdownRecv(s) PROVE TypeOK'
  BY <1>7 DEF ShutdownRecv, Leave
<1>8. ASSUME NEW s \in Sessions, Deregister(s) PROVE TypeOK'
  BY <1>8 DEF Deregister
<1>9. ASSUME NEW s \in Sessions, PingTick(s) PROVE TypeOK'
  BY <1>9, MessageType DEF PingTick, SendMessage
<1>10. ASSUME NEW s \in Sessions, RecvPing(s) PROVE TypeOK'
  BY <1>10, MessageType DEF RecvPing, SendMessage
<1>11. ASSUME NEW s \in Sessions, RecvRequest(s) PROVE TypeOK'
  <2>1. asked' \in [Sessions -> Nat]
    BY <1>11 DEF RecvRequest
  <2>2. CASE SendMessage(s, Control("denied")) /\ UNCHANGED <<pc, granted>>
    BY <1>11, <2>1, <2>2, MessageType DEF RecvRequest, SendMessage
  <2>3. CASE /\ granted' = [granted EXCEPT ![s] = @ + 1]
             /\ Goto(s, "locking") /\ UNCHANGED sent
    BY <1>11, <2>1, <2>3 DEF RecvRequest
  <2> QED BY <1>11, <2>2, <2>3 DEF RecvRequest
<1>12. ASSUME NEW s \in Sessions, Lock(s) PROVE TypeOK'
  <2>1. Audience(s) \in SUBSET Sessions
    BY DEF Audience
  <2>2. [by |-> s, audience |-> Audience(s), state |-> "busy"] \in Relay
    BY <2>1 DEF Relay
  <2> QED BY <1>12, <2>1, <2>2 DEF Lock
<1>13. ASSUME NEW s \in Sessions, NEW t \in Sessions, RelaySend(s, t) PROVE TypeOK'
  BY <1>13, MessageType DEF RelaySend, SendMessage
<1>14. ASSUME NEW s \in Sessions, NEW o \in {"complete", "failed"}, Settle(s, o)
       PROVE  /\ relays' \in Seq(Relay)
              /\ holder' \in Sessions \cup {None}
              /\ todo' \in [Sessions -> SUBSET Sessions]
              /\ cur' \in [Sessions -> Nat]
  <2>1. CASE cur[s] \in 1..Len(relays)
    <3> DEFINE r == [relays[cur[s]] EXCEPT !.state = o]
    <3>0. relays[cur[s]] \in Relay
      BY <2>1
    <3>1. r \in Relay
      BY <3>0 DEF Relay
    <3>2. relays' = [relays EXCEPT ![cur[s]] = r]
      BY <1>14 DEF Settle
    <3>3. relays' \in Seq(Relay)
      BY <2>1, <3>1, <3>2, ExceptSeq
    <3> QED BY <1>14, <3>3 DEF Settle
  <2>2. CASE cur[s] \notin 1..Len(relays)
    <3>1. relays' = relays
      BY <1>14, <2>2 DEF Settle
    <3> QED BY <1>14, <3>1 DEF Settle
  <2> QED BY <2>1, <2>2
<1>15. ASSUME NEW s \in Sessions, NEW t \in Sessions, RelayFail(s, t) PROVE TypeOK'
  BY <1>14, <1>15 DEF RelayFail, Leave
<1>16. ASSUME NEW s \in Sessions, RelayDone(s) PROVE TypeOK'
  BY <1>14, <1>16 DEF RelayDone
<1>17. ASSUME NEW s \in Sessions, Respond(s) PROVE TypeOK'
  BY <1>17, MessageType DEF Respond, SendMessage
<1>18. ASSUME Stop \/ Finish \/ ForceExit PROVE TypeOK'
  BY <1>18 DEF Stop, Finish, ForceExit
<1>19. ASSUME UNCHANGED vars PROVE TypeOK'
  BY <1>19 DEF vars
<1> QED BY <1>1, <1>2, <1>3, <1>4, <1>5, <1>6, <1>7, <1>8, <1>9, <1>10, <1>11,
           <1>12, <1>13, <1>15, <1>16, <1>17, <1>18, <1>19
        DEF Next, Session, Begin, RelayStep

\* Every reachable state of the server is well typed.
THEOREM TypeCorrect == Spec => []TypeOK
BY TypeInit, TypeStep, PTL DEF Spec

-----------------------------------------------------------------------------
\* The registry.

\* Ids are handed out in increasing order until the counter overflows, so no
\* two sessions share one; an entry of the registry carries the id of a session
\* that is present.
RegistryInv ==
  /\ \A s \in Sessions : pc[s] \in {"free", "accepted"} => id[s] = 0
  /\ \A s \in Sessions : pc[s] \in Present \cup {"starting"} => id[s] > 0
  /\ wraps = 0 => \A s \in Sessions : id[s] > 0 => id[s] < counter
  /\ wraps = 0 => \A s, t \in Sessions : s # t /\ id[s] > 0 => id[s] # id[t]
  /\ \A i \in Ids : players[i] # None =>
        pc[players[i]] \in Present /\ id[players[i]] = i
  /\ wraps = 0 => \A s \in Sessions : pc[s] \in Present => players[id[s]] = s

\* At start no id is given and the registry is empty.
LEMMA RegistryInit == Init => RegistryInv
BY RelayAssumption DEF Init, RegistryInv, Ids, Present, InRun, InSelect

\* A step that leaves ids and registry alone and moves sessions only within
\* Present, or before their start, keeps the invariant.
RegistryQuiet ==
  /\ id' = id /\ counter' = counter /\ wraps' = wraps /\ players' = players
  /\ \A s \in Sessions :
        \/ pc'[s] = pc[s]
        \/ pc[s] \in Present /\ pc'[s] \in Present
        \/ pc[s] = "free" /\ pc'[s] = "accepted"
        \/ pc[s] = "accepted" /\ pc'[s] = "done"

\* A step that is quiet about the registry keeps RegistryInv.
LEMMA RegistryFrame == TypeOK /\ RegistryInv /\ RegistryQuiet => RegistryInv'
<1> SUFFICES ASSUME TypeOK, RegistryInv, RegistryQuiet PROVE RegistryInv'
  OBVIOUS
<1> USE DEF RegistryInv, RegistryQuiet
<1>1. \A s \in Sessions : pc'[s] \in Present <=> pc[s] \in Present
  BY DEF Present, InRun, InSelect
<1>2. \A s \in Sessions : pc'[s] \in {"free", "accepted"} => id'[s] = 0
  BY DEF Present, InRun, InSelect
<1>3. \A s \in Sessions : pc'[s] \in Present \cup {"starting"} => id'[s] > 0
  BY DEF Present, InRun, InSelect
<1>4. \A i \in Ids : players'[i] # None =>
        pc'[players'[i]] \in Present /\ id'[players'[i]] = i
  BY <1>1 DEF TypeOK
<1> QED BY <1>1, <1>2, <1>3, <1>4

\* Each step keeps RegistryInv: an id is given, entered or removed.
LEMMA RegistryStep == TypeOK /\ RegistryInv /\ [Next]_vars => RegistryInv'
<1> SUFFICES ASSUME TypeOK, RegistryInv, [Next]_vars PROVE RegistryInv'
  OBVIOUS
<1>1. ASSUME NEW s \in Sessions, Accept(s) \/ TlsFail(s) PROVE RegistryInv'
  <2>1. RegistryQuiet
    BY <1>1 DEF RegistryQuiet, Accept, TlsFail, Goto, TypeOK
  <2> QED BY <2>1, RegistryFrame
<1>2. ASSUME NEW s \in Sessions, StartSession(s) PROVE RegistryInv'
  <2>1. /\ id' = [id EXCEPT ![s] = NextId] /\ id \in [Sessions -> Ids]
        /\ pc' = [pc EXCEPT ![s] = "starting"] /\ pc \in [Sessions -> Pcs]
        /\ pc[s] = "accepted" /\ id[s] = 0
        /\ UNCHANGED players /\ players \in [Ids -> Sessions \cup {None}]
    BY <1>2 DEF StartSession, Goto, TypeOK, RegistryInv
  <2>2. NextId \in Ids /\ NextId > 0 /\ counter \in Ids
    BY RelayAssumption DEF NextId, Ids, TypeOK
  <2>3. \A i \in Ids : players[i] # s
    BY <2>1, RelayAssumption DEF RegistryInv, Present, InRun, InSelect
  <2>4. wraps' = 0 => /\ wraps = 0 /\ counter' = NextId + 1
                     /\ \A t \in Sessions : id[t] < NextId
    <3>1. wraps' = 0 => wraps = 0 /\ counter' # 0
      BY <1>2 DEF StartSession, TypeOK
    <3>2. counter' # 0 => counter' = NextId + 1
      BY <1>2 DEF StartSession, FetchAdd
    <3>3. ASSUME wraps = 0, NEW t \in Sessions PROVE id[t] < NextId
      <4>1. id[t] > 0 => id[t] < counter
        BY <3>3 DEF RegistryInv
      <4>2. id[t] \in Nat /\ counter \in Nat
        BY RelayAssumption DEF TypeOK, Ids
      <4> QED BY <4>1, <4>2 DEF NextId
    <3> QED BY <3>1, <3>2, <3>3
  <2> QED BY <2>1, <2>2, <2>3, <2>4
          DEF RegistryInv, Present, InRun, InSelect, Ids
<1>3. ASSUME NEW s \in Sessions, Register(s) PROVE RegistryInv'
  BY <1>3, RelayAssumption
     DEF Register, Goto, TypeOK, RegistryInv, Present, InRun, InSelect
<1>4. ASSUME NEW s \in Sessions, NEW l \in Present, pc[s] \in Present, Goto(s, l),
             UNCHANGED <<id, counter, wraps, players>>
      PROVE  RegistryInv'
  <2>1. RegistryQuiet
    BY <1>4 DEF RegistryQuiet, Goto, TypeOK
  <2> QED BY <2>1, RegistryFrame
<1>5. ASSUME NEW s \in Sessions, ReadEnds(s) \/ WriteEnds(s) \/ ShutdownRecv(s)
      PROVE  RegistryInv'
  BY <1>4, <1>5 DEF ReadEnds, WriteEnds, ShutdownRecv, Leave, Present, InRun, InSelect
<1>6. ASSUME NEW s \in Sessions, Deregister(s) PROVE RegistryInv'
  BY <1>6, RelayAssumption
     DEF Deregister, Goto, TypeOK, RegistryInv, Present, InRun, InSelect
<1>7. ASSUME NEW s \in Sessions, NEW t \in Sessions,
             PingTick(s) \/ RecvPing(s) \/ RelaySend(s, t)
      PROVE  RegistryInv'
  <2>1. RegistryQuiet
    BY <1>7 DEF RegistryQuiet, PingTick, RecvPing, RelaySend
  <2> QED BY <2>1, RegistryFrame
<1>8. ASSUME NEW s \in Sessions, RecvRequest(s) PROVE RegistryInv'
  <2>1. CASE UNCHANGED pc
    <3>1. RegistryQuiet
      BY <1>8, <2>1 DEF RegistryQuiet, RecvRequest
    <3> QED BY <3>1, RegistryFrame
  <2>2. CASE Goto(s, "locking")
    BY <1>8, <2>2, <1>4 DEF RecvRequest, Present, InRun, InSelect
  <2> QED BY <1>8, <2>1, <2>2 DEF RecvRequest
<1>9. ASSUME NEW s \in Sessions, NEW t \in Sessions,
             Lock(s) \/ RelayFail(s, t) \/ RelayDone(s) \/ Respond(s)
      PROVE  RegistryInv'
  BY <1>4, <1>9 DEF Lock, RelayFail, RelayDone, Respond, Leave, Present, InRun, InSelect
<1>10. ASSUME Stop \/ Finish \/ ForceExit \/ UNCHANGED vars PROVE RegistryInv'
  <2>1. RegistryQuiet
    BY <1>10 DEF RegistryQuiet, Stop, Finish, ForceExit, vars
  <2> QED BY <2>1, RegistryFrame
<1> QED BY <1>1, <1>2, <1>3, <1>5, <1>6, <1>7, <1>8, <1>9, <1>10
        DEF Next, Session, Begin, RelayStep

\* Until the id counter overflows, the registry holds exactly the present
\* sessions; overflow or not, it holds no session that has gone.
THEOREM RegistryCorrect == Spec => [](RegistryExact /\ NoDeadEntry)
<1>1. TypeOK /\ RegistryInv => RegistryExact /\ NoDeadEntry
  BY DEF TypeOK, RegistryInv, RegistryExact, NoDeadEntry
<1> QED BY TypeInit, TypeStep, RegistryInit, RegistryStep, <1>1, PTL DEF Spec

\* A session that has gone has no entry in the registry and no ping task, be it
\* one that was given an id twice.
THEOREM SessionsLeaveCorrect == Spec => []SessionsLeave
<1>1. Init => PingTaskEnds
  BY DEF Init, PingTaskEnds
<1>2. TypeOK /\ PingTaskEnds /\ [Next]_vars => PingTaskEnds'
  <2> SUFFICES ASSUME TypeOK, PingTaskEnds, [Next]_vars PROVE PingTaskEnds'
    OBVIOUS
  <2> USE DEF TypeOK, PingTaskEnds, Open, InRun, InSelect, Goto
  <2>1. ASSUME NEW s \in Sessions, Accept(s) \/ TlsFail(s) \/ Deregister(s)
        PROVE  PingTaskEnds'
    BY <2>1 DEF Accept, TlsFail, Deregister
  <2>2. ASSUME NEW s \in Sessions, StartSession(s) \/ Register(s) PROVE PingTaskEnds'
    BY <2>2 DEF StartSession, Register
  <2>3. ASSUME NEW s \in Sessions, Leave(s) PROVE PingTaskEnds'
    BY <2>3 DEF Leave
  <2>4. ASSUME NEW s \in Sessions, RecvRequest(s) \/ Lock(s) \/ RelayDone(s) \/ Respond(s)
        PROVE  PingTaskEnds'
    BY <2>4 DEF RecvRequest, Lock, RelayDone, Respond
  <2>5. ASSUME UNCHANGED <<pc, pinging>> PROVE PingTaskEnds'
    BY <2>5
  <2> QED BY <2>1, <2>2, <2>3, <2>4, <2>5
          DEF Next, Session, Begin, RelayStep, ReadEnds, WriteEnds, ShutdownRecv, PingTick,
              RecvPing, RelaySend, RelayFail, Stop, Finish, ForceExit, vars
<1>3. NoDeadEntry /\ PingTaskEnds => SessionsLeave
  BY DEF SessionsLeave
<1> QED BY TypeInit, TypeStep, RegistryCorrect, <1>1, <1>2, <1>3, PTL DEF Spec

-----------------------------------------------------------------------------
\* The answers: what a channel was given, counted by kind.

\* The messages of a kind in a sequence are finitely many.
LEMMA TallyType == ASSUME NEW q \in Seq(Message), NEW kind PROVE Tally(q, kind) \in Nat
<1>1. IsFiniteSet(1..Len(q))
  BY FS_Interval
<1>2. IsFiniteSet({i \in 1..Len(q) : q[i].kind = kind})
  BY <1>1, FS_Subset
<1> QED BY <1>2, FS_CardinalityType DEF Tally

\* One more message counts one more of its kind.
LEMMA TallyAppend ==
  ASSUME NEW q \in Seq(Message), NEW m \in Message, NEW kind
  PROVE  Tally(Append(q, m), kind) = Tally(q, kind) + (IF m.kind = kind THEN 1 ELSE 0)
<1> DEFINE n == Len(q)
           r == Append(q, m)
           S == {i \in 1..n : q[i].kind = kind}
           T == {i \in 1..Len(r) : r[i].kind = kind}
<1>1. n \in Nat /\ Len(r) = n + 1 /\ r[n + 1] = m /\ \A i \in 1..n : r[i] = q[i]
  OBVIOUS
<1>2. Tally(q, kind) = Cardinality(S) /\ Tally(r, kind) = Cardinality(T)
  BY DEF Tally
<1>3. IsFiniteSet(S) /\ n + 1 \notin S
  <2>1. IsFiniteSet(1..n)
    BY <1>1, FS_Interval
  <2>2. S \in SUBSET (1..n)
    OBVIOUS
  <2>3. n + 1 \notin 1..n
    BY <1>1
  <2> QED BY <2>1, <2>2, <2>3, FS_Subset
<1>4. Cardinality(S \cup {n + 1}) = Cardinality(S) + 1
  BY <1>3, FS_AddElement
<1> HIDE DEF n, r
<1>5. \A i : i \in T <=> (i \in S \/ (i = n + 1 /\ m.kind = kind))
  <2>1. \A i : i \in 1..n + 1 <=> (i \in 1..n \/ i = n + 1)
    BY <1>1
  <2>2. n + 1 \notin 1..n
    BY <1>1
  <2> QED BY <1>1, <2>1, <2>2
<1>6. (m.kind = kind => T = S \cup {n + 1}) /\ (m.kind # kind => T = S)
  <2> HIDE DEF S, T
  <2> QED BY <1>5
<1>7. Cardinality(S) \in Nat
  BY <1>3, FS_CardinalityType
<1> HIDE DEF S, T
<1>8. Tally(r, kind) = Tally(q, kind) + (IF m.kind = kind THEN 1 ELSE 0)
  <2>1. CASE m.kind = kind
    BY <1>2, <1>4, <1>6, <1>7, <2>1
  <2>2. CASE m.kind # kind
    BY <1>2, <1>6, <1>7, <2>2
  <2> QED BY <2>1, <2>2
<1> QED BY <1>8 DEF r

\* A message sent counts one more of its kind in its own channel, and none elsewhere.
LEMMA CountSend ==
  ASSUME TypeOK, NEW s \in Sessions, NEW t \in Sessions, NEW m \in Message,
         SendMessage(t, m), NEW kind
  PROVE  /\ Count(s, kind) \in Nat
         /\ Count(s, kind)' = Count(s, kind) + (IF s = t /\ m.kind = kind THEN 1 ELSE 0)
<1>1. Count(s, kind) \in Nat
  BY TallyType DEF TypeOK, Count
<1>2. CASE s # t
  BY <1>1, <1>2 DEF Count, SendMessage, TypeOK
<1>3. CASE s = t
  <2>1. sent'[s] = Append(sent[s], m) /\ sent[s] \in Seq(Message)
    BY <1>3 DEF SendMessage, TypeOK
  <2> QED BY <1>1, <1>3, <2>1, TallyAppend DEF Count
<1> QED BY <1>1, <1>2, <1>3

\* A session owes an answer from the request it granted to the end of its handler.
Square == {"free", "accepted", "starting", "running"}
Owing == {"locking", "relaying", "responding"}

AnswerOf(l, ok, denied, a, g) ==
  /\ denied = a - g
  /\ ok <= g /\ g <= ok + 1
  /\ l \in Square => g = ok
  /\ l \in Owing => g = ok + 1

AnswerInv == \A s \in Sessions :
  AnswerOf(pc[s], Count(s, "ok"), Count(s, "denied"), asked[s], granted[s])

\* At start nothing is asked, granted or answered.
LEMMA AnswerInit == Init => AnswerInv
<1> SUFFICES ASSUME Init, NEW s \in Sessions
             PROVE  AnswerOf(pc[s], Count(s, "ok"), Count(s, "denied"), asked[s], granted[s])
  BY DEF AnswerInv
<1>1. Len(sent[s]) = 0
  BY DEF Init
<1>2. \A kind : {i \in 1..Len(sent[s]) : sent[s][i].kind = kind} = {}
  BY <1>1
<1>3. \A kind : Count(s, kind) = 0
  BY <1>2, FS_EmptySet DEF Count, Tally
<1> QED BY <1>3 DEF Init, AnswerOf, Square, Owing

\* Moving on changes nothing as long as it neither settles nor runs up a debt.
LEMMA AnswerMove ==
  ASSUME TypeOK, AnswerInv, NEW s \in Sessions, NEW l, Goto(s, l), UNCHANGED <<sent, askVars>>,
         l \in Square => pc[s] \in Square, l \in Owing => pc[s] \in Owing
  PROVE  AnswerInv'
BY DEF TypeOK, AnswerInv, AnswerOf, Goto, Count

\* Nor does a message that answers nothing.
LEMMA AnswerQuiet ==
  ASSUME TypeOK, AnswerInv, NEW t \in Sessions, NEW m \in Message, SendMessage(t, m),
         m.kind \notin {"ok", "denied"}, UNCHANGED <<pc, askVars>>
  PROVE  AnswerInv'
<1>1. \A s \in Sessions : /\ Count(s, "ok")' = Count(s, "ok")
                          /\ Count(s, "denied")' = Count(s, "denied")
  BY CountSend
<1> QED BY <1>1 DEF AnswerInv

\* Each step of a handler keeps the balance of requests and answers.
LEMMA AnswerStep == TypeOK /\ AnswerInv /\ [Next]_vars => AnswerInv'
<1> SUFFICES ASSUME TypeOK, AnswerInv, [Next]_vars PROVE AnswerInv'
  OBVIOUS
<1> USE DEF Square, Owing
<1>1. ASSUME NEW s \in Sessions, Accept(s) \/ TlsFail(s) \/ StartSession(s) \/ Register(s)
      PROVE  AnswerInv'
  BY <1>1, AnswerMove DEF Accept, TlsFail, StartSession, Register
<1>2. ASSUME NEW s \in Sessions, ReadEnds(s) \/ WriteEnds(s) \/ ShutdownRecv(s) \/ Deregister(s)
      PROVE  AnswerInv'
  BY <1>2, AnswerMove DEF ReadEnds, WriteEnds, ShutdownRecv, Leave, Deregister
<1>3. ASSUME NEW s \in Sessions, PingTick(s) \/ RecvPing(s) PROVE AnswerInv'
  BY <1>3, AnswerQuiet, MessageType DEF PingTick, RecvPing, Control
<1>4. ASSUME NEW s \in Sessions, RecvRequest(s) PROVE AnswerInv'
  <2>0. /\ pc[s] = "running" /\ asked' = [asked EXCEPT ![s] = @ + 1]
        /\ asked \in [Sessions -> Nat] /\ granted \in [Sessions -> Nat]
        /\ pc \in [Sessions -> Pcs]
    BY <1>4 DEF RecvRequest, TypeOK
  <2>1. CASE /\ granted' = [granted EXCEPT ![s] = @ + 1]
             /\ Goto(s, "locking") /\ UNCHANGED sent
    <3>1. \A t \in Sessions : Count(t, "ok") \in Nat /\ Count(t, "denied") \in Nat
      BY TallyType DEF Count, TypeOK
    <3>2. \A t \in Sessions : /\ Count(t, "ok")' = Count(t, "ok")
                              /\ Count(t, "denied")' = Count(t, "denied")
      BY <2>1 DEF Count
    <3> QED BY <2>0, <2>1, <3>1, <3>2 DEF Goto, AnswerInv, AnswerOf
  <2>2. CASE SendMessage(s, Control("denied")) /\ UNCHANGED <<pc, granted>>
    <3>1. Control("denied") \in Message /\ Control("denied").kind = "denied"
      BY MessageType DEF Control
    <3>2. \A t \in Sessions :
             /\ Count(t, "ok")' = Count(t, "ok") /\ Count(t, "ok") \in Nat
             /\ Count(t, "denied") \in Nat
             /\ Count(t, "denied")' = Count(t, "denied") + (IF t = s THEN 1 ELSE 0)
      BY <2>2, <3>1, CountSend
    <3> QED BY <2>0, <2>2, <3>2 DEF AnswerInv, AnswerOf
  <2> QED BY <1>4, <2>1, <2>2 DEF RecvRequest
<1>5. ASSUME NEW s \in Sessions, Lock(s) \/ RelayDone(s) PROVE AnswerInv'
  BY <1>5, AnswerMove DEF Lock, RelayDone
<1>6. ASSUME NEW s \in Sessions, NEW t \in Sessions, RelaySend(s, t) PROVE AnswerInv'
  <2>1. Push(cur[s]) \in Message /\ Push(cur[s]).kind = "push"
    BY MessageType DEF Push, TypeOK
  <2> QED BY <1>6, <2>1, AnswerQuiet DEF RelaySend
<1>7. ASSUME NEW s \in Sessions, NEW t \in Sessions, RelayFail(s, t) PROVE AnswerInv'
  BY <1>7, AnswerMove DEF RelayFail, Leave
<1>8. ASSUME NEW s \in Sessions, Respond(s) PROVE AnswerInv'
  <2>1. Control("ok") \in Message /\ Control("ok").kind = "ok"
    BY MessageType DEF Control
  <2>2. \A t \in Sessions :
           /\ Count(t, "denied")' = Count(t, "denied") /\ Count(t, "ok") \in Nat
           /\ Count(t, "ok")' = Count(t, "ok") + (IF t = s THEN 1 ELSE 0)
    BY <1>8, <2>1, CountSend DEF Respond
  <2>3. /\ pc[s] = "responding" /\ pc' = [pc EXCEPT ![s] = "running"] /\ pc \in [Sessions -> Pcs]
        /\ UNCHANGED askVars /\ granted \in [Sessions -> Nat]
    BY <1>8 DEF Respond, Goto, TypeOK
  <2> QED BY <2>2, <2>3 DEF AnswerInv, AnswerOf
<1>9. ASSUME UNCHANGED <<pc, sent, askVars>> PROVE AnswerInv'
  BY <1>9 DEF AnswerInv, Count
<1> QED BY <1>1, <1>2, <1>3, <1>4, <1>5, <1>6, <1>7, <1>8, <1>9
        DEF Next, Session, Begin, RelayStep, Stop, Finish, ForceExit, vars

\* Every request a session has read is answered, in kind, before it reads the
\* next frame; a session that was cut off owes at most its last answer.
THEOREM AnswersCorrect == Spec => []AnswersMatch
<1>1. AnswerInv => AnswersMatch
  BY DEF AnswerInv, AnswerOf, AnswersMatch, Square
<1> QED BY TypeInit, TypeStep, AnswerInit, AnswerStep, <1>1, PTL DEF Spec

-----------------------------------------------------------------------------
\* The fields of the recorded broadcasts.
LEMMA RelaysType ==
  ASSUME TypeOK
  PROVE  /\ relays \in Seq(Relay) /\ Len(relays) \in Nat
         /\ \A k \in 1..Len(relays) : /\ relays[k] \in Relay
                                      /\ relays[k].by \in Sessions
                                      /\ relays[k].audience \subseteq Sessions
<1>1. relays \in Seq(Relay) /\ Len(relays) \in Nat
  BY DEF TypeOK
<1>2. \A k \in 1..Len(relays) : relays[k] \in Relay
  BY <1>1
<1> QED BY <1>1, <1>2 DEF Relay

-----------------------------------------------------------------------------
\* What a step does to Got.

\* With nothing sent, the same sessions have the same pushes.
LEMMA GotSame ==
  UNCHANGED sent => \A u \in Sessions, k \in Nat : Got(u, k)' <=> Got(u, k)
BY DEF Got

\* A message sent adds at most itself to what its session has.
LEMMA GotSend ==
  ASSUME TypeOK, NEW t \in Sessions, NEW m \in Message, SendMessage(t, m)
  PROVE  \A u \in Sessions, k \in Nat :
            Got(u, k)' <=> Got(u, k) \/ (u = t /\ m = Push(k))
<1> SUFFICES ASSUME NEW u \in Sessions, NEW k \in Nat
             PROVE  Got(u, k)' <=> Got(u, k) \/ (u = t /\ m = Push(k))
  OBVIOUS
<1>1. sent \in [Sessions -> Seq(Message)]
  BY DEF TypeOK
<1>2. CASE u # t
  BY <1>1, <1>2 DEF Got, SendMessage
<1>3. CASE u = t
  <2>1. sent'[t] = Append(sent[t], m) /\ sent[t] \in Seq(Message)
    BY <1>1 DEF SendMessage
  <2>2. /\ Len(sent'[t]) = Len(sent[t]) + 1 /\ Len(sent[t]) \in Nat
        /\ \A i \in 1..Len(sent[t]) : sent'[t][i] = sent[t][i]
        /\ sent'[t][Len(sent[t]) + 1] = m
    BY <2>1
  <2> DEFINE n == Len(sent[t])
  <2>3. ASSUME NEW i \in 1..Len(sent'[t]), sent'[t][i] = Push(k)
        PROVE  Got(t, k) \/ m = Push(k)
    <3>1. CASE i \in 1..n
      BY <2>2, <2>3, <3>1 DEF Got
    <3>2. CASE i = n + 1
      BY <2>2, <2>3, <3>2
    <3> QED BY <2>2, <3>1, <3>2
  <2>4. ASSUME NEW i \in 1..n, sent[t][i] = Push(k) PROVE Got(t, k)'
    <3>1. i \in 1..Len(sent'[t]) /\ sent'[t][i] = Push(k)
      BY <2>2, <2>4
    <3> QED BY <3>1 DEF Got, Push
  <2>5. ASSUME m = Push(k) PROVE Got(t, k)'
    <3>1. n + 1 \in 1..Len(sent'[t]) /\ sent'[t][n + 1] = Push(k)
      BY <2>2, <2>5
    <3> QED BY <3>1 DEF Got, Push
  <2>6. Got(t, k)' => Got(t, k) \/ m = Push(k)
    BY <2>3 DEF Got, Push
  <2>7. Got(t, k) => Got(t, k)'
    BY <2>4 DEF Got
  <2> QED BY <1>3, <2>5, <2>6, <2>7
<1> QED BY <1>2, <1>3

\* The pushes of two broadcasts differ.
LEMMA PushInjective ==
  ASSUME NEW j, NEW k, Push(j) = Push(k) PROVE j = k
<1>1. Push(j).n = j /\ Push(k).n = k
  BY DEF Push
<1> QED BY <1>1

\* An answer, ping or pong is no push.
LEMMA ControlNoPush ==
  ASSUME NEW kind \in ControlKinds, NEW k PROVE Control(kind) # Push(k)
<1>1. Push(k).kind = "push" /\ Control(kind).kind = kind
  BY DEF Push, Control
<1> QED BY <1>1 DEF ControlKinds

-----------------------------------------------------------------------------
\* The broadcast in progress belongs to the holder of the mutex and is the
\* latest; the players it has yet to visit stay present, for leaving needs the
\* mutex, and have not got its event.
LockInv ==
  /\ \A s \in Sessions : pc[s] = "relaying" <=> holder = s
  /\ \A s \in Sessions : pc[s] = "relaying" =>
        /\ cur[s] = Len(relays) /\ cur[s] > 0
        /\ relays[cur[s]].by = s
        /\ relays[cur[s]].state = "busy"
        /\ todo[s] \subseteq relays[cur[s]].audience
        /\ \A t \in relays[cur[s]].audience : t \in todo[s] \/ Got(t, cur[s])
  /\ \A s \in Sessions : pc[s] # "relaying" => todo[s] = {}
  /\ \A s \in Sessions : \A t \in todo[s] :
        t # s /\ pc[t] \in Present /\ ~Got(t, cur[s])
  /\ \A t \in Sessions, k \in Nat : Got(t, k) => k \in 1..Len(relays)

\* RelayOutcome, with the missed player pinned down: its task is past select!.
OutcomeInv ==
  \A k \in 1..Len(relays) :
     /\ relays[k].state = "complete" => \A t \in relays[k].audience : Got(t, k)
     /\ relays[k].state = "failed" =>
           \E t \in relays[k].audience : ~Got(t, k) /\ pc[t] \in {"closing", "done"}

PushInv == TypeOK /\ RegistryInv /\ LockInv /\ OutcomeInv

\* At start nothing is broadcast and the mutex is free.
LEMMA PushInit == Init => LockInv /\ OutcomeInv
BY RelayAssumption DEF Init, LockInv, OutcomeInv, Got

\* Steps that leave the broadcasts and the pushed events alone, and let no
\* session leave Present while the mutex is held.
PushQuiet ==
  /\ holder' = holder /\ todo' = todo /\ cur' = cur /\ relays' = relays
  /\ \A u \in Sessions, k \in Nat : Got(u, k)' <=> Got(u, k)
  /\ \A s \in Sessions : pc'[s] = "relaying" <=> pc[s] = "relaying"
  /\ \A s \in Sessions : pc[s] \in Present => pc'[s] \in Present \/ holder = None
  /\ \A s \in Sessions : pc[s] \in {"closing", "done"} => pc'[s] \in {"closing", "done"}

\* A step that is quiet about broadcasts keeps both invariants.
LEMMA PushFrame == PushInv /\ PushQuiet => LockInv' /\ OutcomeInv'
<1> SUFFICES ASSUME PushInv, PushQuiet PROVE LockInv' /\ OutcomeInv'
  OBVIOUS
<1> USE DEF PushInv
<1>1. /\ todo \in [Sessions -> SUBSET Sessions] /\ cur \in [Sessions -> Nat]
      /\ Len(relays) \in Nat
      /\ \A k \in 1..Len(relays) : relays[k].audience \in SUBSET Sessions
  BY RelaysType DEF TypeOK
<1>2. ASSUME NEW s \in Sessions, NEW t \in todo[s] PROVE pc'[t] \in Present
  <2>1. pc[s] = "relaying" /\ pc[t] \in Present /\ t \in Sessions
    BY <1>1, <1>2 DEF LockInv
  <2>2. holder = s /\ holder # None
    BY <2>1, RelayAssumption DEF LockInv
  <2> QED BY <2>1, <2>2 DEF PushQuiet
<1>3. LockInv'
  BY <1>1, <1>2 DEF LockInv, PushQuiet
<1>4. OutcomeInv'
  BY <1>1 DEF OutcomeInv, PushQuiet
<1> QED BY <1>3, <1>4

\* Everything but the four steps of a broadcast is quiet.
LEMMA QuietSteps ==
  ASSUME PushInv, NEW s \in Sessions,
         \/ Accept(s) \/ Begin(s) \/ Register(s)
         \/ ReadEnds(s) \/ WriteEnds(s) \/ ShutdownRecv(s) \/ Deregister(s)
         \/ PingTick(s) \/ RecvPing(s) \/ RecvRequest(s) \/ Respond(s)
  PROVE  PushQuiet
<1> USE DEF PushInv
<1>1. /\ pc \in [Sessions -> Pcs]
      /\ \A kind \in ControlKinds, k \in Nat : Control(kind) # Push(k)
  BY ControlNoPush DEF TypeOK
<1>2. ASSUME NEW kind \in {"ok", "denied", "pong", "ping"},
             SendMessage(s, Control(kind))
      PROVE  \A u \in Sessions, k \in Nat : Got(u, k)' <=> Got(u, k)
  BY <1>1, <1>2, GotSend, MessageType
<1> USE DEF PushQuiet, Goto, Leave, Present, InRun, InSelect
<1>3. CASE Accept(s) \/ Begin(s) \/ Register(s)
  BY <1>1, <1>3, GotSame DEF Accept, Begin, TlsFail, StartSession, Register
<1>4. CASE ReadEnds(s) \/ WriteEnds(s) \/ ShutdownRecv(s) \/ Deregister(s)
  BY <1>1, <1>4, GotSame DEF ReadEnds, WriteEnds, ShutdownRecv, Deregister
<1>5. CASE PingTick(s) \/ RecvPing(s) \/ Respond(s)
  BY <1>1, <1>2, <1>5 DEF PingTick, RecvPing, Respond
<1>6. CASE RecvRequest(s)
  <2>1. CASE Goto(s, "locking") /\ UNCHANGED sent
    BY <1>1, <1>6, <2>1, GotSame DEF RecvRequest
  <2>2. CASE SendMessage(s, Control("denied")) /\ UNCHANGED pc
    BY <1>1, <1>2, <1>6, <2>2 DEF RecvRequest
  <2> QED BY <1>6, <2>1, <2>2 DEF RecvRequest
<1> QED BY <1>3, <1>4, <1>5, <1>6

\* What Append does to the length and the elements of a sequence.
LEMMA Appended ==
  ASSUME NEW S, NEW q \in Seq(S), NEW e \in S
  PROVE  /\ Len(Append(q, e)) = Len(q) + 1
         /\ \A k \in 1..Len(q) : Append(q, e)[k] = q[k]
         /\ Append(q, e)[Len(q) + 1] = e
OBVIOUS

\* A new broadcast is the latest, and nobody has its event yet.
LEMMA LockStep ==
  ASSUME PushInv, NEW s \in Sessions, Lock(s) PROVE LockInv' /\ OutcomeInv'
<1> USE DEF PushInv
<1> DEFINE A == Audience(s)
           r == [by |-> s, audience |-> A, state |-> "busy"]
<1>1. /\ relays \in Seq(Relay) /\ Len(relays) \in Nat
      /\ pc \in [Sessions -> Pcs] /\ todo \in [Sessions -> SUBSET Sessions]
      /\ cur \in [Sessions -> Nat]
  BY DEF TypeOK
<1>2. A \subseteq Sessions /\ \A t \in A : t # s /\ pc[t] \in Present
  BY DEF Audience, TypeOK, RegistryInv
<1>3. /\ Len(relays') = Len(relays) + 1
      /\ \A k \in 1..Len(relays) : relays'[k] = relays[k]
      /\ relays'[Len(relays) + 1] = r
  <2>1. r \in Relay
    BY <1>2 DEF Relay
  <2>2. relays' = Append(relays, r)
    BY DEF Lock
  <2> HIDE DEF r, A
  <2>3. relays \in Seq(Relay)
    BY <1>1
  <2>4. /\ Len(Append(relays, r)) = Len(relays) + 1
        /\ \A k \in 1..Len(relays) : Append(relays, r)[k] = relays[k]
        /\ Append(relays, r)[Len(relays) + 1] = r
    BY <2>1, <2>3, Appended
  <2> QED BY <2>2, <2>4
<1>4. /\ r.by = s /\ r.audience = A /\ r.state = "busy"
  OBVIOUS
<1>5. /\ \A u \in Sessions, k \in Nat : Got(u, k)' <=> Got(u, k)
      /\ \A u \in Sessions : ~Got(u, Len(relays) + 1)
  BY <1>1, GotSame DEF Lock, LockInv
<1>6. /\ pc' = [pc EXCEPT ![s] = "relaying"] /\ holder = None /\ holder' = s
      /\ todo' = [todo EXCEPT ![s] = A] /\ pc[s] = "locking"
      /\ cur' = [cur EXCEPT ![s] = Len(relays) + 1]
  BY DEF Lock, Goto
<1>7. \A u \in Sessions : pc[u] # "relaying" /\ todo[u] = {}
  BY <1>6, RelayAssumption DEF LockInv
<1> HIDE DEF r, A
<1>8. \A t \in A : pc'[t] = pc[t]
  BY <1>1, <1>2, <1>6
<1>9. LockInv'
  BY <1>1, <1>2, <1>3, <1>4, <1>5, <1>6, <1>7, <1>8 DEF LockInv
<1>10. \A t \in Sessions : pc[t] \in {"closing", "done"} => pc'[t] = pc[t]
  BY <1>1, <1>6
<1>11. \A k \in 1..Len(relays) : relays[k].audience \subseteq Sessions
  BY RelaysType
<1>12. OutcomeInv'
  BY <1>1, <1>3, <1>4, <1>5, <1>10, <1>11 DEF OutcomeInv
<1> QED BY <1>9, <1>12

\* The player visited gets the event and is struck off the list.
LEMMA SendStep ==
  ASSUME PushInv, NEW s \in Sessions, NEW t \in Sessions, RelaySend(s, t)
  PROVE  LockInv' /\ OutcomeInv'
<1> USE DEF PushInv
<1>1. /\ Len(relays) \in Nat /\ cur \in [Sessions -> Nat]
      /\ todo \in [Sessions -> SUBSET Sessions]
      /\ \A k \in 1..Len(relays) : relays[k].audience \subseteq Sessions
  BY RelaysType DEF TypeOK
<1>2. /\ pc[s] = "relaying" /\ t \in todo[s] /\ pc[t] \in Open
      /\ todo' = [todo EXCEPT ![s] = @ \ {t}]
      /\ pc' = pc /\ holder' = holder /\ cur' = cur /\ relays' = relays
  BY DEF RelaySend
<1>3. \A u \in Sessions, k \in Nat :
        Got(u, k)' <=> Got(u, k) \/ (u = t /\ k = cur[s])
  BY <1>1, MessageType, GotSend, PushInjective DEF RelaySend
<1>4. \A u \in Sessions : u # s => todo[u] = {}
  BY <1>2 DEF LockInv
<1>5. LockInv'
  BY <1>1, <1>2, <1>3, <1>4 DEF LockInv
<1>6. cur[s] = Len(relays) /\ cur[s] > 0 /\ relays[cur[s]].state = "busy"
  BY <1>2 DEF LockInv
<1>7. OutcomeInv'
  BY <1>1, <1>2, <1>3, <1>6 DEF OutcomeInv
<1> QED BY <1>5, <1>7

\* The end of a broadcast: its record is settled, the others stay.
LEMMA SettleStep ==
  ASSUME PushInv, NEW s \in Sessions, pc[s] = "relaying",
         NEW o \in {"complete", "failed"}, Settle(s, o)
  PROVE  /\ Len(relays') = Len(relays) /\ Len(relays) \in Nat
         /\ cur[s] = Len(relays) /\ cur[s] > 0
         /\ \A k \in 1..Len(relays) :
               /\ relays'[k].by = relays[k].by
               /\ relays'[k].audience = relays[k].audience
               /\ relays[k].audience \subseteq Sessions
               /\ relays'[k].state = IF k = cur[s] THEN o ELSE relays[k].state
<1> USE DEF PushInv
<1>1. relays \in Seq(Relay) /\ Len(relays) \in Nat /\ cur[s] \in Nat
  BY DEF TypeOK
<1>2. cur[s] = Len(relays) /\ cur[s] > 0
  BY DEF LockInv
<1>3. \A k \in 1..Len(relays) : relays[k] \in Relay
  BY <1>1
<1> DEFINE r == [relays[cur[s]] EXCEPT !.state = o]
<1>4. relays[cur[s]] \in Relay
  BY <1>1, <1>2, <1>3
<1>5. /\ r \in Relay /\ r.by = relays[cur[s]].by /\ r.state = o
      /\ r.audience = relays[cur[s]].audience
  BY <1>4 DEF Relay
<1>6. relays' = [relays EXCEPT ![cur[s]] = r]
  BY DEF Settle
<1> HIDE DEF r
<1>7. /\ Len(relays') = Len(relays)
      /\ \A k \in 1..Len(relays) : relays'[k] = IF k = cur[s] THEN r ELSE relays[k]
  BY <1>1, <1>2, <1>5, <1>6, ExceptSeq
<1>8. \A k \in 1..Len(relays) : relays[k].audience \subseteq Sessions
  BY <1>3 DEF Relay
<1> QED BY <1>1, <1>2, <1>5, <1>7, <1>8

\* Once the mutex is free again no list is left to visit.
LEMMA ReleaseStep ==
  ASSUME PushInv, NEW s \in Sessions, pc[s] = "relaying",
         NEW o \in {"complete", "failed"}, Settle(s, o),
         NEW l \in {"responding", "closing"}, Goto(s, l), UNCHANGED sent
  PROVE  LockInv'
<1> USE DEF PushInv
<1>1. /\ pc \in [Sessions -> Pcs] /\ pc' = [pc EXCEPT ![s] = l]
      /\ todo \in [Sessions -> SUBSET Sessions] /\ todo' = [todo EXCEPT ![s] = {}]
      /\ holder' = None /\ holder = s
  BY DEF TypeOK, Goto, Settle, LockInv
<1>2. \A u \in Sessions : pc'[u] # "relaying" /\ todo'[u] = {}
  BY <1>1 DEF LockInv
<1>3. \A u \in Sessions, k \in Nat : Got(u, k)' <=> Got(u, k)
  BY GotSame
<1>4. Len(relays') = Len(relays)
  BY SettleStep
<1> QED BY <1>1, <1>2, <1>3, <1>4, RelayAssumption DEF LockInv

\* The broadcast that ends has the outcome that is noted; those before keep theirs.
LEMMA OutcomeStep ==
  ASSUME PushInv, NEW s \in Sessions, pc[s] = "relaying",
         NEW o \in {"complete", "failed"}, Settle(s, o),
         \A u \in Sessions, k \in Nat : Got(u, k)' <=> Got(u, k),
         \A u \in Sessions : pc[u] \in {"closing", "done"} => pc'[u] = pc[u],
         o = "complete" => \A t \in relays[cur[s]].audience : Got(t, cur[s]),
         o = "failed" => \E t \in relays[cur[s]].audience : ~Got(t, cur[s]) /\ pc[t] \in {"closing", "done"}
  PROVE  OutcomeInv'
<1>1. /\ Len(relays') = Len(relays) /\ Len(relays) \in Nat
      /\ \A k \in 1..Len(relays) :
            /\ relays'[k].audience = relays[k].audience /\ relays[k].audience \subseteq Sessions
            /\ relays'[k].state = IF k = cur[s] THEN o ELSE relays[k].state
  BY SettleStep
<1> SUFFICES ASSUME NEW k \in 1..Len(relays)
             PROVE  /\ relays'[k].state = "complete" => \A t \in relays'[k].audience : Got(t, k)'
                    /\ relays'[k].state = "failed" =>
                         \E t \in relays'[k].audience : ~Got(t, k)' /\ pc'[t] \in {"closing", "done"}
  BY <1>1 DEF OutcomeInv
<1>2. k \in Nat
  BY <1>1
<1>3. relays'[k].state = "complete" => \A t \in relays'[k].audience : Got(t, k)'
  BY <1>1, <1>2 DEF PushInv, OutcomeInv
<1>4. relays'[k].state = "failed" =>
        \E t \in relays'[k].audience : ~Got(t, k)' /\ pc'[t] \in {"closing", "done"}
  BY <1>1, <1>2 DEF PushInv, OutcomeInv
<1> QED
  BY <1>3, <1>4

\* An empty list means the whole audience has the event.
LEMMA DoneStep ==
  ASSUME PushInv, NEW s \in Sessions, RelayDone(s) PROVE LockInv' /\ OutcomeInv'
<1> USE DEF PushInv
<1>1. /\ pc[s] = "relaying" /\ todo[s] = {} /\ Settle(s, "complete")
      /\ Goto(s, "responding") /\ UNCHANGED sent
  BY DEF RelayDone
<1>2. LockInv'
  BY <1>1, ReleaseStep
<1>3. \A u \in Sessions, k \in Nat : Got(u, k)' <=> Got(u, k)
  BY <1>1, GotSame
<1>4. \A t \in relays[cur[s]].audience : Got(t, cur[s])
  BY <1>1 DEF LockInv
<1>5. \A t \in Sessions : pc[t] \in {"closing", "done"} => pc'[t] = pc[t]
  BY <1>1 DEF Goto, TypeOK
<1>6. OutcomeInv'
  BY <1>1, <1>3, <1>4, <1>5, OutcomeStep
<1> QED BY <1>2, <1>6

\* The player that made the broadcast fail is present with its channel closed,
\* so its task is past select!, and it has not got the event.
LEMMA FailStep ==
  ASSUME PushInv, NEW s \in Sessions, NEW t \in Sessions, RelayFail(s, t)
  PROVE  LockInv' /\ OutcomeInv'
<1> USE DEF PushInv
<1>1. /\ pc[s] = "relaying" /\ t \in todo[s] /\ pc[t] \notin Open
      /\ Settle(s, "failed") /\ Goto(s, "closing") /\ UNCHANGED sent
  BY DEF RelayFail, Leave
<1>2. LockInv'
  BY <1>1, ReleaseStep
<1>3. \A u \in Sessions, k \in Nat : Got(u, k)' <=> Got(u, k)
  BY <1>1, GotSame
<1>4. /\ t \in relays[cur[s]].audience /\ ~Got(t, cur[s])
      /\ pc[t] = "closing" /\ t # s
  BY <1>1 DEF LockInv, Present, InRun, InSelect, Open
<1>5. \A u \in Sessions : pc[u] \in {"closing", "done"} => pc'[u] = pc[u]
  BY <1>1 DEF Goto, TypeOK
<1>6. OutcomeInv'
  BY <1>1, <1>3, <1>4, <1>5, OutcomeStep
<1> QED BY <1>2, <1>6

\* Each step keeps the types, the registry, LockInv and OutcomeInv.
LEMMA PushStep == PushInv /\ [Next]_vars => PushInv'
<1> SUFFICES ASSUME PushInv, [Next]_vars PROVE LockInv' /\ OutcomeInv'
  BY TypeStep, RegistryStep DEF PushInv
<1>1. ASSUME NEW s \in Sessions,
             \/ Accept(s) \/ Begin(s) \/ Register(s)
             \/ ReadEnds(s) \/ WriteEnds(s) \/ ShutdownRecv(s) \/ Deregister(s)
             \/ PingTick(s) \/ RecvPing(s) \/ RecvRequest(s) \/ Respond(s)
      PROVE  LockInv' /\ OutcomeInv'
  BY <1>1, QuietSteps, PushFrame
<1>2. ASSUME NEW s \in Sessions, Lock(s) PROVE LockInv' /\ OutcomeInv'
  BY <1>2, LockStep
<1>3. ASSUME NEW s \in Sessions, NEW t \in Sessions, RelaySend(s, t)
      PROVE  LockInv' /\ OutcomeInv'
  BY <1>3, SendStep
<1>4. ASSUME NEW s \in Sessions, NEW t \in Sessions, RelayFail(s, t)
      PROVE  LockInv' /\ OutcomeInv'
  BY <1>4, FailStep
<1>5. ASSUME NEW s \in Sessions, RelayDone(s) PROVE LockInv' /\ OutcomeInv'
  BY <1>5, DoneStep
<1>6. ASSUME Stop \/ Finish \/ ForceExit \/ UNCHANGED vars
      PROVE  LockInv' /\ OutcomeInv'
  <2>1. UNCHANGED <<pc, holder, todo, cur, relays, sent>>
    BY <1>6 DEF Stop, Finish, ForceExit, vars
  <2>2. PushQuiet
    BY <2>1, GotSame DEF PushQuiet
  <2> QED BY <2>2, PushFrame
<1> QED BY <1>1, <1>2, <1>3, <1>4, <1>5, <1>6 DEF Next, Session, RelayStep

\* A broadcast that ran to its end reached every player registered at its
\* start; one that failed missed a player whose task was already closing.
THEOREM RelayOutcomeCorrect == Spec => []RelayOutcome
<1>1. Init => PushInv
  BY TypeInit, RegistryInit, PushInit DEF PushInv
<1>2. PushInv => RelayOutcome
  BY DEF PushInv, OutcomeInv, RelayOutcome, Open, InRun, InSelect
<1> QED BY <1>1, <1>2, PushStep, PTL DEF Spec

-----------------------------------------------------------------------------
\* Refinement.

Owners == [k \in 1..Len(relays) |-> relays[k].by]

\* The owners of the broadcasts, in their order.
LEMMA OwnersType ==
  ASSUME TypeOK PROVE Owners \in Seq(Sessions) /\ Len(Owners) = Len(relays)
BY RelaysType DEF Owners

\* Steps that change neither the list of broadcasts nor any channel.
LEMMA StutterStep ==
  ASSUME UNCHANGED sent, Owners' = Owners PROVE [Log!Next]_(Log!absVars)
BY DEF Log!absVars, Owners

\* A message that is no push is AddControl of the log.
LEMMA ControlStep ==
  ASSUME NEW s \in Sessions, NEW kind \in {"ok", "denied", "pong", "ping"},
         SendMessage(s, Control(kind)), UNCHANGED relays
  PROVE  Log!Next
<1>1. Log!AddControl(s)
  BY DEF Log!AddControl, SendMessage, Control, Log!Control, Log!ControlKinds
<1> QED BY <1>1 DEF Log!Next

\* Taking the mutex with the audience is Publish of the log.
LEMMA PublishStep ==
  ASSUME PushInv, NEW s \in Sessions, Lock(s) PROVE Log!Next
<1> DEFINE r == [by |-> s, audience |-> Audience(s), state |-> "busy"]
<1>1. relays \in Seq(Relay) /\ Len(relays) \in Nat
  BY DEF PushInv, TypeOK
<1>2. relays' = Append(relays, r) /\ UNCHANGED sent /\ r.by = s
  BY DEF Lock
<1>3. r \in Relay
  BY DEF PushInv, TypeOK, Audience, Relay
<1> HIDE DEF r
<1>4. /\ Len(relays') = Len(relays) + 1
      /\ \A k \in 1..Len(relays) : relays'[k] = relays[k]
      /\ relays'[Len(relays) + 1] = r
  BY <1>1, <1>2, <1>3
<1>5. Owners' = Append(Owners, s)
  <2>1. Owners \in Seq(Sessions) /\ Len(Owners) = Len(relays)
    BY OwnersType DEF PushInv
  <2>2. Owners' \in Seq(Sessions) /\ Len(Owners') = Len(relays')
    <3>1. relays' \in Seq(Relay)
      BY <1>1, <1>2, <1>3
    <3>2. \A k \in 1..Len(relays') : relays'[k] \in Relay
      BY <3>1
    <3>3. \A k \in 1..Len(relays') : relays'[k].by \in Sessions
      BY <3>2 DEF Relay
    <3> QED BY <1>1, <1>4, <3>3 DEF Owners
  <2>3. /\ Append(Owners, s) \in Seq(Sessions)
        /\ Len(Append(Owners, s)) = Len(relays) + 1
        /\ \A k \in 1..Len(relays) : Append(Owners, s)[k] = Owners[k]
        /\ Append(Owners, s)[Len(relays) + 1] = s
    BY <2>1, <1>1
  <2>4. \A k \in 1..(Len(relays) + 1) : Owners'[k] = Append(Owners, s)[k]
    BY <1>1, <1>2, <1>4, <2>3 DEF Owners
  <2> QED BY <1>4, <2>2, <2>3, <2>4, SeqEqual
<1>6. Log!Publish(s)
  BY <1>2, <1>5 DEF Log!Publish, Owners
<1> QED BY <1>6 DEF Log!Next

\* A push to a player is Deliver of the log.
LEMMA DeliverStep ==
  ASSUME PushInv, NEW s \in Sessions, NEW t \in Sessions, RelaySend(s, t)
  PROVE  Log!Next
<1>0. pc[s] = "relaying" /\ t \in todo[s] /\ relays \in Seq(Relay)
  BY DEF PushInv, RelaySend, TypeOK
<1>1. /\ cur[s] = Len(relays) /\ cur[s] > 0 /\ relays[cur[s]].by = s
      /\ t # s /\ ~Got(t, cur[s]) /\ Len(relays) \in Nat
  BY <1>0 DEF PushInv, LockInv
<1>2. Owners \in Seq(Sessions) /\ Len(Owners) = Len(relays)
  BY OwnersType DEF PushInv
<1>3. Owners # <<>> /\ Owners[Len(Owners)] = s
  BY <1>1, <1>2 DEF Owners
<1>4. Log!Push(Len(Owners)) = Push(cur[s])
  BY <1>1, <1>2 DEF Log!Push, Push
<1>5. \A i \in 1..Len(sent[t]) : sent[t][i] # Push(cur[s])
  BY <1>1 DEF Got
<1>6. /\ sent' = [sent EXCEPT ![t] = Append(@, Push(cur[s]))]
      /\ Owners' = Owners
  BY DEF RelaySend, SendMessage, Owners
<1>7. Log!Deliver(t)
  BY <1>1, <1>3, <1>4, <1>5, <1>6 DEF Log!Deliver, Owners
<1> QED BY <1>7 DEF Log!Next

\* The outcome of a broadcast does not change its owner.
LEMMA SettleOwners ==
  ASSUME PushInv, NEW s \in Sessions, pc[s] = "relaying",
         NEW o \in {"complete", "failed"}, Settle(s, o)
  PROVE  Owners' = Owners
BY SettleStep DEF Owners

\* Each step of the relay is a step of PushLog or leaves the log alone.
LEMMA RefineStep == PushInv /\ [Next]_vars => [Log!Next]_(Log!absVars)
<1> SUFFICES ASSUME PushInv, [Next]_vars PROVE [Log!Next]_(Log!absVars)
  OBVIOUS
<1>1. ASSUME UNCHANGED <<relays, sent>> PROVE [Log!Next]_(Log!absVars)
  BY <1>1, StutterStep DEF Owners
<1>2. ASSUME NEW s \in Sessions,
             \/ Accept(s) \/ Begin(s) \/ Register(s)
             \/ ReadEnds(s) \/ WriteEnds(s) \/ ShutdownRecv(s) \/ Deregister(s)
      PROVE  [Log!Next]_(Log!absVars)
  BY <1>1, <1>2 DEF Accept, Begin, TlsFail, StartSession, Register, ReadEnds,
                    WriteEnds, ShutdownRecv, Deregister
<1>3. ASSUME NEW s \in Sessions,
             PingTick(s) \/ RecvPing(s) \/ Respond(s) \/ RecvRequest(s)
      PROVE  [Log!Next]_(Log!absVars)
  <2>1. CASE PingTick(s) \/ RecvPing(s) \/ Respond(s)
    BY <2>1, ControlStep DEF PingTick, RecvPing, Respond
  <2>2. CASE RecvRequest(s)
    BY <2>2, <1>1, ControlStep DEF RecvRequest
  <2> QED BY <1>3, <2>1, <2>2
<1>4. ASSUME NEW s \in Sessions, Lock(s) PROVE [Log!Next]_(Log!absVars)
  BY <1>4, PublishStep
<1>5. ASSUME NEW s \in Sessions, NEW t \in Sessions, RelaySend(s, t)
      PROVE  [Log!Next]_(Log!absVars)
  BY <1>5, DeliverStep
<1>6. ASSUME NEW s \in Sessions, NEW t \in Sessions, RelayFail(s, t) \/ RelayDone(s)
      PROVE  [Log!Next]_(Log!absVars)
  <2>1. Owners' = Owners
    BY <1>6, SettleOwners DEF RelayFail, RelayDone
  <2> QED BY <1>6, <2>1, StutterStep DEF RelayFail, RelayDone
<1>7. ASSUME Stop \/ Finish \/ ForceExit \/ UNCHANGED vars
      PROVE  [Log!Next]_(Log!absVars)
  BY <1>1, <1>7 DEF Stop, Finish, ForceExit, vars
<1> QED BY <1>2, <1>3, <1>4, <1>5, <1>6, <1>7 DEF Next, Session, RelayStep

\* The server implements the push log: whatever the tasks do, a channel only
\* ever gets control messages and the latest event, once, and not its own.
THEOREM Refinement == Spec => ImplementsPushLog
<1>1. Init => PushInv
  BY TypeInit, RegistryInit, PushInit DEF PushInv
<1>2. Init => Log!Init
  BY DEF Init, Log!Init
<1> QED BY <1>1, <1>2, PushStep, RefineStep, PTL DEF Spec, ImplementsPushLog, Log!Spec

-----------------------------------------------------------------------------
\* What PushLog promises therefore holds of the server.

\* Every peer is sent media keys in one common order, at most once each, and
\* never its own.
THEOREM PushOrder == Spec => [](PushesInOrder /\ NoEcho)
<1>1. Init => PushInv
  BY TypeInit, RegistryInit, PushInit DEF PushInv
<1>2. Spec => Log!Spec
  BY Refinement DEF ImplementsPushLog
<1>3. Log!Spec => [](Log!InOrder /\ Log!OnlyOthers)
  BY Log!LogSafe
<1>4. PushInv /\ Log!InOrder /\ Log!OnlyOthers => PushesInOrder /\ NoEcho
  <2> SUFFICES ASSUME PushInv, Log!InOrder, Log!OnlyOthers
               PROVE  PushesInOrder /\ NoEcho
    OBVIOUS
  <2>1. Len(Owners) = Len(relays)
    BY OwnersType DEF PushInv
  <2> QED BY <2>1 DEF Log!InOrder, Log!OnlyOthers, PushesInOrder, NoEcho, Owners
<1> QED BY <1>1, <1>2, <1>3, <1>4, PushStep, PTL DEF Spec
=============================================================================
