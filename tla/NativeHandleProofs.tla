------------------------- MODULE NativeHandleProofs -------------------------
(***************************************************************************)
(* HandleSafe for every number of clients and of Java threads, when the    *)
(* calls are made as MainActivity makes them: none beside start and stop,  *)
(* and the others while the client runs.                                   *)
(***************************************************************************)
EXTENDS NativeHandle, TLAPS

Client == [st : {"none", "new", "set", "run", "over", "cleared", "unref", "dead"},
           m_service : {"wild", "live"}, stop : BOOLEAN, channels : BOOLEAN,
           queued : BOOLEAN, gref : BOOLEAN]

TypeOK == /\ nativeHandle \in 0..MaxClients
          /\ obj \in [Clients -> Client]
          /\ call \in [Callers -> [op : Ops \cup {"none"}, c : 0..MaxClients]]
          /\ bad \in BOOLEAN

\* The client whose thread has not come to the end of its run.
Running(c) == Now(c) \in {"new", "set", "run", "over"}

\* What a call may rely on after it has read the handle: start(), that there is
\* no client at all; the others, that the one they read is still in its run and has
\* not been told to stop.
Backed(t) ==
  IF call[t].op = "start"
  THEN /\ call[t].c = 0
       /\ nativeHandle = 0
       /\ \A c \in Clients : Now(c) \in {"none", "dead"}
  ELSE call[t].op # "none" =>
         /\ call[t].c # 0
         /\ call[t].c = nativeHandle
         /\ Now(call[t].c) = "run"
         /\ ~obj[call[t].c].stop

\* start() and stop() are alone.
Alone == \A t, u \in Callers :
           call[t].op \in {"start", "stop"} /\ t # u => call[u] = Away

\* The references and the service of a client, by where its thread is.
Equipped(c) ==
  /\ Running(c) => obj[c].gref
  /\ Now(c) \in {"set", "run", "over"} => obj[c].m_service = "live"

HandleInv ==
  /\ TypeOK
  /\ ~bad
  /\ nativeHandle # 0 => Running(nativeHandle)
  /\ \A c \in Clients : Running(c) => nativeHandle = c
  /\ \A c \in Clients : Equipped(c)
  /\ \A t \in Callers : Backed(t)
  /\ Alone

\* Before the first start() there is no client and no call.
LEMMA HandleInit == ASSUME NativeHandleAssumption, Init PROVE HandleInv
<1>1. NoClient \in Client /\ NoClient.st = "none" /\ Away \in [op : Ops \cup {"none"}, c : 0..MaxClients]
      /\ Away.op = "none"
  BY DEF NativeHandleAssumption, Client, NoClient, Away
<1>2. TypeOK
  <2>1. nativeHandle \in 0..MaxClients
    BY DEF NativeHandleAssumption, Init
  <2>2. obj \in [Clients -> Client]
    BY <1>1 DEF Init
  <2>3. call \in [Callers -> [op : Ops \cup {"none"}, c : 0..MaxClients]]
    BY <1>1 DEF Init
  <2>4. bad \in BOOLEAN
    BY DEF Init
  <2> QED BY <2>1, <2>2, <2>3, <2>4 DEF TypeOK
<1>3. \A c \in Clients : Now(c) = "none"
  BY <1>1 DEF Init, Now
<1>4. \A t \in Callers : call[t] = Away
  BY DEF Init
<1> QED BY <1>1, <1>2, <1>3, <1>4 DEF Init, HandleInv, Running, Equipped, Backed, Alone

\* What the steps of the detached thread of c have in common: the client becomes
\* r, keeps what the rest of the run needs, and is in the handle as long as the
\* run lasts.
Moves(c, r) ==
  /\ r \in Client
  /\ obj' = [obj EXCEPT ![c] = r]
  /\ UNCHANGED <<call, bad>>
  /\ Now(c) \notin {"none", "dead"}
  /\ Now(c) = "run" => obj[c].stop \/ (r.st = "run" /\ r.stop = obj[c].stop)
  /\ r.st \in {"new", "set", "run", "over"} => r.gref
  /\ r.st \in {"set", "run", "over"} => r.m_service = "live"
  /\ r.st \in {"new", "set", "run", "over"} <=> nativeHandle' = c
  /\ nativeHandle' = nativeHandle \/ (nativeHandle = c /\ nativeHandle' = 0)

\* Nobody is inside start() while there is a client with a thread, and a call other
\* than start() goes on if the run it saw does.
LEMMA ClientMoves ==
  ASSUME NativeHandleAssumption, HandleInv, NEW c \in Clients, NEW r, Moves(c, r)
  PROVE  HandleInv'
<1> USE DEF HandleInv, TypeOK, NativeHandleAssumption, Clients, Moves
<1>1. obj' \in [Clients -> Client] /\ obj'[c] = r /\ \A d \in Clients \ {c} : obj'[d] = obj[d]
  OBVIOUS
<1>2. TypeOK' /\ ~bad'
  BY <1>1
<1>3. nativeHandle' # 0 => Running(nativeHandle)'
  BY <1>1 DEF Running, Now
<1>4. \A d \in Clients : Running(d)' => nativeHandle' = d
  BY <1>1 DEF Running, Now
<1>5. \A d \in Clients : Equipped(d)'
  BY <1>1 DEF Running, Now, Equipped
<1>6. ASSUME NEW t \in Callers PROVE Backed(t)'
  <2>1. Backed(t) /\ call[t].op # "start" /\ call'[t] = call[t]
    BY DEF Backed
  <2>2. CASE call[t].op = "none"
    BY <2>1, <2>2 DEF Backed
  <2>3. CASE call[t].op # "none"
    <3>1. nativeHandle = call[t].c /\ call[t].c # 0 /\ Now(call[t].c) = "run" /\ ~obj[call[t].c].stop
      BY <2>1, <2>3 DEF Backed
    <3>2. CASE call[t].c = c
      BY <2>1, <2>3, <3>1, <3>2, <1>1 DEF Backed, Now
    <3>3. CASE call[t].c # c
      BY <2>1, <2>3, <3>1, <3>3, <1>1 DEF Backed, Now
    <3> QED BY <3>2, <3>3
  <2> QED BY <2>2, <2>3
<1>7. Alone'
  BY DEF Alone
<1> QED BY <1>2, <1>3, <1>4, <1>5, <1>6, <1>7

\* The steps of the detached thread: the run and, once told to stop, its end.
LEMMA ThreadInv ==
  ASSUME NativeHandleAssumption, HandleInv, NEW c \in Clients, Thread(c) \/ Calls(c)
  PROVE  HandleInv'
<1>0. /\ obj \in [Clients -> Client] /\ obj[c] \in Client
      /\ Running(c) <=> nativeHandle = c
      /\ Running(c) => obj[c].gref
      /\ c # 0 /\ bad \in BOOLEAN /\ ~bad
      /\ Now(c) \in {"set", "run", "over"} => obj[c].m_service = "live"
  BY DEF HandleInv, TypeOK, Equipped, Clients, NativeHandleAssumption
<1>1. CASE SetsUp(c)
  <2> DEFINE r == [obj[c] EXCEPT !.st = "set", !.m_service = "live", !.channels = TRUE]
  <2>1. obj' = [obj EXCEPT ![c] = r] /\ r \in Client /\ r.st = "set" /\ r.gref = obj[c].gref
        /\ r.m_service = "live"
    BY <1>0, <1>1 DEF SetsUp, Client
  <2> HIDE DEF r
  <2>2. Moves(c, r)
    BY <1>0, <1>1, <2>1 DEF SetsUp, Running, Now, Moves
  <2> QED BY <2>2, ClientMoves
<1>2. CASE Runs(c)
  <2> DEFINE r == [obj[c] EXCEPT !.st = "run"]
  <2>1. obj' = [obj EXCEPT ![c] = r] /\ r \in Client /\ r.st = "run" /\ r.gref = obj[c].gref
        /\ r.m_service = obj[c].m_service
    BY <1>0, <1>2 DEF Runs, Set, Client
  <2> HIDE DEF r
  <2>2. Moves(c, r)
    BY <1>0, <1>2, <2>1 DEF Runs, Running, Now, Moves
  <2> QED BY <2>2, ClientMoves
<1>3. CASE Over(c)
  <2> DEFINE r == [obj[c] EXCEPT !.st = "over"]
  <2>1. obj' = [obj EXCEPT ![c] = r] /\ r \in Client /\ r.st = "over" /\ r.gref = obj[c].gref
        /\ r.m_service = obj[c].m_service
    BY <1>0, <1>3 DEF Over, Set, Client
  <2> HIDE DEF r
  <2>2. Moves(c, r)
    BY <1>0, <1>3, <2>1 DEF Over, Running, Now, Moves
  <2> QED BY <2>2, ClientMoves
<1>4. CASE Clears(c)
  <2> DEFINE r == [obj[c] EXCEPT !.st = "cleared"]
  <2>1. obj' = [obj EXCEPT ![c] = r] /\ r \in Client /\ r.st = "cleared"
    BY <1>0, <1>4 DEF Clears, Set, Client
  <2> HIDE DEF r
  <2>2. Moves(c, r)
    BY <1>0, <1>4, <2>1 DEF Clears, Running, Now, Moves
  <2> QED BY <2>2, ClientMoves
<1>5. CASE Unrefs(c)
  <2> DEFINE r == [obj[c] EXCEPT !.st = "unref", !.gref = FALSE]
  <2>1. obj' = [obj EXCEPT ![c] = r] /\ r \in Client /\ r.st = "unref"
    BY <1>0, <1>5 DEF Unrefs, Client
  <2> HIDE DEF r
  <2>2. Moves(c, r)
    BY <1>0, <1>5, <2>1 DEF Unrefs, Running, Now, Moves
  <2> QED BY <2>2, ClientMoves
<1>6. CASE Deletes(c)
  <2> DEFINE r == [NoClient EXCEPT !.st = "dead"]
  <2>1. obj' = [obj EXCEPT ![c] = r] /\ r \in Client /\ r.st = "dead"
    BY <1>0, <1>6 DEF Deletes, Client, NoClient
  <2> HIDE DEF r
  <2>2. Moves(c, r)
    BY <1>0, <1>6, <2>1 DEF Deletes, Running, Now, Moves
  <2> QED BY <2>2, ClientMoves
<1>7. CASE Calls(c)
  <2>1. PICK r \in {obj[c], [obj[c] EXCEPT !.queued = FALSE]} : obj' = [obj EXCEPT ![c] = r]
    BY <1>0, <1>7 DEF Calls, Set
  <2>2. r \in Client /\ r.st = obj[c].st /\ r.gref = obj[c].gref /\ r.stop = obj[c].stop
        /\ r.m_service = obj[c].m_service
    BY <1>0 DEF Client
  <2>3. bad' = bad
    BY <1>0, <1>7 DEF Calls, Running, Now
  <2>4. Moves(c, r)
    BY <1>0, <1>7, <2>1, <2>2, <2>3 DEF Calls, Running, Now, Moves
  <2> QED BY <2>4, ClientMoves
<1> QED BY <1>1, <1>2, <1>3, <1>4, <1>5, <1>6, <1>7 DEF Thread

\* A call begins: it reads the handle, and a patient caller calls when what the
\* call relies on is so.
LEMMA EntersInv ==
  ASSUME NativeHandleAssumption, Patient, HandleInv,
         NEW t \in Callers, NEW op \in Ops, Enters(t, op)
  PROVE  HandleInv'
<1>1. CASE call' = call
  BY <1>1 DEF Enters, HandleInv, TypeOK, Running, Now, Equipped, Backed, Alone
<1>2. CASE /\ (op = "start") <=> (nativeHandle = 0)
           /\ call' = [call EXCEPT ![t] = [op |-> op, c |-> nativeHandle]]
  <2>1. TypeOK' /\ ~bad' /\ obj' = obj /\ nativeHandle' = nativeHandle
    BY <1>2 DEF Enters, HandleInv, TypeOK
  <2>2. call'[t].op = op /\ call'[t].c = nativeHandle /\ op # "none"
        /\ \A u \in Callers \ {t} : call'[u] = call[u]
    BY <1>2 DEF HandleInv, TypeOK, Ops
  <2>3. Waits(op)
    BY DEF Enters
  <2>4. Backed(t)'
    BY <1>2, <2>1, <2>2, <2>3 DEF Waits, Backed, Now
  <2>5. \A u \in Callers \ {t} : Backed(u)'
    BY <2>1, <2>2 DEF HandleInv, Backed, Now
  <2>6. Alone'
    BY <2>2, <2>3 DEF HandleInv, Alone, Waits
  <2>7. \A c \in Clients : (Running(c)' <=> Running(c)) /\ (Equipped(c)' <=> Equipped(c))
    BY <2>1 DEF Running, Equipped, Now
  <2> QED BY <2>1, <2>4, <2>5, <2>6, <2>7 DEF HandleInv, Running, Now
<1> QED BY <1>1, <1>2 DEF Enters

\* What the calls other than start() have in common: they leave each client where
\* its thread is, with what it has, and only stop() changes what others rely on.
Ends(t) ==
  /\ call' = [call EXCEPT ![t] = Away]
  /\ bad' = bad
  /\ nativeHandle' = nativeHandle
  /\ obj' \in [Clients -> Client]
  /\ \A d \in Clients : /\ obj'[d].st = obj[d].st
                        /\ obj'[d].gref = obj[d].gref
                        /\ obj'[d].m_service = obj[d].m_service
                        /\ obj'[d].stop = obj[d].stop \/ call[t].op = "stop"

\* The end of a call leaves the others what they rely on: beside stop() there are none.
LEMMA EndsInv ==
  ASSUME NativeHandleAssumption, HandleInv, NEW t \in Callers, Ends(t) PROVE HandleInv'
<1>1. Away \in [op : Ops \cup {"none"}, c : 0..MaxClients] /\ Away.op = "none"
  BY DEF Away, NativeHandleAssumption
<1>2. TypeOK'
  BY <1>1 DEF HandleInv, TypeOK, Ends
<1>3. call'[t] = Away /\ \A u \in Callers \ {t} : call'[u] = call[u]
  BY DEF HandleInv, TypeOK, Ends
<1>4. \A c \in Clients : (Running(c)' <=> Running(c)) /\ (Equipped(c)' <=> Equipped(c))
  BY DEF Ends, Running, Equipped, Now
<1>5. nativeHandle' # 0 => Running(nativeHandle)'
  BY DEF HandleInv, TypeOK, Ends, Running, Now, Clients, NativeHandleAssumption
<1>6. \A c \in Clients : Running(c)' => nativeHandle' = c
  BY <1>4 DEF HandleInv, Ends
<1>7. ASSUME NEW u \in Callers PROVE Backed(u)'
  <2>1. CASE u = t
    BY <1>1, <1>3, <2>1 DEF Backed
  <2>2. CASE u # t /\ call[t].op = "stop"
    BY <1>1, <1>3, <2>2 DEF HandleInv, Alone, Backed
  <2>3. CASE u # t /\ call[t].op # "stop"
    <3>1. Backed(u) /\ call'[u] = call[u] /\ call[u].c \in 0..MaxClients
      BY <1>3, <2>3 DEF HandleInv, TypeOK
    <3> QED BY <2>3, <3>1 DEF Ends, Backed, Now, Clients, NativeHandleAssumption
  <2> QED BY <2>1, <2>2, <2>3
<1>8. Alone'
  BY <1>1, <1>3 DEF HandleInv, Alone
<1> QED BY <1>2, <1>4, <1>5, <1>6, <1>7, <1>8 DEF HandleInv, Ends

\* A call that is not start() uses the client it read, which is in its run.
LEMMA FindsClient ==
  ASSUME NativeHandleAssumption, HandleInv, NEW t \in Callers, NEW op, Uses(t, op),
         op # "none", op # "start"
  PROVE  /\ call[t].c \in Clients /\ obj[call[t].c] \in Client /\ Now(call[t].c) = "run"
         /\ obj[call[t].c].m_service = "live"
         /\ obj \in [Clients -> Client] /\ bad \in BOOLEAN /\ ~bad
<1>1. Backed(t) /\ call[t].c \in 0..MaxClients /\ call[t].op = op
  BY DEF HandleInv, TypeOK, Uses
<1>2. call[t].c \in Clients /\ Now(call[t].c) = "run"
  BY <1>1 DEF Backed, Clients, NativeHandleAssumption
<1> QED BY <1>2 DEF HandleInv, TypeOK, Equipped

\* nextConnectionId, connect, disconnect, send and stop.
LEMMA UsesInv ==
  ASSUME NativeHandleAssumption, HandleInv, NEW t \in Callers,
         nextConnectionId(t) \/ connect(t) \/ disconnect(t) \/ send(t) \/ stop(t)
  PROVE  HandleInv'
<1> DEFINE c == call[t].c
<1>1. CASE nextConnectionId(t) \/ disconnect(t) \/ send(t)
  <2>1. PICK op \in {"nextConnectionId", "disconnect", "send"} : Uses(t, op)
    BY <1>1 DEF nextConnectionId, disconnect, send
  <2>2. Ends(t)
    BY <1>1, <2>1, FindsClient
    DEF nextConnectionId, disconnect, send, Leaves, Touch, Gone, Ends
  <2> QED BY <2>2, EndsInv
<1>2. CASE connect(t)
  <2>1. /\ c \in Clients /\ obj[c] \in Client /\ Now(c) = "run"
        /\ obj \in [Clients -> Client] /\ bad \in BOOLEAN /\ ~bad
    BY <1>2, FindsClient DEF connect
  <2>2. obj' = [obj EXCEPT ![c].queued = ~obj[c].channels]
    BY <1>2, <2>1 DEF connect, Gone, Set
  <2>3. obj' \in [Clients -> Client]
    BY <2>1, <2>2 DEF Client
  <2>4. \A d \in Clients : /\ obj'[d].st = obj[d].st /\ obj'[d].gref = obj[d].gref
                           /\ obj'[d].m_service = obj[d].m_service
                           /\ obj'[d].stop = obj[d].stop
    BY <2>1, <2>2 DEF Client
  <2>5. bad' = bad
    BY <1>2, <2>1 DEF connect, Touch, Gone
  <2>6. Ends(t)
    BY <1>2, <2>3, <2>4, <2>5 DEF connect, Leaves, Ends
  <2> QED BY <2>6, EndsInv
<1>3. CASE stop(t)
  <2>1. /\ c \in Clients /\ obj[c] \in Client /\ Now(c) = "run" /\ obj[c].m_service = "live"
        /\ obj \in [Clients -> Client] /\ bad \in BOOLEAN /\ ~bad
    BY <1>3, FindsClient DEF stop
  <2>2. obj' = [obj EXCEPT ![c].stop = TRUE]
    BY <1>3, <2>1 DEF stop, StopRequest, Set
  <2>3. obj' \in [Clients -> Client]
    BY <2>1, <2>2 DEF Client
  <2>4. \A d \in Clients : /\ obj'[d].st = obj[d].st /\ obj'[d].gref = obj[d].gref
                           /\ obj'[d].m_service = obj[d].m_service
    BY <2>1, <2>2 DEF Client
  <2>5. bad' = bad
    BY <1>3, <2>1 DEF stop, Touch, Gone
  <2>6. Ends(t)
    BY <1>3, <2>3, <2>4, <2>5 DEF stop, Uses, Leaves, Ends
  <2> QED BY <2>6, EndsInv
<1> QED BY <1>1, <1>2, <1>3

\* start() makes a client when there is none with a thread, and nobody else is in
\* a call.
LEMMA StartInv ==
  ASSUME NativeHandleAssumption, HandleInv, NEW t \in Callers, start(t) PROVE HandleInv'
<1>1. PICK c \in Clients :
        /\ call[t].op = "start" /\ call' = [call EXCEPT ![t] = Away]
        /\ obj' = [obj EXCEPT ![c] = Made] /\ nativeHandle' = c /\ bad' = bad
  BY DEF start, Leaves
<1>2. Made \in Client /\ Made.st = "new" /\ Made.gref
  BY DEF Made, NoClient, Client
<1>3. Away \in [op : Ops \cup {"none"}, c : 0..MaxClients] /\ Away.op = "none"
  BY DEF Away, NativeHandleAssumption
<1>4. TypeOK'
  <2>1. nativeHandle' \in 0..MaxClients
    BY <1>1 DEF Clients, NativeHandleAssumption
  <2>2. obj' \in [Clients -> Client]
    BY <1>1, <1>2 DEF HandleInv, TypeOK
  <2>3. call' \in [Callers -> [op : Ops \cup {"none"}, c : 0..MaxClients]]
    BY <1>1, <1>3 DEF HandleInv, TypeOK
  <2>4. bad' \in BOOLEAN
    BY <1>1 DEF HandleInv, TypeOK
  <2> QED BY <2>1, <2>2, <2>3, <2>4 DEF TypeOK
<1>5. \A u \in Callers : call'[u] = Away
  BY <1>1 DEF HandleInv, TypeOK, Alone
<1>6. obj'[c] = Made /\ \A d \in Clients \ {c} : obj'[d].st \in {"none", "dead"}
  BY <1>1 DEF HandleInv, TypeOK, Backed, Now
<1>7. Running(c)' /\ Equipped(c)' /\ \A d \in Clients \ {c} : ~Running(d)' /\ Equipped(d)'
  BY <1>2, <1>6 DEF Running, Equipped, Now
<1>8. (\A u \in Callers : Backed(u)') /\ Alone'
  BY <1>3, <1>5 DEF Backed, Alone
<1>9. nativeHandle' # 0 => Running(nativeHandle)'
  BY <1>1, <1>2, <1>6 DEF Running, Now
<1> QED BY <1>1, <1>4, <1>7, <1>8, <1>9 DEF HandleInv

\* native-lib.cpp under patient callers: no call and no callback uses a deleted
\* client, a service that is not there or a deleted reference; the handle is zero or
\* a client that is not deleted, and a client that runs is in the handle.
THEOREM HandleCorrect ==
  ASSUME NativeHandleAssumption, Patient PROVE Spec => []HandleSafe
<1>1. Init => HandleInv
  BY HandleInit
<1>2. HandleInv /\ [Next]_vars => HandleInv'
  <2> SUFFICES ASSUME HandleInv, [Next]_vars PROVE HandleInv'
    OBVIOUS
  <2>1. CASE \E t \in Callers, op \in Ops : Enters(t, op)
    BY <2>1, EntersInv
  <2>2. CASE \E t \in Callers : Acts(t)
    BY <2>2, UsesInv, StartInv DEF Acts
  <2>3. CASE \E c \in Clients : Thread(c) \/ Calls(c)
    BY <2>3, ThreadInv
  <2>4. CASE UNCHANGED vars
    BY <2>4 DEF vars, HandleInv, TypeOK, Running, Now, Equipped, Backed, Alone
  <2> QED BY <2>1, <2>2, <2>3, <2>4 DEF Next
<1>3. HandleInv => HandleSafe
  BY DEF HandleInv, HandleSafe, UsesAlive, HandleTrue, Running, Gone, Now
<1> QED BY <1>1, <1>2, <1>3, PTL DEF Spec
=============================================================================
