---------------------------- MODULE YasioClient ----------------------------
(***************************************************************************)
(* yasio_client: connections with ids, multiplexed over a pool of client   *)
(* channels whose behaviour is the promise of ClientChannel.  The caller's *)
(* thread and the event handler on the worker thread share a queue of      *)
(* waiting connections and the pool under m_queLock, and the map of alive  *)
(* connections under m_connectListLock.                                    *)
(*                                                                         *)
(* doConnect keeps a reference to the first slot of m_connectQue across    *)
(* the erase of that slot, so the memory of the slot is state: it holds    *)
(* the next waiting connection or, when there is none, the old bytes.      *)
(* Transports are memory too: a closed one goes back to a pool that is     *)
(* used last in, first out, while the map may still point to it.           *)
(***************************************************************************)
EXTENDS Integers, SequencesExt, FiniteSetsExt

CONSTANTS MaxChannels,  \* start's maxChannelCount
          MaxIds,       \* bound: connections asked for
          Single,       \* callers connect again only when all else has ended
          Patient       \* callers disconnect only what they know is connected

ClientAssumption == /\ MaxChannels \in Nat \ {0}
                    /\ MaxIds \in Nat
                    /\ Single \in BOOLEAN /\ Patient \in BOOLEAN

Channels == 0..MaxChannels - 1
Ids == 1..MaxIds
Threads == {"app", "io"}
Addrs == 1..MaxChannels
Null == 0

VARIABLES
  life, closing, told,  \* the channels, as ClientChannel has them
  mem, tpool,   \* the channel whose transport is at an address; free addresses
  ptrs,         \* the transports of the open events in told
  seed,         \* m_connectionIdSeed
  que, front,   \* m_connectQue, and the memory of its first slot
  avail,        \* m_availChannelQueue
  alive,        \* m_aliveConnects: [ch, tr] by id
  ud, host,     \* of each channel: ud_.ival, and whose remote host it has
  thr,          \* what each thread is doing
  heard,        \* history: the events the callback got, by id
  gone,         \* history: connections taken off the queue by disconnect
  stray         \* history: a message was written to another connection

service == <<life, closing, told, mem, tpool, ptrs>>
lists == <<seed, que, front, avail, alive, ud, host>>
past == <<heard, gone, stray>>
vars == <<service, lists, thr, past>>

Svc == INSTANCE ClientChannel

Idle == [pc |-> "idle"]

Init == /\ Svc!Begin
        /\ mem = [a \in Addrs |-> -1] /\ tpool = [i \in Addrs |-> i] /\ ptrs = <<>>
        /\ seed = 0
        /\ que = <<>> /\ front = [id |-> Null, ch |-> -1]
        /\ avail = [i \in 1..MaxChannels |-> i - 1]
        /\ alive = [i \in {} |-> Null]
        /\ ud = [c \in Channels |-> -1] /\ host = [c \in Channels |-> Null]
        /\ thr = [t \in Threads |-> Idle]
        /\ heard = [i \in Ids |-> <<>>] /\ gone = {} /\ stray = FALSE

-----------------------------------------------------------------------------
(* The service: a connection gets a transport from the pool, and gives it  *)
(* back before its close event is dispatched.                              *)

AddrOf(c) == CHOOSE a \in Addrs : mem[a] = c

Succeed(c) == /\ Svc!Succeed(c)
              /\ mem' = [mem EXCEPT ![Last(tpool)] = c]
              /\ ptrs' = Append(ptrs, Last(tpool))
              /\ tpool' = Front(tpool)

End(c) == /\ Svc!End(c)
          /\ mem' = [mem EXCEPT ![AddrOf(c)] = -1]
          /\ tpool' = Append(tpool, AddrOf(c))
          /\ ptrs' = ptrs

Fail(c) == Svc!Fail(c) /\ UNCHANGED <<mem, tpool, ptrs>>
Drop(c) == Svc!Drop(c) /\ UNCHANGED <<mem, tpool, ptrs>>

\* The worker serves the channels when it is not dispatching events; within a
\* round it looks at the transports first.
Answer(c) == thr["io"] = Idle /\ (Succeed(c) \/ Fail(c)) /\ UNCHANGED <<lists, thr, past>>
Finish(c) == /\ thr["io"] = Idle /\ \A n \in DOMAIN told : told[n].kind = "close"
             /\ End(c) /\ UNCHANGED <<lists, thr, past>>
Service(c) == Answer(c) \/ Finish(c) \/ (Drop(c) /\ UNCHANGED <<lists, thr, past>>)

-----------------------------------------------------------------------------
(* Calls: from the other thread, or from the callback on the worker.       *)

Free(t) == thr[t].pc = IF t = "app" THEN "idle" ELSE "callback"
Back(t) == IF t = "app" THEN Idle ELSE [pc |-> "callback"]

\* disconnect holds m_connectListLock while it looks into the queue.
ListUnlocked == \A t \in Threads : thr[t].pc # "dequeue"

Ended(i) == heard[i] # <<>> /\ Last(heard[i]) \in {"failed", "close"}

\* connect: the id is the seed plus one ...
Connect(t) ==
  /\ Free(t)
  /\ seed < MaxIds
  /\ Single => /\ \A i \in 1..seed : Ended(i)
               /\ \A o \in Threads : thr[o].pc # "push"
  /\ thr' = [thr EXCEPT ![t] = [pc |-> "push", id |-> seed + 1, ret |-> Back(t)]]
  /\ UNCHANGED <<service, lists, past>>

\* Mutant: connect ends without doConnect.
NotCalled(ret) == ret

\* ... stored; the connection is pushed back, with m_queLock held.
SeedAfter(i) == i
DoConnect(ret) == [pc |-> "take", ret |-> ret]

Push(t) ==
  /\ thr[t].pc = "push"
  /\ seed' = SeedAfter(thr[t].id)
  /\ que' = Append(que, thr[t].id)
  /\ front' = IF que = <<>> THEN [id |-> thr[t].id, ch |-> -1] ELSE front
  /\ thr' = [thr EXCEPT ![t] = DoConnect(thr[t].ret)]
  /\ UNCHANGED <<service, avail, alive, ud, host, past>>

\* The first slot once its connection is erased.
Shifted(ch) == IF Len(que) > 1 THEN [id |-> que[2], ch |-> -1]
               ELSE [id |-> front.id, ch |-> ch]

\* Mutant: the channel is read and not popped.
NotPopped(q) == q

\* tryTakeAvailChannel pops the channel.
Popped(q) == Tail(q)

\* doConnect, with m_queLock held: a waiting connection and a channel.
Take(t) ==
  /\ thr[t].pc = "take"
  /\ IF que = <<>> \/ avail = <<>>
     THEN /\ thr' = [thr EXCEPT ![t] = thr[t].ret]
          /\ UNCHANGED <<que, front, avail>>
     ELSE /\ front' = Shifted(Head(avail))
          /\ que' = Tail(que)
          /\ avail' = Popped(avail)
          /\ thr' = [thr EXCEPT ![t] = [pc |-> "insert", ch |-> Head(avail),
                                        ret |-> thr[t].ret]]
  /\ UNCHANGED <<service, seed, alive, ud, host, past>>

\* The reference conn reads the first slot, whatever is there by now.  insert
\* keeps the entry of an id that is there already.
Insert(t) ==
  /\ thr[t].pc = "insert" /\ ListUnlocked
  /\ alive' = IF front.id \in DOMAIN alive THEN alive
              ELSE [i \in DOMAIN alive \cup {front.id} |->
                      IF i = front.id THEN [ch |-> front.ch, tr |-> Null] ELSE alive[i]]
  /\ thr' = [thr EXCEPT ![t].pc = "label"]
  /\ UNCHANGED <<service, seed, que, front, avail, ud, host, past>>

\* Mutant: the channel keeps the label of its last connection.
Unlabelled(c) == ud

Labelled(c) == [ud EXCEPT ![c] = front.id]

Label(t) ==
  /\ thr[t].pc = "label"
  /\ ud' = Labelled(thr[t].ch)
  /\ thr' = [thr EXCEPT ![t].pc = "open"]
  /\ UNCHANGED <<service, seed, que, front, avail, alive, host, past>>

\* set_option and open; then round again.
OpenIt(t) ==
  /\ thr[t].pc = "open"
  /\ host' = [host EXCEPT ![thr[t].ch] = front.id]
  /\ Svc!Ask(thr[t].ch)
  /\ thr' = [thr EXCEPT ![t] = DoConnect(thr[t].ret)]
  /\ UNCHANGED <<mem, tpool, ptrs, seed, que, front, avail, alive, ud, past>>

\* disconnect of an alive connection; io_service::close ignores channel -1.
Disconnect(t, i) ==
  /\ Free(t) /\ ListUnlocked
  /\ i <= seed
  /\ Patient => heard[i] = <<"open">>
  /\ IF i \in DOMAIN alive
     THEN /\ closing' = closing \cup ({alive[i].ch} \cap Channels)
          /\ thr' = thr
     ELSE /\ closing' = closing
          /\ thr' = [thr EXCEPT ![t] = [pc |-> "dequeue", id |-> i, ret |-> Back(t)]]
  /\ UNCHANGED <<life, told, mem, tpool, ptrs, lists, past>>

\* The rest of disconnect: a waiting connection is taken off the queue.
Dequeue(t) ==
  LET i == thr[t].id IN
  /\ thr[t].pc = "dequeue"
  /\ IF Contains(que, i)
     THEN /\ front' = IF Head(que) = i THEN Shifted(-1) ELSE front
          /\ que' = Remove(que, i)
          /\ gone' = gone \cup {i}
     ELSE UNCHANGED <<que, front, gone>>
  /\ thr' = [thr EXCEPT ![t] = thr[t].ret]
  /\ UNCHANGED <<service, seed, avail, alive, ud, host, heard, stray>>

\* send writes to the transport that the map has, whosever it is by now.
Send(t, i) ==
  /\ Free(t) /\ ListUnlocked
  /\ i \in DOMAIN alive /\ alive[i].tr # Null
  /\ LET c == mem[alive[i].tr] IN stray' = (stray \/ (c # -1 /\ ud[c] # i))
  /\ UNCHANGED <<service, lists, thr, heard, gone>>

-----------------------------------------------------------------------------
(* handleNetworkEvent, on the worker thread.                               *)

\* The events of a round are dispatched one after the other.
Ready == thr["io"].pc \in {"idle", "next"}

\* ON_OPEN with status 0: the map learns the transport.
OnOpen ==
  /\ Ready /\ ListUnlocked
  /\ told # <<>> /\ Head(told).kind = "open"
  /\ Svc!Deliver
  /\ LET i == ud[Head(told).c] IN
       /\ alive' = IF i \in DOMAIN alive THEN [alive EXCEPT ![i].tr = Head(ptrs)]
                   ELSE alive
       /\ thr' = [thr EXCEPT !["io"] = [pc |-> "dispatch", id |-> i, kind |-> "open"]]
  /\ ptrs' = Tail(ptrs)
  /\ UNCHANGED <<mem, tpool, seed, que, front, avail, ud, host, past>>

\* Mutants: the channel does not go back to the pool; the connection stays in
\* the map.
Kept(c) == avail
Remembered(i) == alive

Recycled(c) == Append(avail, c)
Forgotten(i) == [j \in DOMAIN alive \ {i} |-> alive[j]]

\* A failed open or a close: handleNetworkEOF forgets the connection and gives
\* the channel back.
OnEnd ==
  /\ Ready /\ ListUnlocked
  /\ told # <<>> /\ Head(told).kind \in {"failed", "close"}
  /\ Svc!Deliver
  /\ LET c == Head(told).c IN
       /\ alive' = Forgotten(ud[c])
       /\ ud' = [ud EXCEPT ![c] = -1]
       /\ avail' = Recycled(c)
       /\ thr' = [thr EXCEPT !["io"] = [pc |-> "dispatch", id |-> ud[c],
                                        kind |-> Head(told).kind]]
  /\ UNCHANGED <<mem, tpool, ptrs, seed, que, front, host, past>>

\* Mutants: a case of the switch falls through; the case of a close is missing.
FallsThrough(k) == <<k, "close">>
NoClose(k) == IF k = "close" THEN <<>> ELSE <<k>>

Reported(k) == <<k>>

\* dispatchEvent: the callback runs, and may call back in.
DispatchEvent ==
  /\ thr["io"].pc = "dispatch"
  /\ heard' = IF thr["io"].id \in Ids
              THEN [heard EXCEPT ![thr["io"].id] = @ \o Reported(thr["io"].kind)] ELSE heard
  /\ thr' = [thr EXCEPT !["io"] = [pc |-> "callback"]]
  /\ UNCHANGED <<service, lists, gone, stray>>

\* It returns; handleNetworkEvent ends with doConnect.
Return == /\ thr["io"].pc = "callback"
          /\ thr' = [thr EXCEPT !["io"] = DoConnect([pc |-> "next"])]
          /\ UNCHANGED <<service, lists, past>>

Dispatched == /\ thr["io"].pc = "next" /\ told = <<>>
              /\ thr' = [thr EXCEPT !["io"] = Idle]
              /\ UNCHANGED <<service, lists, past>>

-----------------------------------------------------------------------------
Go(t) == Push(t) \/ Take(t) \/ Insert(t) \/ Label(t) \/ OpenIt(t) \/ Dequeue(t)

Handle == OnOpen \/ OnEnd \/ DispatchEvent \/ Return \/ Dispatched

Next == \/ \E c \in Channels : Service(c)
        \/ \E t \in Threads : \/ Connect(t) \/ Go(t)
                              \/ \E i \in Ids : Disconnect(t, i) \/ Send(t, i)
        \/ Handle

Spec == Init /\ [][Next]_vars

(* Fairness: both threads run, and no call is kept from a mutex for ever;  *)
(* an open is answered, and a channel closed while it was up ends, which   *)
(* is what AnswersCome and ClosesEnd of IoChannel say.  Only patient       *)
(* callers close no other channel.                                         *)
Closes(c) == c \in closing /\ Finish(c)
Fairness == /\ \A t \in Threads : WF_vars(Go(t)) /\ SF_vars(Insert(t))
            /\ WF_vars(Handle) /\ SF_vars(OnOpen) /\ SF_vars(OnEnd)
            /\ \A c \in Channels : /\ SF_vars(Answer(c))
                                   /\ SF_vars(Closes(c))

FairSpec == Spec /\ Fairness

-----------------------------------------------------------------------------

Taken(c) == {t \in Threads : thr[t].pc \in {"insert", "label", "open"} /\ thr[t].ch = c}
InPool(c) == {n \in DOMAIN avail : avail[n] = c}
Pending(c) == {n \in DOMAIN told : told[n].c = c /\ told[n].kind # "open"}

\* io_service::open is only called for a channel that is idle, with all its
\* events handled, and by one thread at a time: the discipline under which
\* the reactor keeps its promise.  It holds whatever the callers do.
OpensIdleChannels ==
  \A c \in Channels :
    /\ Cardinality(Taken(c)) + Cardinality(InPool(c)) <= 1
    /\ Taken(c) \cup InPool(c) # {} =>
         life[c] = "idle" /\ \A n \in DOMAIN told : told[n].c # c

\* m_availChannelQueue has every channel that is not in use: a channel is in
\* the pool, in the hands of doConnect, in use, or about to be given back.
PoolComplete ==
  \A c \in Channels : \/ InPool(c) # {} \/ Taken(c) # {}
                      \/ life[c] # "idle" \/ Pending(c) # {}

\* A connection that left the waiting queue, and was not disconnected there,
\* is the one some channel has been opened for, or has ended.
NoneLost ==
  \A i \in 1..seed : \/ Contains(que, i) \/ i \in gone \/ heard[i] # <<>>
                     \/ \E t \in Threads : thr[t].pc \in {"insert", "label", "open", "push", "dispatch"}
                     \/ \E c \in Channels : ud[c] = i /\ host[c] = i

\* The callback hears of a connection that it failed, or that it opened and
\* then that it closed, each once.
HeardInOrder ==
  \A i \in Ids : heard[i] \in {<<>>, <<"failed">>, <<"open">>, <<"open", "close">>}

\* What send() writes never goes out on a connection with another id.
NoStray == ~stray

\* A connection that a single caller asks for is answered, and what the
\* caller disconnects ends with an event.
Newest(i) == seed = i
HeardOf(i) == heard[i] # <<>>
Answered == \A i \in Ids : Newest(i) ~> HeardOf(i)

Closing(i) == i \in DOMAIN alive /\ heard[i] = <<"open">> /\ alive[i].ch \in closing
DisconnectEnds == \A i \in Ids : Closing(i) ~> Ended(i)
=============================================================================
