---------------------------- MODULE MCReactor ----------------------------
(*****************************************************************************)
(* The service and what runs on it: client and server channels,              *)
(* yasio_client, timers, start and stop, the watchers and their              *)
(* interrupters, the HTTP client; and, for liveness, the readers and         *)
(* writers of bytes and the classes that threads share.                      *)
(*****************************************************************************)
EXTENDS Integers

CONSTANTS Parts,  \* the parts that a run starts
          none, c1, c2, r1, r2, r3, t1, t2, t3,  \* model values
          Clients, IdBound, Conns, WatchedFds, WakeBound, Posters  \* bounds

VARIABLES part,   \* the part a behaviour is about
          \* its variables; those it does not have are none
          v1, v2, v3, v4, v5, v6, v7, v8, v9, v10, v11, v12, v13, v14, v15, v16, v17, v18,
          v19, v20, v21, v22, v23

all == <<part, v1, v2, v3, v4, v5, v6, v7, v8, v9, v10, v11, v12, v13, v14, v15, v16, v17, v18, v19, v20, v21, v22, v23>>

Solo == INSTANCE IoChannel WITH Channels <- {c1}, Named <- {c1}, Fds <- 1..1, Careful <- TRUE,
  MaxOpens <- 3, state <- v1, opmask <- v2, error <- v3, sock <- v4, eps <- v5, query <- v6,
  timer <- v7, ops <- v8, trans <- v9, events <- v10, kern <- v11, reg <- v12, ready <- v13,
  busy <- v14, pc <- v15, at <- v16, saved <- v17, back <- v18, call <- v19, known <- v20,
  asked <- v21, closing <- v22, false_ok <- v23
Pair == INSTANCE IoChannel WITH Channels <- {c1, c2}, Named <- {}, Fds <- 1..2, Careful <- FALSE,
  MaxOpens <- 2, state <- v1, opmask <- v2, error <- v3, sock <- v4, eps <- v5, query <- v6,
  timer <- v7, ops <- v8, trans <- v9, events <- v10, kern <- v11, reg <- v12, ready <- v13,
  busy <- v14, pc <- v15, at <- v16, saved <- v17, back <- v18, call <- v19, known <- v20,
  asked <- v21, closing <- v22, false_ok <- v23
Many == INSTANCE YasioClient WITH MaxChannels <- Clients, MaxIds <- IdBound, Single <- FALSE,
  Patient <- FALSE, life <- v1, closing <- v2, told <- v3, mem <- v4, tpool <- v5, ptrs <- v6,
  seed <- v7, que <- v8, front <- v9, avail <- v10, alive <- v11, ud <- v12, host <- v13,
  thr <- v14, heard <- v15, gone <- v16, stray <- v17
Server == INSTANCE ServerChannel WITH Udp <- {"u"}, Tcp <- {"t"}, Peers <- {"p", "q"},
  MaxSlots <- Conns, MaxMsgs <- Conns, MaxCalls <- Conns, MayFail <- FALSE, chan <- v1,
  channel_ops_ <- v2, transports_ <- v3, tr <- v4, transport_map_ <- v5, phase <- v6, at <- v7,
  msgs <- v8, calls <- v9, fault <- v10
Timing == INSTANCE TimerQueue WITH Timers <- {"a", "b"}, Durs <- {1, 3}, MaxTime <- 5, MaxWait <- 6,
  Rearms <- FALSE, Cancels <- TRUE, now <- v1, current_time_ <- v2, expire_time_ <- v3,
  duration_ <- v4, timer_queue_ <- v5, wk <- v6, deadline <- v7, wake <- v8, user <- v9,
  armed <- v10, fault <- v11
DueTimers == INSTANCE TimerQueue WITH Timers <- {"a", "b"}, Durs <- {1, 2}, MaxTime <- 3,
  MaxWait <- 6, Rearms <- FALSE, Cancels <- FALSE, now <- v1, current_time_ <- v2,
  expire_time_ <- v3, duration_ <- v4, timer_queue_ <- v5, wk <- v6, deadline <- v7, wake <- v8,
  user <- v9, armed <- v10, fault <- v11
Life == INSTANCE ServiceLife WITH Inline <- FALSE, NoDispatch <- FALSE, BadFd <- FALSE,
  Query <- TRUE, MaxOpens <- 3, state <- v1, flag <- v2, joinable <- v3, wpc <- v4, conn <- v5,
  chan <- v6, timer <- v7, opened <- v8, events <- v9, heard <- v10, spc <- v11, returned <- v12,
  rpc <- v13, wrong <- v14
NoPoll == INSTANCE ServiceLife WITH Inline <- FALSE, NoDispatch <- TRUE, BadFd <- TRUE,
  Query <- FALSE, MaxOpens <- 3, state <- v1, flag <- v2, joinable <- v3, wpc <- v4, conn <- v5,
  chan <- v6, timer <- v7, opened <- v8, events <- v9, heard <- v10, spc <- v11, returned <- v12,
  rpc <- v13, wrong <- v14
PollW == INSTANCE IoWatcher WITH Backend <- "poll", Fds <- WatchedFds, ZeroWait <- TRUE,
  MaxWakes <- WakeBound, MaxRoom <- 8, table <- v1, kernel <- v2, room <- v3, revents <- v4,
  nrev <- v5, intr <- v6, pc <- v7, todo <- v8, polled <- v9, sock <- v10, pollout <- v11,
  ready <- v12, shaken <- v13, called <- v14, early <- v15
EpollW == INSTANCE IoWatcher WITH Backend <- "epoll", Fds <- WatchedFds, ZeroWait <- TRUE,
  MaxWakes <- WakeBound, MaxRoom <- 8, table <- v1, kernel <- v2, room <- v3, revents <- v4,
  nrev <- v5, intr <- v6, pc <- v7, todo <- v8, polled <- v9, sock <- v10, pollout <- v11,
  ready <- v12, shaken <- v13, called <- v14, early <- v15
KqueueW == INSTANCE IoWatcher WITH Backend <- "kqueue", Fds <- WatchedFds, ZeroWait <- FALSE,
  MaxWakes <- WakeBound, MaxRoom <- 5, table <- v1, kernel <- v2, room <- v3, revents <- v4,
  nrev <- v5, intr <- v6, pc <- v7, todo <- v8, polled <- v9, sock <- v10, pollout <- v11,
  ready <- v12, shaken <- v13, called <- v14, early <- v15
SelectW == INSTANCE IoWatcher WITH Backend <- "select", Fds <- WatchedFds, ZeroWait <- FALSE,
  MaxWakes <- WakeBound, MaxRoom <- 8, table <- v1, kernel <- v2, room <- v3, revents <- v4,
  nrev <- v5, intr <- v6, pc <- v7, todo <- v8, polled <- v9, sock <- v10, pollout <- v11,
  ready <- v12, shaken <- v13, called <- v14, early <- v15
Eventfd == INSTANCE Interrupter WITH Kind <- "eventfd", Threads <- Posters, Capacity <- 3,
  Chunk <- 2, MaxPosts <- 2, Resets <- FALSE, form <- v1, pending <- v2, watched <- v3,
  worker <- v4, thread <- v5, work <- v6, posts <- v7, broken <- v8
Pipe == INSTANCE Interrupter WITH Kind <- "pipe", Threads <- Posters, Capacity <- 3, Chunk <- 2,
  MaxPosts <- 2, Resets <- FALSE, form <- v1, pending <- v2, watched <- v3, worker <- v4,
  thread <- v5, work <- v6, posts <- v7, broken <- v8
Socket == INSTANCE Interrupter WITH Kind <- "socket", Threads <- Posters, Capacity <- 3, Chunk <- 2,
  MaxPosts <- 2, Resets <- TRUE, form <- v1, pending <- v2, watched <- v3, worker <- v4,
  thread <- v5, work <- v6, posts <- v7, broken <- v8
Http == INSTANCE HttpClient WITH Requests <- {r1, r2, r3}, Sync <- {r2}, BadUrl <- {r3},
  Channels <- {0}, OnWorker <- FALSE, MaxRedirects <- 1, Kept <- {}, MayClear <- TRUE, None <- none,
  todo <- v1, pending <- v2, finished <- v3, avail <- v4, ud <- v5, chan <- v6, closing <- v7,
  timer <- v8, resp <- v9, refs <- v10, freed <- v11, heard <- v12, promised <- v13, cleared <- v14,
  main <- v15, worker <- v16
HttpCalls == INSTANCE HttpClient WITH Requests <- {r1, r2}, Sync <- {r2}, BadUrl <- {},
  Channels <- {0, 1}, OnWorker <- TRUE, MaxRedirects <- 1, Kept <- {}, MayClear <- FALSE,
  None <- none, todo <- v1, pending <- v2, finished <- v3, avail <- v4, ud <- v5, chan <- v6,
  closing <- v7, timer <- v8, resp <- v9, refs <- v10, freed <- v11, heard <- v12, promised <- v13,
  cleared <- v14, main <- v15, worker <- v16
UdpMap == INSTANCE UdpServer WITH Addrs <- {"p", "q"}, MaxDatagrams <- 2, recv <- v1, arrived <- v2,
  hashmap <- v3, sess <- v4, server <- v5
UdpStop == INSTANCE UdpServer WITH Addrs <- {"p"}, MaxDatagrams <- 3, recv <- v1, arrived <- v2,
  hashmap <- v3, sess <- v4, server <- v5
Only == INSTANCE Singleton WITH Threads <- {t1, t2}, MaxObjects <- 2, none <- 0, Destroys <- FALSE,
  __single__ <- v1, __mutex__ <- v2, pc <- v3, mine <- v4, made <- v5, ready <- v6, gone <- v7,
  deletes <- v8
Frames == INSTANCE FrameReader WITH Base <- 2, HeaderLen <- 2, Limit <- 3, MaxFrames <- 2,
  posted <- v1, flight <- v2, ended <- v3, buffer <- v4, frames <- v5, pc <- v6
Packets == INSTANCE PacketReader WITH Base <- 4, LengthOffset <- 1, LengthSize <- 2,
  LengthAdjustment <- 1, MaxFrameLength <- 6, Strip <- 2, BufferSize <- 5, FrameSizes <- {3, 4, 6,
  7}, Kcp <- FALSE, MaxFrames <- 2, wire <- v1, buffer <- v2, offset <- v3, expected <- v4,
  packet <- v5, wait <- v6, status <- v7, sent <- v8, delivered <- v9
Sends == INSTANCE SendQueue WITH Sizes <- {0, 1, 3}, Room <- 3, Udp <- TRUE, Mss <- 2, Changes <- 1,
  MaxOps <- 2, queue <- v1, kernel <- v2, wire <- v3, done <- v4, nops <- v5, pollout <- v6,
  wait <- v7, woken <- v8, pc <- v9, connected <- v10, changes <- v11, undefined <- v12
Queue == INSTANCE ConcurrentQueue WITH Producers <- {t1, t2}, Dual <- TRUE, none <- none,
  MaxEvents <- 3, MaxDepth <- 2, Counts <- {1, 2}, queue_ <- v1, deal_ <- v2, mtx_ <- v3,
  made <- v4, handled <- v5, cleared <- v6, calls <- v7, peek_ <- v8
Mutex == INSTANCE SharedMutex WITH Threads <- {t1, t2, t3}, n_readers_ <- 3, pc <- v1, asleep <- v2,
  write_entered_ <- v3, readers <- v4

ASSUME Solo!IoAssumption /\ Pair!IoAssumption /\ Many!ClientAssumption /\ Server!ServerAssumption /\
       Timing!TimerAssumption /\ DueTimers!TimerAssumption /\ Life!LifeAssumption /\
       NoPoll!LifeAssumption /\ Http!HttpAssumption /\ HttpCalls!HttpAssumption /\
       UdpMap!UdpAssumption /\ UdpStop!UdpAssumption /\ Only!SingletonAssumption /\
       Frames!FrameAssumption /\ Packets!FramingAssumption /\ Sends!SendAssumption /\
       Mutex!SharedMutexAssumption

\* The variables that a part of k variables does not have, and what stays as it is.
Keep23 == UNCHANGED part
None17 == v18 = none /\ v19 = none /\ v20 = none /\ v21 = none /\ v22 = none /\ v23 = none
Keep17 == UNCHANGED <<part, v18, v19, v20, v21, v22, v23>>
None16 == v17 = none /\ None17
Keep16 == UNCHANGED <<part, v17, v18, v19, v20, v21, v22, v23>>
None15 == v16 = none /\ None16
Keep15 == UNCHANGED <<part, v16, v17, v18, v19, v20, v21, v22, v23>>
None14 == v15 = none /\ None15
Keep14 == UNCHANGED <<part, v15, v16, v17, v18, v19, v20, v21, v22, v23>>
None12 == v13 = none /\ v14 = none /\ None14
Keep12 == UNCHANGED <<part, v13, v14, v15, v16, v17, v18, v19, v20, v21, v22, v23>>
None11 == v12 = none /\ None12
Keep11 == UNCHANGED <<part, v12, v13, v14, v15, v16, v17, v18, v19, v20, v21, v22, v23>>
None10 == v11 = none /\ None11
Keep10 == UNCHANGED <<part, v11, v12, v13, v14, v15, v16, v17, v18, v19, v20, v21, v22, v23>>
None9 == v10 = none /\ None10
Keep9 == UNCHANGED <<part, v10, v11, v12, v13, v14, v15, v16, v17, v18, v19, v20, v21, v22, v23>>
None8 == v9 = none /\ None9
Keep8 == UNCHANGED <<part, v9, v10, v11, v12, v13, v14, v15, v16, v17, v18, v19, v20, v21, v22,
         v23>>
None6 == v7 = none /\ v8 = none /\ None8
Keep6 == UNCHANGED <<part, v7, v8, v9, v10, v11, v12, v13, v14, v15, v16, v17, v18, v19, v20, v21,
         v22, v23>>
None5 == v6 = none /\ None6
Keep5 == UNCHANGED <<part, v6, v7, v8, v9, v10, v11, v12, v13, v14, v15, v16, v17, v18, v19, v20,
         v21, v22, v23>>
None4 == v5 = none /\ None5
Keep4 == UNCHANGED <<part, v5, v6, v7, v8, v9, v10, v11, v12, v13, v14, v15, v16, v17, v18, v19,
         v20, v21, v22, v23>>

Init == /\ part \in Parts
        /\ \/ part = "open" /\ Solo!Init
           \/ part = "pair" /\ Pair!Init
           \/ part = "many" /\ Many!Init /\ None17
           \/ part = "server" /\ Server!Init /\ None10
           \/ part = "timers" /\ Timing!Init /\ None11
           \/ part = "due" /\ DueTimers!Init /\ None11
           \/ part = "life" /\ Life!Init /\ None14
           \/ part = "badfd" /\ NoPoll!Init /\ None14
           \/ part = "poll" /\ PollW!Init /\ None15
           \/ part = "epoll" /\ EpollW!Init /\ None15
           \/ part = "kqueue" /\ KqueueW!Init /\ None15
           \/ part = "select" /\ SelectW!Init /\ None15
           \/ part = "eventfd" /\ Eventfd!Init /\ None8
           \/ part = "pipe" /\ Pipe!Init /\ None8
           \/ part = "socket" /\ Socket!Init /\ None8
           \/ part = "http" /\ Http!Init /\ None16
           \/ part = "answers" /\ HttpCalls!Init /\ None16
           \/ part = "udp" /\ UdpMap!Init /\ None5
           \/ part = "stopping" /\ UdpStop!Init /\ None5
           \/ part = "instance" /\ Only!Init /\ None8
           \/ part = "frames" /\ Frames!Init /\ None6
           \/ part = "packets" /\ Packets!Init /\ None9
           \/ part = "sends" /\ Sends!Init /\ None12
           \/ part = "queue" /\ Queue!Init /\ None8
           \/ part = "mutex" /\ Mutex!Init /\ None4

Next == \/ part = "open" /\ Solo!Next /\ Keep23
        \/ part = "pair" /\ Pair!Next /\ Keep23
        \/ part = "many" /\ Many!Next /\ Keep17
        \/ part = "server" /\ Server!Next /\ Keep10
        \/ part = "timers" /\ Timing!Next /\ Keep11
        \/ part = "due" /\ DueTimers!Next /\ Keep11
        \/ part = "life" /\ Life!Next /\ Keep14
        \/ part = "badfd" /\ NoPoll!Next /\ Keep14
        \/ part = "poll" /\ PollW!Next /\ Keep15
        \/ part = "epoll" /\ EpollW!Next /\ Keep15
        \/ part = "kqueue" /\ KqueueW!Next /\ Keep15
        \/ part = "select" /\ SelectW!Next /\ Keep15
        \/ part = "eventfd" /\ Eventfd!Next /\ Keep8
        \/ part = "pipe" /\ Pipe!Next /\ Keep8
        \/ part = "socket" /\ Socket!Next /\ Keep8
        \/ part = "http" /\ Http!Next /\ Keep16
        \/ part = "answers" /\ HttpCalls!Next /\ Keep16
        \/ part = "udp" /\ UdpMap!Next /\ Keep5
        \/ part = "stopping" /\ UdpStop!Next /\ Keep5
        \/ part = "instance" /\ Only!Next /\ Keep8
        \/ part = "frames" /\ Frames!Next /\ Keep6
        \/ part = "packets" /\ Packets!Next /\ Keep9
        \/ part = "sends" /\ Sends!Next /\ Keep12
        \/ part = "queue" /\ Queue!Next /\ Keep8
        \/ part = "mutex" /\ Mutex!Next /\ Keep4

Spec == Init /\ [][Next]_all

\* A behaviour is about one part only, so that one condition can stand for the k-th
\* fairness condition of every part.
FairSpec ==
  /\ Spec
  /\ WF_all(\/ part = "server" /\ Server!Worker /\ Keep10
            \/ part = "due" /\ DueTimers!Worker /\ Keep11
            \/ part = "poll" /\ (PollW!PollReturns /\ (PollW!Occurs # {} \/ PollW!Interrupted)) /\ Keep15
            \/ part = "epoll" /\ (EpollW!PollReturns /\ (EpollW!Occurs # {} \/ EpollW!Interrupted)) /\ Keep15
            \/ part = "eventfd" /\ (Eventfd!Open \/ Eventfd!OpenFails) /\ Keep8
            \/ part = "pipe" /\ (Pipe!Open \/ Pipe!OpenFails) /\ Keep8
            \/ part = "answers" /\ HttpCalls!Main /\ Keep16
            \/ part = "frames" /\ Frames!ReadSome /\ Keep6
            \/ part = "packets" /\ Packets!Reads /\ Keep9
            \/ part = "sends" /\ Sends!MayReturn /\ Sends!Poll /\ Keep12
            \/ part = "queue" /\ Queue!Dispatcher /\ Keep8
            \/ part = "mutex" /\ (Mutex!lock(t1) \/ Mutex!lock2(t1) \/ Mutex!lock_shared(t1)) /\ Keep4
            \/ part = "stopping" /\ UdpStop!Finish /\ Keep5
            \/ part = "instance" /\ Only!Runs(t1) /\ Keep8)
  /\ WF_all(\/ part = "due" /\ DueTimers!Tick /\ Keep11
            \/ part = "poll" /\ PollW!Top /\ Keep15
            \/ part = "epoll" /\ EpollW!Top /\ Keep15
            \/ part = "eventfd" /\ Eventfd!Wakes /\ Keep8
            \/ part = "pipe" /\ Pipe!Wakes /\ Keep8
            \/ part = "answers" /\ HttpCalls!Worker /\ Keep16
            \/ part = "frames" /\ (Frames!NoFrame \/ Frames!RecvFrame) /\ Keep6
            \/ part = "sends" /\ Sends!DoWrite /\ Keep12
            \/ part = "queue" /\ Queue!Dispatches /\ Keep8
            \/ part = "mutex" /\ Mutex!unlock(t1) /\ Keep4
            \/ part = "stopping" /\ UdpStop!Beginning(1) /\ Keep5
            \/ part = "instance" /\ Only!Runs(t2) /\ Keep8)
  /\ WF_all(\/ part = "poll" /\ PollW!NextPart /\ Keep15
            \/ part = "epoll" /\ EpollW!NextPart /\ Keep15
            \/ part = "eventfd" /\ Eventfd!Reads /\ Keep8
            \/ part = "pipe" /\ Pipe!Reads /\ Keep8
            \/ part = "sends" /\ Sends!Transmit /\ Keep12
            \/ part = "queue" /\ Queue!Emplaced(t1) /\ Keep8
            \/ part = "mutex" /\ Mutex!unlock_shared(t1) /\ Keep4
            \/ part = "stopping" /\ UdpStop!Beginning(2) /\ Keep5)
  /\ WF_all(\/ part = "poll" /\ (PollW!Transport(1) \/ PollW!Opens(1) \/ PollW!Completes(1) \/ PollW!Passed(1)) /\ Keep15
            \/ part = "epoll" /\ (EpollW!Transport(1) \/ EpollW!Opens(1) \/ EpollW!Completes(1) \/ EpollW!Passed(1)) /\ Keep15
            \/ part = "eventfd" /\ Eventfd!Recreates /\ Keep8
            \/ part = "pipe" /\ Pipe!Recreates /\ Keep8
            \/ part = "queue" /\ Queue!Emplaced(t2) /\ Keep8
            \/ part = "mutex" /\ (Mutex!lock(t2) \/ Mutex!lock2(t2) \/ Mutex!lock_shared(t2)) /\ Keep4
            \/ part = "stopping" /\ UdpStop!Beginning(3) /\ Keep5)
  /\ WF_all(\/ part = "eventfd" /\ Eventfd!Pass /\ Keep8
            \/ part = "pipe" /\ Pipe!Pass /\ Keep8
            \/ part = "mutex" /\ Mutex!unlock(t2) /\ Keep4
            \/ part = "stopping" /\ UdpStop!Ending(1) /\ Keep5)
  /\ WF_all(\/ part = "eventfd" /\ Eventfd!Interrupts(t1) /\ Keep8
            \/ part = "pipe" /\ Pipe!Interrupts(t1) /\ Keep8
            \/ part = "mutex" /\ Mutex!unlock_shared(t2) /\ Keep4
            \/ part = "stopping" /\ UdpStop!Ending(2) /\ Keep5)
  /\ WF_all(\/ part = "eventfd" /\ Eventfd!Interrupts(t2) /\ Keep8
            \/ part = "pipe" /\ Pipe!Interrupts(t2) /\ Keep8
            \/ part = "mutex" /\ (Mutex!lock(t3) \/ Mutex!lock2(t3) \/ Mutex!lock_shared(t3)) /\ Keep4
            \/ part = "stopping" /\ UdpStop!Ending(3) /\ Keep5)
  /\ WF_all(part = "mutex" /\ Mutex!unlock(t3) /\ Keep4)
  /\ WF_all(part = "mutex" /\ Mutex!unlock_shared(t3) /\ Keep4)

-----------------------------------------------------------------------------
\* The UDP server of rmc-server: its map names exactly the sessions that have not been
\* removed, one for an address, and a session hands on consecutive datagrams of its address
\* from the one that made it. yasio's server channels: transport_map_ names for each peer a
\* transport of that peer that exists, and what a peer sends comes up on such a one.
SessionsRouted ==
  /\ part = "udp" => UdpMap!SessionsRouted
  /\ part = "server" => Server!SessionsRouted

\* A client channel never has two transports and is OPENED exactly while it has one. Two
\* channels never share a descriptor, every descriptor in use belongs to a channel, and the
\* watcher watches those and no other, whoever opens or closes at what moment. yasio_client
\* opens only an idle channel whose events have been handled, whatever its callers do: the
\* discipline under which KeepsPromise holds.
ChannelsSound ==
  /\ part = "open" => Solo!OneTransport
  /\ part = "pair" => Pair!SocketsOwned
  /\ part = "many" => Many!OpensIdleChannels

\* No timer is in timer_queue_ twice, none runs before its time, and the worker never
\* sleeps past one unless it is being woken, whoever added or removed timers since it
\* looked.
TimersOnTime == part = "timers" => Timing!Unique /\ Timing!NoOversleep /\ Timing!NeverEarly

\* HttpClient: every channel is available, occupied by a response or in the hands of the
\* worker; a response is in one place at a time, is not used after it is deleted, and when
\* everything is done has been deleted once, heard by its caller or cleared; the read
\* timeout runs only for an open connection.
ResponsesConserved == part = "http" => Http!ChannelsConserved /\ Http!UsedAlive /\ Http!NoneLeaked /\ Http!TimersBelong

\* yasio_client::connect: a connection that left the waiting queue, and was not
\* disconnected there, is the one some channel was opened for, or has ended, for any
\* callers.
NoneLostByAny == part = "many" => Many!NoneLost

\* IoChannel implements ClientChannel: across the connect timeout, the resolver, close() at
\* any moment and the race on opmask_, every open is answered at most once and a close
\* event follows every open event.
KeepsPromise ==
  /\ (part = "open" => Solo!Begins)
  /\ [][part = "open" => Solo!Moves]_all

\* When the service is IDLE each connection that was reported open has been reported
\* closed; every event is heard once, also those queued when poll failed; after the
\* destructor the resolver thread stores nothing in the service; and stop() on a thread
\* other than the worker leaves the service IDLE.
StopIsClean ==
  /\ [](part = "life" => Life!ClosesReported /\ Life!NothingFreedIsUsed)
  /\ [](part = "badfd" => NoPoll!AllHeard)
  /\ [][part = "life" => Life!ReturnsIdle]_all

\* With each back end the watcher watches what the service needs to hear of and no closed
\* socket, has room to poll, reports only events of this poll, is woken only by a wakeup(),
\* and with select reports a connection when its handshake is complete. No interrupter
\* leaves a request behind in a sleeping worker, however full the pipe was, and reset
\* empties it.
PollsExact ==
  /\ [](part = "poll" => PollW!WatchesNeeded /\ PollW!NoSpin)
  /\ [](part = "epoll" => EpollW!WatchesNeeded /\ EpollW!RoomToPoll /\ EpollW!ReportIsFresh /\ EpollW!NoSpin)
  /\ [](part = "kqueue" => KqueueW!WatchesNeeded /\ KqueueW!RoomToPoll /\ KqueueW!ReportIsFresh)
  /\ [](part = "select" => SelectW!HandshakeDone)
  /\ [](part = "eventfd" => Eventfd!NoneSleeps)
  /\ [](part = "pipe" => Pipe!NoneSleeps)
  /\ [](part = "socket" => Socket!NoneSleeps)
  /\ [][part = "eventfd" => Eventfd!Empties]_all
  /\ [][part = "pipe" => Pipe!Empties]_all
  /\ [][part = "socket" => Socket!Empties]_all

\* Once stopped the UDP server ends without its time-out, and the address of a session that
\* ends is free again. At yasio's server channels a connection that waits is accepted, a
\* datagram that waits is read, and a transport that somebody closed goes. Every HTTP
\* request is answered when callbacks run on the worker.
AllServed ==
  /\ (part = "stopping" /\ UdpStop!Waits) ~> (part = "stopping" /\ ~UdpStop!Waits)
  /\ \A i \in 1..3 : (part = "stopping" /\ UdpStop!Ended(i)) ~> (part = "stopping" /\ UdpStop!Freed(i))
  /\ \A c \in {"u", "t"} : (part = "server" /\ Server!Waited(c)) ~> (part = "server" /\ ~Server!Waited(c))
  /\ \A s \in 1..Conns : (part = "server" /\ Server!Marked(s)) ~> (part = "server" /\ ~Server!Marked(s))
  /\ \A r \in {r1, r2} : (part = "answers" /\ HttpCalls!Asked(r)) ~> (part = "answers" /\ HttpCalls!Heard(r))

\* A timer whose time has come runs, even behind others that go again and again; wakeup()
\* ends the poll, whenever it is called; and the worker comes to every request that was
\* made before interrupt().
WakesHeard ==
  /\ \A t \in {"a", "b"} : (part = "due" /\ DueTimers!Due(t)) ~> (part = "due" /\ ~DueTimers!Due(t))
  /\ ((part = "poll" /\ PollW!Woken) \/ (part = "epoll" /\ EpollW!Woken))
     ~> ((part = "poll" /\ ~PollW!Blocked) \/ (part = "epoll" /\ ~EpollW!Blocked))
  /\ \A t \in Posters : ((part = "eventfd" /\ Eventfd!Asking(t)) \/ (part = "pipe" /\ Pipe!Asking(t)))
     ~> ((part = "eventfd" /\ ~Eventfd!Asking(t)) \/ (part = "pipe" /\ ~Pipe!Asking(t)))

\* poll_read delivers every message sent unless one before it ended the session or the
\* connection broke; do_read delivers every acceptable frame, also when it arrived together
\* with another and nothing follows it; do_write completes every operation that was
\* accepted, unless the transport is closed.
BytesArrive ==
  /\ \A k \in 1..2 : (part = "frames" /\ Frames!Posted(k)) ~> (part = "frames" /\ Frames!Settled(k))
  /\ \A i \in 1..2 : (part = "sends" /\ Sends!Accepted(i)) ~> (part = "sends" /\ Sends!Completed(i))
  /\ <>[](part = "packets" => Packets!Complete)

\* concurrent_queue: every event is handled, or dropped by clear, though empty() may answer
\* wrongly. shared_mutex: a writer that has entered gets the lock; no reader that comes
\* later and no forgotten notification keeps it out. singleton: a caller of instance gets
\* the object or the exception of its construction, also behind one whose construction
\* threw.
ThreadsProgress ==
  /\ \A e \in 1..3 : (part = "queue" /\ Queue!Made(e)) ~> (part = "queue" /\ Queue!DoneWith(e))
  /\ \A t \in {t1, t2, t3} : (part = "mutex" /\ Mutex!Entered(t)) ~> (part = "mutex" /\ Mutex!Writing(t))
  /\ \A t \in {t1, t2} : (part = "instance" /\ Only!Called(t)) ~> (part = "instance" /\ Only!Answered(t))
=============================================================================
